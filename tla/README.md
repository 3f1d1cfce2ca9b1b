# A model of bsord

bsord is a crash reporter for C programs (`src/panic.c`), an echo server that
crashes on purpose to try it (`src/server.c`), a client that provokes the crash
(`src/client.c`), and a project file (`src/.plano.py`) for plano, the Python
library and command framework in `src/subrepos/plano` that builds and runs them.
This directory holds TLA+ modules of these programs, the TLC runs that check
them on small instances, and TLAPS proofs for all instances.

    tlc -workers 2 -config MCPanicHandler.cfg MCPanicHandler.tla
    tlapm PanicHandlerProofs.tla

`PROJECT.json` is the index: components, runs, mutants, hazards, findings,
theorems, and for every definition the source lines it stands for. Paths below
are relative to the repository; `plano/` is `src/subrepos/plano/src/plano/`.

## 1. Inventory

| Part | State | Operations | Talks to | Hard because |
|---|---|---|---|---|
| Crash reporter, `panic.c` | signal dispositions; per activation a cursor, a loop index, the frame chosen | `install_panic_handler`, `panic_handler`, `print_registers`, `print_backtrace` | kernel, libunwind | handler and threads interleave; the handler faults too; every libunwind call can fail; corrupt stacks |
| Echo server, `server.c` | listening socket, one thread per connection, the global `visited` | `main`: listen, accept, spawn; `run`: recv, inject, send | client by TCP, crash reporter | unguarded global, smashed heap, back-pressure, SIGPIPE |
| Echo client, `client.c` | three sockets, two threads for each | connect, `run_sender`, `run_receiver`, join | server | full sockets both ways, end of file, RST, SIGPIPE; exit under running threads |
| Project commands, `.plano.py` | a child process | `build`, `run_`, `inject`, `clean` | server and client through plano | readiness is a fixed sleep; teardown does not wait |
| plano `Timer`, `plano/main.py` | the process's one SIGALRM handler and one interval timer | `start`, `stop` | kernel, test runner, `await_*` | asynchronous exception anywhere; nesting |
| plano test runner, `plano/test.py` | `TestRun` lists, redirected stdout, exit status | selection, `_run_test`, `skip_test`, `expect_*`, `run_tests` | `Timer`, `output_redirected`, signals | four ways out of a test, asynchronous ones included |
| plano command framework, `plano/command.py` | `bound_commands`, `running_commands`, sequence | `main`, `parse_args`, `init`, `run`, `__call__`, `parent` | command functions of the user | calls, overriding, exceptions at any depth |
| plano processes, `plano/main.py:1099-1329` | children, stash files, `_child_processes` | `start`, `stop`, `kill`, `wait`, `run`, `call`, SIGTERM handler | children | orphans, timeouts, negative exit codes |
| plano scopes, `plano/main.py` | working directory, environment, `sys.path`, logging level and output, temporary files | `__enter__`/`__exit__` of ten classes | everything | nesting, failing entry, bodies that change what the scope restores |
| plano files and directories | the file system | `copy`, `move`, `remove`, `find`, line operations, archives | file system | partial failure, empty directories, `lines[-0:]` |
| plano polling and ports | none | `await_port`, `await_exists`, `get_random_port` | `Timer` | late answers |
| plano text, paths, data, HTTP, console | none | string functions, JSON, YAML, curl | libraries | text boundaries |

What makes each part correct:

* **Crash reporter**: an armed signal never kills the process without its handler
  having run; one report per signal, whatever faults; each report is well formed
  and, when its handler has returned, complete; the backtrace marks the frame
  whose registers were printed; a crashed process ends.
* **Echo scenario**: the injection is reached; the echo does not jam; the crash is
  reported before teardown can interfere; the server's death ends client and run;
  no process is left over.
* **Timer**: no alarm outlives its block; an enclosing block gets back what it had
  left; a timeout has a cause; a block that hangs is ended.
* **Test runner**: one verdict per test; a green status means what it says, unless a
  KeyboardInterrupt gave it; lost output, a termination or a hang cannot look green,
  unless a test has caught the exception that should end it.
* **Commands**: sequences run in order and stop at the first failure; the nesting
  shown is the nesting there is; no failure is lost on its way to the exit status.
* **Processes**: SIGTERM spares no child that is listed, a block kills its child
  however it is left, a check that passes is true, a stash file does not outlive
  its command's wait, and SIGTERM ends the script.
* **Scopes**: a block gives back the settings it is about and no others, whatever
  its body and the blocks inside it do; none that returns without an exception has
  failed to, and one that fails upsets nothing else.
* **Files**: no operation loses text it was not asked to replace or remove,
  whichever of its steps fails; a copy shows what the source showed.

The hazards of the code, each at its line and with the properties about it, are in
`PROJECT.json`.

## 2. Modules

| Module | Models | Role |
|---|---|---|
| `CrashReport` | nothing directly | what the crash reporter promises: per signal unarmed, armed, running, done; the signal that the process died of |
| `PanicHandler` | `panic.c` | detailed specification |
| `PanicHandlerProps` | | its properties and the refinement mapping to `CrashReport` |
| `PanicHandlerProofs` | | theorems |
| `MCPanicHandler` | | constants for TLC |
| `EchoSystem` | `server.c`, `client.c`, `run_` of `.plano.py`, and the lines of `start`, `run`, `wait`, `kill`, `PlanoProcess` that it uses | composes server, client and script; uses the actions of `CrashReport` as the crash reporter of the server |
| `EchoSystemProofs` | | inductive invariant and theorems |
| `Timer` | `Timer` of `plano/main.py` | timed blocks, and their properties |
| `TimerProofs` | | inductive invariant and theorems |
| `TestRun`, `MCTestRun` | `plano/test.py` and the exit status of `BaseCommand.main` | the test runner, with the effect of `Timer` and `output_redirected` on it |
| `TestRunProofs` | | inductive invariant and theorems |
| `PlanoCommand`, `MCPlanoCommand` | `plano/command.py` | sequences, calls between commands, overriding |
| `PlanoCommandProofs` | | inductive invariant and theorems |
| `Process` | process operations, `PlanoProcess` and the SIGTERM handler of `plano/main.py` | a script, its children, signals, and their properties |
| `ProcessProofs` | | inductive invariant and theorems |
| `Scoped` | nothing directly | what a with-block promises about the settings it is about |
| `Scopes` | the context managers of `plano/main.py` | detailed specification, and its refinement mapping to `Scoped` |
| `ScopesProofs` | | inductive invariant and theorems, the refinement of `Scoped` |
| `Files`, `MCFiles` | file operations of `plano/main.py` | one operation on each of a set of trees, any step failing |
| `FilesProofs` | | inductive invariant and theorems |

Each action is a step of the code between two points where something else can
happen; its comment or name says which. A definition marked *Mutant* in its
comment is a plausible bug: it is not used by the specification, and the mutants
of `PROJECT.json` put it in the place of the definition below it to show that a
property can fail.

### PanicHandler

`disposition` is the kernel's table of signal actions. `stack[t]` holds the user
code of thread `t` and one context per nested activation of `panic_handler`:
signal, program counter, the loop counter and the index of the frame chosen, the
stack captured by `unw_getcontext`, and the signal its current instruction raises
(`fault`). `report[s]` is what was written about `s`, as line kinds and frame
numbers. `Install` is one `sigaction`. `Fault` is an instruction of the program or
of the handler that raises a signal, the first time and whenever it is executed
again after a handler returned; `SendSignal` is `kill(2)` from outside.
`PrintHeader` to `Return` follow `panic_handler` and the functions it calls, with
each libunwind call free to fail. libunwind and the kernel are external: a stack
(`WalkType`) is the list of the answers that the heuristic `ip < 0x3fffffffffff`
gives on its frames, and what the step past the last frame does.

### EchoSystem

`link[j]` is the connection of job `j`: both ends, whether it was reset, and the
units under way in each direction (at most `Capacity`; a full direction blocks the
sender). Closing an end with unread data is a reset, else an end of file; data
sent to a closed end is answered by a reset; `send` on a reset connection fails or
raises SIGPIPE, which ends the process silently. `worker[j]` is a `run()` thread:
`Receive` is `recv` and the test of `visited`, `Inject` the write of `visited` and
the heap smash, so that two workers can both inject. From then on `Fault` may hit
any server thread at any step, or never: the heap smash is undefined behaviour. The
panic handler is `CrashReport`'s `Enter` and `Finish`, and `Die` is the faulting
instruction executed again. `run`, `verdict` and `terminating` are `run_`: start
the server, sleep (which guarantees nothing), run the client, check its exit code
the way `wait` does, kill the server without waiting. `KillClient` is somebody
else ending the client. `OutOfSockets` is a `socket` or `connect` that fails for want
of a descriptor or a port, whatever the server does, and `ExitClient` may find an errno
that a successful call of main left: both end the client with a positive code. The
calls of `pthread_create`, whose results the code ignores, are taken to succeed.

### Timer

`blocks` are the timed blocks entered, each at a step of `start`, its body, or
`stop`. `handler` and `itimer` are the process's SIGALRM handler and interval
timer. The alarm can come between two calls (`Fire`) or in the middle of one
(`fires`), and the Python handler runs after the call (`Deliver`). The wall clock
can be set back (`ClockWentBack`).

### TestRun

`pc` walks through `run_tests` and `_run_test`; `exc` is the exception under way;
`run` the `TestRun` object; `stdout` and `saved` the effect of `output_redirected`.
`Alarm`, `Sigint` and `Sigterm` raise their exceptions at whatever step is next. A test
body can raise KeyboardInterrupt itself (`EndBody`), as `chucker/tests.py` does, and can
catch what is raised in it and go on, as with `expect_timeout` or `expect_system_exit`:
then `late`, or `caught`, says so (`CatchInBody`, `CatchSignal`), and `interrupts` and
`terms` count the rest. A test's own timeout comes before that of the command line
(`Timeout`). Patterns are the sets of tests they match.

### PlanoCommand

`frames` are the command functions on Python's stack, `running_commands` the list
of that name. `CallCommand` is `Command.__call__` with the passing-on to the bound
command, `CallParent` is `parent()` with its lookup by stack inspection and its
bare `except`, `Unwind` an exception leaving a function without a pop.

### Process

`child` and `status` are what the kernel knows of a process, `children` is
`_child_processes`, `returncode` the attribute of `Popen`, `files` the stash files on
disk. `pc` is the point reached in the operation under way, with its process: `start`
has a step before the fork (`Start`), the fork (`Fork`), the append to
`_child_processes` (`Register`) and, in a with statement, the entry of the block
(`EnterBlock`); `Kill`, `Stop` and `Wait` begin the operations of these names and
`Signal`, `Reap`, `TimeOut` and `Settle` continue them; `run` and `call` go on from
`Register` to `Reap`, too. `sweep` has an activation of
`_default_sigterm_handler` for each SIGTERM received and not yet dealt with, because
CPython runs the handler of a second one inside the first; `SweepNext` polls and
terminates one child and `SweepEnd` is its `exit()`. `Alarm` is the exception of an
enclosing `Timer` at any point, also between `waitpid` and the assignment of
`returncode`, where it loses the status. `Popen` is external: its `poll` reaps a child
unless the code that the handler interrupted holds its lock.

### Scopes

`value` is the function from settings (environment variables, working directory,
`sys.path`, `sys.stdout`, logging level and output, terminal color) to their values,
`dirs` the directories and temporary files that exist, `scopes` the blocks entered,
each with the settings it is to give back and the steps of its `__exit__`. A block's
`__enter__` and `__exit__` are lists of steps (`Assign`, `Delete`, `ChangeDir`,
`MakeDir`, `RemovePath`) executed in one action, or in part when a step is not
possible (`Can`) or is struck (`Interrupted`). `Change` is the body changing a
setting. `failures` counts the blocks that failed, `failed` has their settings, and
`upset` those that were not what they should be when a block was left, whether it
returned or raised; `Scoped` counts failures too, so that a block which quietly gives
nothing back is no step of it. `output_redirected` of a stream, such as `sys.stdout`, is
an action of its own: it raises before it changes anything, since `output` has a value
only when it is the name of a file. `Shown` is the mapping to `Scoped`: level and output of logging are one
setting there, since `disable_logging` does not touch the output, and the color is
none, since `console_color` does not give back the color of the block around it.

### Files

`fs` is a function from paths to files, directories and links; a path is a sequence of
names, and names and the lines of texts are made of `Words`. `Walk` is the kernel's path
resolution, name by name and through links, with `Real` its end and `Place` where the
entry itself is. One operation is called on each tree; its recursion is
unfolded into `agenda`, the steps to come: `DoCopy`, `DoEntries`, `DoFile` and `DoStat`
are the recursion of `copy`, `DoRemove`, `DoLink` and `DoSymlink` the other operations
on entries, `DoOpen`, `DoWrite`, `DoRead`, `DoAdd` and `DoTail` those on text. A step
whose guard is false can only fail, and any step can (`StepFails`), with what it may
have done before (`Partly`): a file half written, a tree half removed, a parent directory
made for a file that cannot be opened. `copy` is called with and without `symlinks`; the
flag is the same in the whole recursion, so that it is kept in `op`.

The text of an archive stands for what is in it: a line is an entry at the top, in the
order of `list_dir`, with its name first. `DoPack` is what `rename_archive` does in its
temporary directory: it extracts, moves `list_dir()[0]` to the new name, and packs that
alone. An empty archive is an `IndexError`; an entry that has the new name already is moved
onto or into itself, which fails; and where another entry has the new name, the first one
may be moved inside it and keep its own. The other entries are gone when the archive is
removed, so `NothingElseLost` claims the first one only.

`FilesAssumption` says what a file system gives: every entry of a tree is in a
directory, no two names that `list_dir` finds are the same, the temporary file of
`rename_archive` has a name that nothing else has, and no entry has an empty name, which
stands for where a loop of links leads (`Nowhere`). Paths below the first level are
made of `Names` and are at most `MaxDepth` long, so that `Rests` has all of them.

## 3. Runs

| Run | Bounds | Shows |
|---|---|---|
| `panic_handler` | 2 threads, 2 signals, 4 kinds of stack, limit of 2 frames, 1 signal from outside | all properties of `PanicHandlerProps` but the last. Two threads and two signals give every pair that can meet (same or different signal, same or different thread, nested or not); the stacks reach each outcome of both loops: likely frame found at once, later, not within the limit, walk failing |
| `panic_fallback` (violation) | 1 thread, a stack without a likely frame | the comment "If we didn't find a likely frame, use the first" does not hold |
| `echo` | 2 jobs, buffers of 2 units through sockets of 1 unit, 1 signal | all properties of `EchoSystem`. Two workers are enough for the race on `visited` and for one thread crashing while another serves; a buffer larger than the socket makes every send block; the third receive of a worker, which injects, needs one and a half buffers |
| `timer` | 3 timers, timeouts of 1 and 2 ticks, 1 setback of the clock | all properties of `Timer` but the last. Three timers give two nested blocks and one after or inside them; the two timeouts give both orders of expiry |
| `timer_overrun` (violation) | 2 timers | nested blocks let the outer one overrun |
| `test_run` | 3 tests (one disabled; two with timeouts of their own, one of them 0), 2 iterations, 2 signals, 96 command lines | all properties of `TestRun` but the last |
| `test_run_fail_fast` (violation) | 2 tests | `--fail-fast` does not stop the run |
| `plano_command` | 4 commands in 2 modules, 7 sequences, all flags, 3 nested calls, 1 SIGINT | all properties of `PlanoCommand` but the last. Three calls reach a command inside an overriding command inside its parent, and one after a caught exception |
| `plano_command_help` (violation) | no nested calls | `--help this,that` executes `this` |
| `process` | 2 commands (one with a stash), 2 calls, 2 SIGTERMs, 1 alarm | all properties of `Process`. One command can be waited for while the other is being started or is in a block; a second SIGTERM can interrupt the handler of the first, and the alarm either |
| `files` | 212 trees of 2 or 3 levels with the names `a` and `b` and a bystander `c`, 5 paths, depth 3 | all properties of `Files`. The trees have every pair of file, link and directory at the top; in the directory `a` are a file, a directory or a link to `a` or `c`, and a second file, in `b` a file or a directory: what one shows the other does not, calls with the two names exchanged show. Others have links from inside `a` to `b` and from inside `b` to `a`, `b` or `c`, so that a copy of one to the other writes twice in one place, reads what it has just written, or writes to `c` through a link; one has the same names at three levels, and one an empty file. As archives, the files at `a` and `b` have two entries, so that either of them, or none, has the new name, and the others one. Each of the exceptions that `NothingElseLost` and `CopyFaithful` make is needed on these trees, but for the word "below", since there every path below one where the operation writes is such a path itself. A path of depth 3 is reached by copying into a deep tree or a directory into itself |
| `scopes` | 3 blocks, 1 change by a body, 1 failing call or signal; 2 variables, 2 directories, 1 temporary one, 2 levels | all properties of `Scopes`. Three blocks give nesting around and after a failed one; every kind of block meets every other |

Deadlock is checked in every run; terminal states (process dead, run ended, command
exited) stutter explicitly.

The violations are disagreements between a comment or help text and the code, see
`findings`. Besides them the models show, without a text that says otherwise:

* A program killed by a signal has a negative exit code, and `check` looks for a
  positive one, so `run("client")` succeeds when the client died of SIGPIPE, even
  before all its connections were made (`EchoSystem`, `ServedRunSucceeds`).
* The client exits with an errno that no failed call need have set; that can fail
  `run_` after the crash it was started to see, and not before (`ServedRunSucceeds`).
* If the client finds no more sockets while the server writes its report, `run_`
  kills the server and the report is cut off (the exception in `ReportNotCut`).
* SIGALRM with the default action can kill the process between the two calls of the
  outermost `stop()`; nowhere else (`AlarmHasBlock`).
* After a setback of the wall clock the assertion in `stop()` leaves the alarm
  armed (`AlarmHasBlock` excludes that case).
* A SIGTERM that reaches a test body fails that test and does not end the run; the
  run is not green then (`TerminatedNotGreen`), unless the body catches the
  SystemExit. A KeyboardInterrupt, also one that a test raises itself, ends a run with
  status 0, whatever failed before and whatever has not been run (the exception in
  `GreenMeansPassed`).
* A test that hangs although it has a timeout holds the run only after it has caught
  its PlanoTimeout (`RunEnds`).
* A command left by an exception that its caller catches stays in
  `running_commands` for ever (`NestingShown` counts it).
* `parent()` fails in the function of a parent, so overriding over three modules
  does not work; a Ctrl-C during its lookup becomes "Missing parent command".
* An exception of SIGTERM or of an alarm between the fork and the append to
  `_child_processes` loses the child, which then survives its parent; one inside
  `__exit__` keeps the block from killing its child (`SweepSparesNone`, `BlocksKill`).
* An alarm that comes inside the SIGTERM handler replaces its `SystemExit` by a
  PlanoTimeout, and the SIGTERM is forgotten (`SigtermEnds` excludes it). An alarm
  between `waitpid` and the assignment of `returncode` makes a failed command look
  like one that ended with 0 (`CheckedIsTrue`).
* A second `wait` for a failed command with a stash fails with a missing file.
* `working_env` leaves variables that its body has added; removing the current
  directory, or deleting a variable, in a body makes the block fail on its way out
  (`FailuresHaveCause`). A nested `console_color` resets the outer one's color.
* `output_redirected` of a stream such as `sys.stdout` raises an UnboundLocalError:
  only the name of a file gives its local `output` a value (`FailuresHaveCause`).
* `copy` over a directory in which there is a link writes to what the link leads to,
  outside the destination. If links there lead two paths to one place, the copy writes
  over itself, or through a link that it has just made, so that a file the source only
  links to is overwritten and a move loses part of its source (`Merged`). A source in
  which a link leads to the destination is copied while the copy changes it. A directory
  copied to one above it with the same names overwrites part of itself before that is
  copied (`Overlap`).
* Moving a directory to itself or below itself loses it; so does `rename_archive` to
  the name the archive has. `rename_archive` keeps only the first entry of an archive
  that has several at the top, and then removes the archive (`main.py:124-129`); it fails
  on an empty archive, and on one whose first entry has the new name already
  (`NothingElseLost`). `copy` of a link onto its target makes
  a link to itself; `copy` of a file with `inside=False` onto a directory of the same
  name goes inside it; a file concatenated to itself under another name ends up empty;
  `tail_lines(file, 0)` is the whole file (`CopyFaithful`, `TextAsAsked`).
* `run_tests(unskip="pattern")` stores the pattern in `enable` (`plano/test.py:211`), so
  the option is lost and disabled tests run; the option parser passes lists.

## 4. Fairness

* `PanicHandler`: each thread that has an instruction of the handler to execute, or
  a faulting one to execute again, does so (the kernel schedules every thread). No
  fault or signal from outside is assumed to happen.
* `EchoSystem`: weak fairness of every thread of server and client, of `run_`, and
  of signal delivery; `send` and `recv` are enabled when the socket lets them
  return. Nothing makes a smashed heap be noticed, or the sockets run out, so nothing says that the server
  crashes: `CrashEndsRun` starts from its death.
* `Timer` and `TestRun`: time passes, the alarm comes, the interpreter runs the
  handler and continues. Bodies and tests need not end, so `RunEnds` leaves the run
  in a test that has no timeout, or has caught it.
* `Process`: weak fairness of the steps of the SIGTERM handler, and of the interpreter
  unwinding a SystemExit, which scripts do not catch. Scripts, children and signals
  are free to do nothing.
* `Files`, `Scopes`: no liveness; their operations are sequences that always end.
* `PlanoCommand` has no liveness property: command functions need not end.

## 5. Proofs

`PanicHandlerProofs` proves, for any threads, signals, stacks, limits and any
number of outside signals allowed by `ConstantsAssumption` (main is a thread, the
signals are installed once each, limits are naturals):

* `TypeCorrect`: `Spec => []TypeOK`;
* `HandlerRunsOnce`: `Spec => []HandlerOnce`;
* `ReportsWellFormed`: `Spec => []ReportWellFormed`;
* `MarksAreRight`: `Spec => []MarksLikelyFrame`;
* `Refinement`: `Spec => ImplementsCrashReport`, that is `Abstract!AbsSpec`.

Neither `HandlerOnce` nor the refinement is inductive. The invariant `IInv` adds
the shape of a stack (user code at the bottom, handlers above), that a signal which
is armed, or not yet installed, has not been handled (`ArmedOnce`), that every
activation of a signal is counted by `entries` (`ActivationsCounted`) and that it is
the only one (`ActivationsDistinct`). The argument: an activation is pushed only
while its signal is armed, when its count is 0, and SA_RESETHAND disarms it in the
same step; all other steps change the innermost context of one thread without
touching signals, pop it, or end the process. The lemmas `AdvanceShape`,
`PushShape`, `ReturnShape` and `DeliveryShapes` reduce the actions to these shapes
(`StepShapes`), and both `NextIInv` and the step of the refinement go through them.
For the refinement a step maps to `Arm`, `Enter`, `Finish`, `Die` or a stutter, and
`Die(s)` is a death by `s` itself: the stage of `s`, which was not `armed`, becomes
`killer` and no other stage changes. A death by an armed signal is no step of
`CrashReport`, whatever the stages of the other signals are;
`EchoSystem` uses exactly that specification for the crash reporter.

The two properties of the reports need to know what each instruction finds written.
`ReportInv`, on top of `IInv`, says of an activation at each program counter which
lines its report has, with the loop counter, the cursor and the frame chosen
(`ActivationsReported`), and of a signal without an activation that its report is
empty or, if its handler has returned, complete (`SignalsReported`). Since an activation
is the only one of its signal, and a nested one writes to another report, a step is
about one activation and one report.

`EchoSystemProofs` proves, for any number of jobs, set of signals, size of buffers and
capacity of a connection that `EchoAssumption` allows:

* `TypeCorrect`: `Spec => []TypeOK`;
* `ReportsNotCut`: `Spec => []ReportNotCut`;
* `ServedRunsSucceed`: `Spec => []ServedRunSucceeds`.

The invariant says that while both processes run no connection is closed or reset by
either end, and no thread ends (`IntactInv`), so that no worker meets a SIGPIPE before
the client is gone, and that a client that ends before the server was killed, never
connected or found no more sockets (`EarlyEndInv`); that
connections and threads are there for the jobs before the current one (`JobsInv`), what
a worker holds (`WorkersInv`), and where `run_` stands (`RunInv`).

`ProcessProofs` proves, for any finite set of commands and any number of calls,
SIGTERMs and alarms (`ProcessAssumption`):

* `TypeCorrect`: `Spec => []TypeOK`, and with it that no child is listed twice;
* `NoChildSpared`, `BlocksAlwaysKill`, `ChecksAreTrue`, `StashAlwaysSettled`: the four
  safety invariants of the run.

None of them is inductive. `IInv` adds what is known at each point of an operation
(`PcInv`), that an exception being unwound calls nothing but `__exit__` (`UnwindInv`),
that a process running unlisted was cut off or is about to be listed (`ListedInv`),
that the handlers under way have terminated what they have visited (`SweepInv`,
`SweptInv`), that a return code is the status unless that was lost (`CodeInv`), and
that settled commands were reaped (`SettledInv`). The point of the argument is that
`_child_processes` cannot grow under a handler, since the script stands still while
one runs, so that a handler at the end of the list has visited every child; and that
nothing is started while its exception unwinds the script. `KeepsRegister`,
`KeepsSweepNext`, `KeepsSweepEnd` and `KeepsAlarm` are the steps where sequences or
several parts of the invariant meet; the other actions change one process or none.

`TimerProofs` proves, for any set of positive timeouts, any number and nesting of
timers and any number of setbacks of the clock (`TimerAssumption`):

* `TypeCorrect`: `Spec => []TypeOK`, with no time longer than some timeout;
* `NoStrayAlarm`: `Spec => []AlarmHasBlock`;
* `ResumesWithRest`: `Spec => []ResumedWithRest`;
* `TimeoutsHaveCause`: `Spec => TimeoutHasCause`.

The invariant has to say what each block has noted of the one around it (`Noted`):
the handler in place when it started, which is that of the enclosing block or of a
later one that was cut short, and an alarm only where there is a handler; if the
handler is the enclosing block's, the alarm is the rest of that block's time, and in
any case unless some enclosing block has already used up its time (`Overdue`).
`HandlerInv`, `AlarmInv`, `RestInv` and `CauseInv` say the same of what is in place now.
It rests on three facts: identities grow towards the inside, so that a handler that
is not the last block's is a later one's; the enclosing blocks stay in their bodies
with the time they had, since only the block that owns the alarm uses up time; and an
alarm cuts a block short only when it or an enclosing one is overdue, so that the
stray alarm of a block that was cut short between its two calls has a cause. The
steps fall into three kinds, each with a lemma for the part of the invariant that is
about sequences: steps of the last block (`TopKeeps`), leaving it (`PopKeeps`), and
those that leave the blocks alone (`SameStack`); `KeepsStart` and `KeepsTick` are the
others. `TypeOK` is inductive by itself: `setitimer` is given a timeout, or back what
it has returned, and a tick takes one from what is not yet 0.

`TestRunProofs` proves, for any number of tests and iterations, any options and
timeouts, and any number of SIGTERMs and KeyboardInterrupts, caught by tests or not
(`TestRunAssumption`):

* `TypeCorrect`: `Spec => []TypeOK`;
* `OneVerdict`: `Spec => []OneVerdictEach`;
* `GreenIsGreen`: `Spec => []GreenMeansPassed`;
* `TerminatedIsNotGreen`: `Spec => []TerminatedNotGreen`;
* `LostOutputIsNotGreen`: `Spec => []LostOutputNotGreen`.

`VerdictInv` says that the three sets of verdicts are disjoint, that between two
tests every chosen test passed so far has one, and that a test under way is the only
chosen one up to there without. `TermInv` says that the exception of a SIGTERM which no
test has caught is still on its way out of the test or has failed one, unless a
KeyboardInterrupt has replaced it.
`OutputInv` follows the runner's standard output: it goes to the terminal, or to the
file of a test that has failed or is about to, because redirecting is undone
by everything but an exception that comes between its steps, and that one fails the
test. There is a lemma for each action; most disturb one of the parts only.

`PlanoCommandProofs` proves, for any commands, parents, options and number of calls
(`CommandAssumption`):

* `TypeCorrect`: `Spec => []TypeOK`;
* `GreenIsComplete`: `Spec => []GreenMeansAll`;
* `NestingIsShown`: `Spec => []NestingShown`.

To conclude from exit status 0 that all commands of the line have run, the invariant
says that the commands started are a prefix of the sequence (`StartedInv`), and that
the place in the sequence is one beyond the commands that have returned, all that
were started but the one being executed, as long as no exception leaves the
outermost command (`PositionInv`). `CallFacts` and `LeaveFacts` say what entering and
leaving a command do to these counts, and the lemmas of the actions use them.

`NestingShown` is inductive with the type invariant; the work is in `Called`, the
commands among the functions on the stack, which is a recursive function.
`CalledFacts` shows that it is what its definition says, `CalledPrefix` that it
depends on no function further in, and from these `CalledPush` and `CalledPop` say
what one function more or less does to it; `PushNesting`, `PopNesting` and
`ParentNesting` compare that with `append` and `pop` of `running_commands`.

`ScopesProofs` proves, for any finite set of variables, any directories and levels, any
depth of nesting and any number of changes and strikes (`ScopesAssumption`):

* `TypeCorrect`: `Spec => []TypeOK`;
* `FailuresAreCaused`: `Spec => []FailuresHaveCause`;
* `Refinement`: `Spec => ImplementsScoped`, that is `Abstract!Spec`.

A block's steps are a list of any length (`working_env` has one for each variable), and
`Worlds`, what they lead to, is a recursive function. The library's induction theorems
take an operator as parameter and cannot be used, so `Ascend` states induction up to N
of a *set* of numbers, proved from the well-foundedness of `<`; `WorldsExist` uses it to
show that `Worlds` is what its definition says, and the lemmas after it what no step
touches (`Untouched`, `PathUntouched`, `NoneLost`) and what the steps about a setting
leave (`Given`). Every way into a block is then shown to be of one form (`Entering`):
`EnterOK` says that `__enter__` touches only the settings saved, that `__exit__` sets
each of them to what was saved, and which steps of either can fail. The invariant
adds to this form of each block (`ScopesInv`):

* `CwdInv`: the current directory and those to go back to exist, and a temporary one is
  current only inside its own block, unless a call was struck, or the body has removed a
  directory or entered a temporary one;
* `EnvInv`: a variable that a block deletes on its way out will be set then, because the
  first block inside it that restores the variable found it set, or it is set now;
* `ColorInv`: a color that is on is reset by some block.

These make `chdir` and `del` of `__exit__` possible unless something is to blame
(`AfterHalfLeave`), and so give `FailuresHaveCause`; the refinement needs the form of
the blocks only: `Restores` says that steps which are all made give back what was saved,
so that no setting is upset without a failure.

`FilesProofs` proves, for any words and names, any trees with links, any paths to call
the operations with and any depth (`FilesAssumption`):

* `TypeCorrect`: `Spec => []TypeOK`;
* `TextIsAsked`: `Spec => []TextAsAsked`;
* `CopiesAreFaithful`: `Spec => [](Unlinked => CopyFaithful)`;
* `LosesNothing`: `NothingElseLost`, with what it lets `rename_archive` lose, always holds
  of that and of all operations that do not copy, and of `copy` and `move` if `Unlinked`.

`Unlinked` is about the call: that links are copied as links (`symlinks=True`, as `move`
always does), and that in the tree there is no link at or below the place of the destination. Everywhere else, on the way to the destination and
in the source too, there may be links.

Where a path leads is a recursive function of the number of its names (`Walk`), and so
is what a directory lists. `Ascend` is induction on sets of numbers again, and
`Recursion` shows with it that a function with a given first value and step exists; the
lemmas on paths rest on these two: every path leads to a path that is no link, what it
leads to depends only on the links of the tree, and the directories that `makedirs`
makes are missing ones below an existing one.

`TypeOK` says that every entry is in a directory. `write` and `concatenate` put a
file where the path leads *now*, which only keeps this if a file is there already; the
code relies on having just opened it. So the invariant `IInv` adds `AgendaOK`: on the
agenda a step that writes follows one that opens or writes the same path, when it is next
the path leads to a file, and the temporary file of `rename_archive` is made by the first
step of all.

`TextInv` follows an operation on text through its steps: as long as it has changed
nothing, the steps to come lead to what is asked (`Planned`); once the file is open, no
other file has changed, no link has, and the text so far with the steps to come makes what
is asked (`OnTheWay`, `Completes`). Links matter here, because the file is found anew in
each step: directories made by `makedirs` must not change where its path leads
(`SameLinks`). A step that fails leaves what `TextAsAsked` says of an operation that did
not return, also half-way through a write.

`LosesNothing` follows for the operations on text from `TextInv`. For `remove`,
`make_link` and `await_exists` the invariant `EntryInv` says that every file is as it was,
but those at or below the path and the one it leads to (`Safe`), and that no link has
changed as long as a step is to come that finds the path again (`Before`): `make_link` makes
directories, then removes what is at the path, then makes the link, which overwrites
nothing.

For `copy` and `move` the invariant is `CopyInv`. The agenda is a list of work that ends
with the removal of the source, if it is a move (`Finale`), and `Copying` says of the rest:

* `Kept`: outside the destination everything is as it was, but for new directories;
* every step is `Good`: it copies to the same path below the destination as it copies
  from below the source, there is no link on the way to that path or below it (`Plain`),
  and it touches the path that a file goes to only to put that file there, or a
  directory above it (`Clear`);
* no two steps that write are at paths of which one is below the other (`Apart`), so that
  a link made by one is never on the way of the next: the links of the source are copied
  while directories are still being copied;
* every file seen at or below the source has been copied (`Done`) or is at or below the
  path of a `copy`, `entries` or `file` step (`Pending`).

When a directory is listed its one step becomes a step for each entry, and `DirGoes`
shows that this keeps all of it, because names are listed once and everything pending
is below one of them. `FileGoes`, `LinkGoes`, `RemoveGoes` and `SymlinkGoes` are the
other cases. When no step is left everything is `Done`; then `move` removes the source,
in which none of the copies is, unless it is an `Overlap` (`Removing`), and `Found` says
that the copies are still where the destination leads. `LosslessEnough` and
`FinishedFaithful` show that this is what the two properties ask for.

Not `Found` means that the path of the destination leads through the source, by a link
that the move would remove: the copies would be out of reach at their own path. Such a move
never returns (`LoopInv`). By `LoopIf`, which compares the two trees name by name, there are
two cases. Either an entry on the way leads nowhere (`Broken`): then the parent of the
destination is not made, nothing can be opened or linked there, and every step that gets
as far as the destination fails (`Stuck`). Or the destination is below what a path in the
source leads to (`Loop`): what is made at the destination is seen in the source, as a new
entry to copy. Then there is always a step that copies the next name of a round which
never ends (`Circles`), because making its destination makes the entry of the source that
comes after it (`LoopFacts`), until the path is longer than `MaxDepth` and the step fails.

For `rename_archive`, which is a move of one file from a place of its own, to a destination
that may be a link, `ArchiveInv` goes through the stages of `Stage`: the first entry packed
under the temporary name, copied to the new one, the temporary file removed, and the
old one removed; in each the archive, or one with its first entry under some name
(`Shrunk`), is somewhere (`Left`).

Only model-checked:

* `CopyFaithful` and `NothingElseLost` of copies and moves to a destination at or below
  which there is a link when they are called, and of copies with `symlinks=False`. A copy onto links may write anywhere, also to what
  it has yet to read, and which of its steps meet each other depends on where all the
  links lead; `Plain` and `Apart` are what replaces this without links.
* What the violation runs refute.
* All liveness: TLAPS cannot prove liveness under fairness here, nor what `ENABLED` means.

## 6. Not modelled

The text of report lines and the register values; `gdb` in `run_`, `build`,
`inject` and `clean`; contents of buffers; `accept` and `setsockopt` failing;
loading of command modules and parsing of arguments; matching in `expect_*`;
`boneyard.c` (commented-out code); plano's own tests, packaging and launchers;
string, JSON, YAML and HTTP functions, which keep no state or hand over to libraries
and programs; `find`, and archives except for `rename_archive`, and what is in the entries of
an archive, which fails to be renamed if `copy` fails on it; the socket that
`await_port` and `get_random_port` ask about, and the time that polling takes;
other processes that change files during an operation, except the one `await_exists` waits for;
permissions and modes; `rmtree` failing silently in `Scopes` (`Files` has it).

## 7. Plan

Everything of sections 2 to 5 is done. What could follow: `CopiesAreFaithful` and
`LosesNothing` for a copy with `symlinks=False` or onto links, for which the invariant would have to say where each
of them leads.
