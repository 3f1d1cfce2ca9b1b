------------------------------- MODULE TestRun -------------------------------
(***************************************************************************)
(* plano's test runner: PlanoTestCommand.run, run_tests and _run_test of   *)
(* test.py, down to the exit status of the command.  A test body is any    *)
(* function: it returns, fails, calls skip_test, exits, raises             *)
(* KeyboardInterrupt, or hangs.  The alarm of the test's Timer (module     *)
(* Timer), SIGINT and SIGTERM can come at any step, and Python raises them *)
(* as exceptions where they find it; a test body may catch them.           *)
(***************************************************************************)
EXTENDS Integers, FiniteSets

CONSTANTS
  Count,           \* tests in the modules, numbered in the order they run
  Disabled,        \* the tests declared with disabled=True
  OwnTimeout,      \* the timeouts of the tests declared with one
  Options,         \* the command lines considered, see OptionType
  Iterations,      \* --iterations
  MaxSignals       \* bound: SIGINTs, SIGTERMs, and KeyboardInterrupts of tests

Tests == 1..Count

\* Patterns stand for the tests they match.
OptionType ==
  [include : SUBSET Tests, exclude : SUBSET Tests, enable : SUBSET Tests,
   unskip : SUBSET Tests, timeout : Nat, fail_fast : BOOLEAN,
   mode : {"normal", "quiet", "verbose"}]

ASSUME TestRunAssumption ==
  /\ Count \in Nat
  /\ Disabled \subseteq Tests
  /\ DOMAIN OwnTimeout \subseteq Tests
  /\ Options \subseteq OptionType
  /\ Iterations \in Nat \ {0}
  /\ MaxSignals \in Nat

VARIABLES
  options,         \* the parsed command line
  pc,              \* the step of run_tests or _run_test to execute
  test,            \* the test considered, Count + 1 after the last one
  exc,             \* the exception that is unwinding _run_test
  iteration,
  run,             \* the TestRun object: four lists of tests
  armed,           \* the test's alarm is armed
  late,            \* history: the test has caught its PlanoTimeout
  stdout,          \* the file sys.stdout writes to: a test's, or Terminal
  saved,           \* output_redirected.prev_stdout
  status,          \* the exit status
  interrupts,      \* KeyboardInterrupts, of SIGINTs or of tests, that no test caught
  terms,           \* SIGTERMs whose SystemExit no test caught
  caught           \* SIGINTs and SIGTERMs whose exception a test caught

vars == <<options, pc, test, exc, iteration, run, armed, late, stdout, saved,
          status, interrupts, terms, caught>>
signals == <<interrupts, terms, caught>>

Terminal == 0
SigtermStatus == 256 - 15

NewRun == [tests |-> {}, skipped |-> {}, failed |-> {}, passed |-> {}]

Init ==
  /\ options \in Options
  /\ pc = "select"
  /\ test = 1
  /\ exc = "none"
  /\ iteration = 1
  /\ run = NewRun
  /\ armed = FALSE /\ late = FALSE
  /\ stdout = Terminal
  /\ saved = Terminal
  /\ status = 0
  /\ interrupts = 0 /\ terms = 0 /\ caught = 0

Exit(n) == pc' = "exited" /\ status' = n

-----------------------------------------------------------------------------
(* run_tests                                                               *)

Chosen(t) ==
  /\ t \in Disabled => t \in options.enable
  /\ t \in options.include \ options.exclude

Select ==
  /\ pc = "select"
  /\ test <= Count
  /\ \/ /\ Chosen(test)
        /\ run' = [run EXCEPT !.tests = @ \cup {test}]
        /\ pc' = "arm"
        /\ UNCHANGED test
     \/ /\ ~Chosen(test)
        /\ test' = test + 1
        /\ UNCHANGED <<run, pc>>
  /\ UNCHANGED <<options, exc, iteration, armed, late, stdout, saved, status,
                 signals>>

\* The end of an iteration: an error if no test was chosen or one failed, which
\* ends the iterations too.  Mutant: the failures are not turned into an error.
ReportOnly == run.tests = {}
IterationFails == run.tests = {} \/ run.failed # {}

Summary ==
  /\ pc = "select"
  /\ test > Count
  /\ \/ IterationFails /\ Exit(1) /\ UNCHANGED <<iteration, run, test>>
     \/ /\ ~IterationFails /\ iteration = Iterations
        /\ Exit(0) /\ UNCHANGED <<iteration, run, test>>
     \/ /\ ~IterationFails /\ iteration < Iterations
        /\ iteration' = iteration + 1
        /\ run' = NewRun
        /\ test' = 1
        /\ UNCHANGED <<pc, status>>
  /\ UNCHANGED <<options, exc, armed, late, stdout, saved, signals>>

-----------------------------------------------------------------------------
(* _run_test                                                               *)

Redirects == options.mode # "verbose"

\* The test's own timeout before that of the command line; setitimer takes a timeout
\* of 0 for none.  Mutant: no timeout is passed on.
Timeout(t) == IF t \in DOMAIN OwnTimeout THEN OwnTimeout[t] ELSE options.timeout
NoTimeout == FALSE
HasTimeout == Timeout(test) # 0

\* Timer.start arms the alarm; "armed" is what is left of it after setitimer.
Arm ==
  /\ pc = "arm"
  /\ armed' = HasTimeout
  /\ late' = FALSE
  /\ pc' = "armed"
  /\ UNCHANGED <<options, test, exc, iteration, run, stdout, saved, status,
                 signals>>

Armed ==
  /\ pc = "armed"
  /\ pc' = IF Redirects THEN "redirect" ELSE "body"
  /\ UNCHANGED <<options, test, exc, iteration, run, armed, late, stdout, saved,
                 status, signals>>

\* output_redirected.__enter__
Redirect ==
  /\ pc = "redirect"
  /\ saved' = stdout
  /\ stdout' = test
  /\ pc' = "body"
  /\ UNCHANGED <<options, test, exc, iteration, run, armed, late, status,
                 signals>>

AfterBody == IF Redirects THEN "unredirect" ELSE "disarm"

\* skip_test raises nothing in a test that is unskipped.
Outcomes ==
  {"none", "error"} \cup (IF test \in options.unskip THEN {} ELSE {"skipped"})

MoreSignals == interrupts + terms + caught < MaxSignals

\* The test function ends.  Test.__call__ turns SystemExit into PlanoError, and lets
\* the test's own KeyboardInterrupt pass.
EndBody ==
  /\ pc = "body"
  /\ \/ exc' \in Outcomes /\ UNCHANGED interrupts
     \/ MoreSignals /\ exc' = "interrupt" /\ interrupts' = interrupts + 1
  /\ pc' = AfterBody
  /\ UNCHANGED <<options, test, iteration, run, armed, late, stdout, saved, status,
                 terms, caught>>

\* output_redirected.__exit__.  Mutant: only when the body did not raise.
RestoreUnlessRaised == IF exc = "none" THEN saved ELSE stdout
PreviousStdout == saved

Unredirect ==
  /\ pc = "unredirect"
  /\ stdout' = PreviousStdout
  /\ pc' = "disarm"
  /\ UNCHANGED <<options, test, exc, iteration, run, armed, late, saved, status,
                 signals>>

\* Timer.stop
Disarm ==
  /\ pc = "disarm"
  /\ armed' = FALSE
  /\ pc' = "record"
  /\ UNCHANGED <<options, test, exc, iteration, run, late, stdout, saved, status,
                 signals>>

\* The verdict that the except and else clauses give.  Mutant: a failure is
\* entered in no list.
ForgetFailure(e) ==
  CASE e = "skipped" -> [run EXCEPT !.skipped = @ \cup {test}]
    [] e = "none" -> [run EXCEPT !.passed = @ \cup {test}]
    [] OTHER -> run
Verdict(e) ==
  CASE e \in {"error", "timeout", "early_timeout"} ->
         [run EXCEPT !.failed = @ \cup {test}]
    [] e = "skipped" -> [run EXCEPT !.skipped = @ \cup {test}]
    [] e = "none" -> [run EXCEPT !.passed = @ \cup {test}]

\* KeyboardInterrupt and SystemExit pass through; BaseCommand.main swallows the
\* first, so that the command exits with 0.  Mutants: it swallows both; the
\* status is not cut to 8 bits.
AlwaysQuiet(e) == 0
FullStatus(e) == IF e = "interrupt" THEN 0 ELSE -15
StatusAfter(e) == IF e = "interrupt" THEN 0 ELSE SigtermStatus

\* The except and else clauses.  With fail_fast _run_test returns True after a
\* failure, and run_tests ignores what it returns.  A timeout raised inside
\* Timer.start leaves the variable `timer` unbound, which the clause that prints
\* the failure reads: an error that ends the command.
Record ==
  /\ pc = "record"
  /\ \/ /\ exc \in {"interrupt", "sysexit"}
        /\ Exit(StatusAfter(exc))
        /\ UNCHANGED <<run, test, exc>>
     \/ /\ exc \notin {"interrupt", "sysexit"}
        /\ run' = Verdict(exc)
        /\ IF exc = "early_timeout" /\ options.mode # "quiet"
           THEN Exit(1) /\ UNCHANGED <<test, exc>>
           ELSE /\ pc' = "select" /\ test' = test + 1 /\ exc' = "none"
                /\ UNCHANGED status
  /\ UNCHANGED <<options, iteration, armed, late, stdout, saved, signals>>

-----------------------------------------------------------------------------
(* Signals                                                                 *)

\* The exception e is raised at the step to be executed next, which it cuts
\* short: an unredirect or disarm that is cut short restores nothing.
RaiseInRunTest(e) ==
  /\ exc' = CASE e = "sysexit" /\ pc = "body" -> "error"
              [] e = "timeout" /\ pc = "armed" -> "early_timeout"
              [] OTHER -> e
  /\ pc' = CASE pc \in {"arm", "armed", "disarm"} -> "record"
             [] pc \in {"redirect", "unredirect"} -> "disarm"
             [] pc = "body" -> AfterBody
  /\ UNCHANGED status

\* A test body may catch the exception, as with expect_timeout or
\* expect_system_exit, and go on.
CatchInBody == pc = "body" /\ UNCHANGED <<pc, exc, status>>

\* SIGALRM while the handler of the test's Timer is installed.
Alarm ==
  /\ armed
  /\ pc \in {"armed", "redirect", "body", "unredirect", "disarm"}
  /\ armed' = FALSE
  /\ \/ RaiseInRunTest("timeout") /\ UNCHANGED late
     \/ CatchInBody /\ late' = TRUE
  /\ UNCHANGED <<options, test, iteration, run, stdout, saved, signals>>

Signal ==
  /\ pc # "exited"
  /\ MoreSignals
  /\ UNCHANGED <<options, test, iteration, run, armed, late, stdout, saved>>

\* SIGINT raises KeyboardInterrupt, SIGTERM's handler SystemExit; outside the
\* try statement of _run_test either ends the command.
Raise(e) ==
  \/ pc \in {"select", "record"} /\ Exit(StatusAfter(e)) /\ UNCHANGED exc
  \/ pc \notin {"select", "record"} /\ RaiseInRunTest(e)

Sigint ==
  /\ Signal
  /\ Raise("interrupt")
  /\ interrupts' = interrupts + 1
  /\ UNCHANGED <<terms, caught>>

Sigterm ==
  /\ Signal
  /\ Raise("sysexit")
  /\ terms' = terms + 1
  /\ UNCHANGED <<interrupts, caught>>

CatchSignal ==
  /\ Signal
  /\ CatchInBody
  /\ caught' = caught + 1
  /\ UNCHANGED <<interrupts, terms>>

Exited ==
  /\ pc = "exited"
  /\ UNCHANGED vars

-----------------------------------------------------------------------------
RunnerStep ==
  \/ Select
  \/ Summary
  \/ Arm
  \/ Armed
  \/ Redirect
  \/ Unredirect
  \/ Disarm
  \/ Record

Next ==
  \/ RunnerStep
  \/ EndBody
  \/ Alarm
  \/ Sigint
  \/ Sigterm
  \/ CatchSignal
  \/ Exited

Spec == Init /\ [][Next]_vars

\* The interpreter executes the runner and the kernel sends the alarm; test
\* functions need not end.
FairSpec == Spec /\ WF_vars(RunnerStep) /\ WF_vars(Alarm)

-----------------------------------------------------------------------------
(* Properties                                                              *)

TypeOK ==
  /\ options \in Options
  /\ pc \in {"select", "arm", "armed", "redirect", "body", "unredirect",
             "disarm", "record", "exited"}
  /\ test \in 1..Count + 1
  /\ exc \in {"none", "error", "skipped", "timeout", "early_timeout",
              "interrupt", "sysexit"}
  /\ iteration \in 1..Iterations
  /\ run \in [tests : SUBSET Tests, skipped : SUBSET Tests,
              failed : SUBSET Tests, passed : SUBSET Tests]
  /\ armed \in BOOLEAN /\ late \in BOOLEAN
  /\ {stdout, saved} \subseteq Tests \cup {Terminal}
  /\ status \in {0, 1, SigtermStatus}
  /\ interrupts \in 0..MaxSignals
  /\ terms \in 0..MaxSignals
  /\ caught \in 0..MaxSignals

\* Whenever the runner is between two tests, every test it has started is in
\* exactly one of the lists passed, skipped and failed, whatever combination of
\* body outcome, timeout and signal ended each of them.
OneVerdictEach ==
  LET verdicts == <<run.passed, run.skipped, run.failed>>
  IN /\ \A m, n \in DOMAIN verdicts :
          m # n => verdicts[m] \cap verdicts[n] = {}
     /\ pc = "select" => UNION {verdicts[n] : n \in DOMAIN verdicts} = run.tests

\* A green exit means that every iteration was run and every test chosen by the
\* options passed or skipped itself in the last one, whatever the tests caught;
\* except after a KeyboardInterrupt that was not caught, of a SIGINT or of a test
\* itself, which ends the run with status 0 (test.py:317-318, command.py:61-63).
GreenMeansPassed ==
  pc = "exited" /\ status = 0 /\ interrupts = 0 =>
    /\ iteration = Iterations
    /\ run.tests = {t \in Tests : Chosen(t)}
    /\ run.tests # {}
    /\ run.passed \cup run.skipped = run.tests
    /\ run.failed = {}

\* A SIGTERM does not leave a run green, although one that finds a test body only
\* fails that test and lets the run go on (test.py:114-116): unless the body catches
\* the SystemExit itself, or a KeyboardInterrupt ends the run later.
TerminatedNotGreen ==
  pc = "exited" /\ terms > 0 /\ interrupts = 0 => status # 0

\* The runner's own output ends up in a test's temporary file only when that
\* test has failed, so that a run whose summary is lost cannot be green.
LostOutputNotGreen ==
  pc = "select" /\ stdout # Terminal => stdout \in run.failed

\* The command ends, or stays in one test, whose timeout is 0 or which has caught
\* its PlanoTimeout: no other test hangs the run, wherever its alarm finds the runner
\* (test.py:307-316).
RunEnds ==
  \/ <>(pc = "exited")
  \/ <>[](pc = "body" /\ (Timeout(test) = 0 \/ late))

\* "Exit on the first failure encountered in a test run" (test.py:54-55): no
\* test is started after one that failed.
FailFastStops ==
  options.fail_fast => \A f \in run.failed : \A t \in run.tests : t <= f

=============================================================================
