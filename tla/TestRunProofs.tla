---------------------------- MODULE TestRunProofs ----------------------------
(***************************************************************************)
(* Proofs about the test runner, for any tests, any selection and options, *)
(* any number of iterations, and signals and alarms at any step: what a    *)
(* green exit means.                                                       *)
(***************************************************************************)
EXTENDS TestRun, TLAPS

Failures == {"error", "timeout", "early_timeout"}
Verdicts == run.passed \cup run.skipped \cup run.failed

\* A test is running, or about to be recorded.
InTest == pc \notin {"select", "exited"}

\* The tests begun are those chosen so far; the one that runs has no verdict yet.
VerdictInv ==
  /\ run.passed \cap run.skipped = {}
  /\ run.passed \cap run.failed = {}
  /\ run.skipped \cap run.failed = {}
  /\ pc = "select" =>
       /\ Verdicts = run.tests
       /\ run.tests = {t \in Tests : Chosen(t) /\ t < test}
  /\ InTest =>
       /\ test \in Tests
       /\ test \notin Verdicts
       /\ Verdicts \cup {test} = run.tests
       /\ run.tests = {t \in Tests : Chosen(t) /\ t <= test}

\* An exception is under way only after it was raised, and a green exit without a
\* KeyboardInterrupt came from the summary.
ExitInv ==
  /\ pc \in {"select", "arm", "armed", "redirect", "body"} => exc = "none"
  /\ exc = "interrupt" => interrupts > 0
  /\ GreenMeansPassed

\* A SIGTERM that no test has caught is on its way out of the test, or has failed one.
TermInv ==
  terms > 0 /\ interrupts = 0 =>
    IF pc = "exited" THEN status # 0
    ELSE run.failed # {} \/ exc \in Failures \cup {"sysexit"}

\* Where the runner's own output goes: a file other than the terminal is that of a
\* test that has failed, or of the one that is failing.
Sound(file) == file = Terminal \/ file \in run.failed

OutputInv ==
  /\ pc \in {"select", "arm", "armed", "redirect"} => Sound(stdout)
  /\ pc \in {"body", "unredirect"} =>
       IF Redirects THEN Sound(saved) /\ stdout = test ELSE Sound(stdout)
  /\ pc \in {"redirect", "unredirect"} => Redirects
  /\ pc \in {"disarm", "record"} =>
       \/ Sound(stdout)
       \/ stdout = test /\ exc \in Failures \cup {"interrupt", "sysexit"}

IInv ==
  /\ TypeOK
  /\ VerdictInv
  /\ ExitInv
  /\ TermInv
  /\ OutputInv

\* A chosen test is begun, another is passed over.
LEMMA KeepsSelect ==
  ASSUME IInv, Select
  PROVE  IInv'
<1>1. TypeOK /\ VerdictInv /\ ExitInv /\ TermInv /\ OutputInv
  BY DEF IInv
<1>2. TypeOK'
  BY <1>1, TestRunAssumption DEF TypeOK, VerdictInv, InTest, Tests, Terminal, Select, signals
<1>3. VerdictInv'
  BY <1>1, TestRunAssumption
  DEF VerdictInv, InTest, Verdicts, Chosen, Tests, TypeOK, Select, signals
<1>4. ExitInv'
  BY <1>1, TestRunAssumption
  DEF ExitInv, GreenMeansPassed, VerdictInv, Verdicts, Chosen, Tests, TypeOK,
      Select, signals
<1>5. TermInv'
  BY <1>1 DEF TermInv, Failures, ExitInv, TypeOK, Select, signals
<1>6. OutputInv'
  BY <1>1 DEF OutputInv, Sound, Failures, ExitInv, VerdictInv, InTest, TypeOK, Select, signals
<1> QED
  BY <1>2, <1>3, <1>4, <1>5, <1>6 DEF IInv

\* The next iteration begins, or the command exits.
LEMMA KeepsSummary ==
  ASSUME IInv, Summary
  PROVE  IInv'
<1>1. TypeOK /\ VerdictInv /\ ExitInv /\ TermInv /\ OutputInv
  BY DEF IInv
<1>2. TypeOK'
  BY <1>1, TestRunAssumption
  DEF TypeOK, VerdictInv, InTest, Tests, Terminal, Summary, IterationFails,
      Exit, NewRun, signals
<1>3. VerdictInv'
  BY <1>1, TestRunAssumption
  DEF VerdictInv, InTest, Verdicts, Chosen, Tests, TypeOK, Summary,
      IterationFails, Exit, NewRun, signals
<1>4. ExitInv'
  BY <1>1, TestRunAssumption
  DEF ExitInv, GreenMeansPassed, VerdictInv, Verdicts, Chosen, Tests, TypeOK,
      Summary, IterationFails, Exit, NewRun, signals
<1>5. TermInv'
  BY <1>1
  DEF TermInv, Failures, ExitInv, TypeOK, Summary, IterationFails, Exit, NewRun, signals
<1>6. OutputInv'
  BY <1>1
  DEF OutputInv, Sound, Failures, ExitInv, VerdictInv, InTest, TypeOK, Summary,
      IterationFails, Exit, NewRun, signals
<1> QED
  BY <1>2, <1>3, <1>4, <1>5, <1>6 DEF IInv

\* The Timer is started.
LEMMA KeepsArm ==
  ASSUME IInv, Arm
  PROVE  IInv'
<1>1. TypeOK /\ VerdictInv /\ ExitInv /\ TermInv /\ OutputInv
  BY DEF IInv
<1>2. TypeOK'
  BY <1>1, TestRunAssumption
  DEF TypeOK, VerdictInv, InTest, Tests, Terminal, Arm, HasTimeout, signals
<1>3. VerdictInv'
  BY <1>1, TestRunAssumption
  DEF VerdictInv, InTest, Verdicts, Chosen, Tests, TypeOK, Arm, HasTimeout, signals
<1>4. ExitInv'
  BY <1>1, TestRunAssumption
  DEF ExitInv, GreenMeansPassed, VerdictInv, Verdicts, Chosen, Tests, TypeOK,
      Arm, HasTimeout, signals
<1>5. TermInv'
  BY <1>1 DEF TermInv, Failures, ExitInv, TypeOK, Arm, HasTimeout, signals
<1>6. OutputInv'
  BY <1>1
  DEF OutputInv, Sound, Failures, ExitInv, VerdictInv, InTest, TypeOK, Arm,
      HasTimeout, signals
<1> QED
  BY <1>2, <1>3, <1>4, <1>5, <1>6 DEF IInv

\* The Timer's start() returns.
LEMMA KeepsArmed ==
  ASSUME IInv, Armed
  PROVE  IInv'
<1>1. TypeOK /\ VerdictInv /\ ExitInv /\ TermInv /\ OutputInv
  BY DEF IInv
<1>2. TypeOK'
  BY <1>1, TestRunAssumption
  DEF TypeOK, VerdictInv, InTest, Tests, Terminal, Armed, Redirects, signals
<1>3. VerdictInv'
  BY <1>1, TestRunAssumption
  DEF VerdictInv, InTest, Verdicts, Chosen, Tests, TypeOK, Armed, Redirects, signals
<1>4. ExitInv'
  BY <1>1, TestRunAssumption
  DEF ExitInv, GreenMeansPassed, VerdictInv, Verdicts, Chosen, Tests, TypeOK,
      Armed, Redirects, signals
<1>5. TermInv'
  BY <1>1 DEF TermInv, Failures, ExitInv, TypeOK, Armed, Redirects, signals
<1>6. OutputInv'
  BY <1>1
  DEF OutputInv, Sound, Failures, ExitInv, VerdictInv, InTest, TypeOK, Armed,
      Redirects, signals
<1> QED
  BY <1>2, <1>3, <1>4, <1>5, <1>6 DEF IInv

\* The body writes to the test's own file from here on.
LEMMA KeepsRedirect ==
  ASSUME IInv, Redirect
  PROVE  IInv'
<1>1. TypeOK /\ VerdictInv /\ ExitInv /\ TermInv /\ OutputInv
  BY DEF IInv
<1>2. TypeOK'
  BY <1>1, TestRunAssumption
  DEF TypeOK, VerdictInv, InTest, Tests, Terminal, Redirect, Redirects, signals
<1>3. VerdictInv'
  BY <1>1, TestRunAssumption
  DEF VerdictInv, InTest, Verdicts, Chosen, Tests, TypeOK, Redirect, Redirects, signals
<1>4. ExitInv'
  BY <1>1, TestRunAssumption
  DEF ExitInv, GreenMeansPassed, VerdictInv, Verdicts, Chosen, Tests, TypeOK,
      Redirect, Redirects, signals
<1>5. TermInv'
  BY <1>1 DEF TermInv, Failures, ExitInv, TypeOK, Redirect, Redirects, signals
<1>6. OutputInv'
  BY <1>1
  DEF OutputInv, Sound, Failures, ExitInv, VerdictInv, InTest, TypeOK, Redirect,
      Redirects, signals
<1> QED
  BY <1>2, <1>3, <1>4, <1>5, <1>6 DEF IInv

\* The test function ends.
LEMMA KeepsEndBody ==
  ASSUME IInv, EndBody
  PROVE  IInv'
<1>1. TypeOK /\ VerdictInv /\ ExitInv /\ TermInv /\ OutputInv
  BY DEF IInv
<1>2. TypeOK'
  BY <1>1, TestRunAssumption
  DEF TypeOK, VerdictInv, InTest, Tests, Terminal, EndBody, Outcomes, AfterBody,
      Redirects, MoreSignals
<1>3. VerdictInv'
  BY <1>1, TestRunAssumption
  DEF VerdictInv, InTest, Verdicts, Chosen, Tests, TypeOK, EndBody, Outcomes,
      AfterBody, Redirects, MoreSignals
<1>4. ExitInv'
  BY <1>1, TestRunAssumption
  DEF ExitInv, GreenMeansPassed, VerdictInv, Verdicts, Chosen, Tests, TypeOK,
      EndBody, Outcomes, AfterBody, Redirects, MoreSignals
<1>5. TermInv'
  BY <1>1
  DEF TermInv, Failures, ExitInv, TypeOK, EndBody, Outcomes, AfterBody,
      Redirects, MoreSignals
<1>6. OutputInv'
  BY <1>1
  DEF OutputInv, Sound, Failures, ExitInv, VerdictInv, InTest, TypeOK, EndBody,
      Outcomes, AfterBody, Redirects, MoreSignals
<1> QED
  BY <1>2, <1>3, <1>4, <1>5, <1>6 DEF IInv

\* sys.stdout is put back.
LEMMA KeepsUnredirect ==
  ASSUME IInv, Unredirect
  PROVE  IInv'
<1>1. TypeOK /\ VerdictInv /\ ExitInv /\ TermInv /\ OutputInv
  BY DEF IInv
<1>2. TypeOK'
  BY <1>1, TestRunAssumption
  DEF TypeOK, VerdictInv, InTest, Tests, Terminal, Unredirect, PreviousStdout,
      Redirects, signals
<1>3. VerdictInv'
  BY <1>1, TestRunAssumption
  DEF VerdictInv, InTest, Verdicts, Chosen, Tests, TypeOK, Unredirect,
      PreviousStdout, Redirects, signals
<1>4. ExitInv'
  BY <1>1, TestRunAssumption
  DEF ExitInv, GreenMeansPassed, VerdictInv, Verdicts, Chosen, Tests, TypeOK,
      Unredirect, PreviousStdout, Redirects, signals
<1>5. TermInv'
  BY <1>1
  DEF TermInv, Failures, ExitInv, TypeOK, Unredirect, PreviousStdout, Redirects, signals
<1>6. OutputInv'
  BY <1>1
  DEF OutputInv, Sound, Failures, ExitInv, VerdictInv, InTest, TypeOK,
      Unredirect, PreviousStdout, Redirects, signals
<1> QED
  BY <1>2, <1>3, <1>4, <1>5, <1>6 DEF IInv

\* The Timer's stop().
LEMMA KeepsDisarm ==
  ASSUME IInv, Disarm
  PROVE  IInv'
<1>1. TypeOK /\ VerdictInv /\ ExitInv /\ TermInv /\ OutputInv
  BY DEF IInv
<1>2. TypeOK'
  BY <1>1, TestRunAssumption DEF TypeOK, VerdictInv, InTest, Tests, Terminal, Disarm, signals
<1>3. VerdictInv'
  BY <1>1, TestRunAssumption
  DEF VerdictInv, InTest, Verdicts, Chosen, Tests, TypeOK, Disarm, signals
<1>4. ExitInv'
  BY <1>1, TestRunAssumption
  DEF ExitInv, GreenMeansPassed, VerdictInv, Verdicts, Chosen, Tests, TypeOK,
      Disarm, signals
<1>5. TermInv'
  BY <1>1 DEF TermInv, Failures, ExitInv, TypeOK, Disarm, signals
<1>6. OutputInv'
  BY <1>1 DEF OutputInv, Sound, Failures, ExitInv, VerdictInv, InTest, TypeOK, Disarm, signals
<1> QED
  BY <1>2, <1>3, <1>4, <1>5, <1>6 DEF IInv

\* The verdict, or the end of the command.
LEMMA KeepsRecord ==
  ASSUME IInv, Record
  PROVE  IInv'
<1>1. TypeOK /\ VerdictInv /\ ExitInv /\ TermInv /\ OutputInv
  BY DEF IInv
<1>2. TypeOK'
  BY <1>1, TestRunAssumption
  DEF TypeOK, VerdictInv, InTest, Tests, Terminal, Record, Verdict, StatusAfter,
      Exit, SigtermStatus, Redirects, signals
<1>3. VerdictInv'
  BY <1>1, TestRunAssumption
  DEF VerdictInv, InTest, Verdicts, Chosen, Tests, TypeOK, Record, Verdict,
      StatusAfter, Exit, SigtermStatus, Redirects, signals
<1>4. ExitInv'
  BY <1>1, TestRunAssumption
  DEF ExitInv, GreenMeansPassed, VerdictInv, Verdicts, Chosen, Tests, TypeOK,
      Record, Verdict, StatusAfter, Exit, SigtermStatus, Redirects, signals
<1>5. TermInv'
  BY <1>1
  DEF TermInv, Failures, ExitInv, TypeOK, Record, Verdict, StatusAfter, Exit,
      SigtermStatus, Redirects, signals
<1>6. OutputInv'
  BY <1>1
  DEF OutputInv, Sound, Failures, ExitInv, VerdictInv, InTest, TypeOK, Record,
      Verdict, StatusAfter, Exit, SigtermStatus, Redirects, signals
<1> QED
  BY <1>2, <1>3, <1>4, <1>5, <1>6 DEF IInv

\* An alarm replaces whatever exception is under way by one that fails the test.
LEMMA KeepsAlarm ==
  ASSUME IInv, Alarm
  PROVE  IInv'
<1>1. TypeOK /\ VerdictInv /\ ExitInv /\ TermInv /\ OutputInv
  BY DEF IInv
<1>2. TypeOK'
  BY <1>1, TestRunAssumption
  DEF TypeOK, VerdictInv, InTest, Tests, Terminal, Alarm, RaiseInRunTest,
      AfterBody, Redirects, signals, CatchInBody
<1>3. VerdictInv'
  BY <1>1, TestRunAssumption
  DEF VerdictInv, InTest, Verdicts, Chosen, Tests, TypeOK, Alarm,
      RaiseInRunTest, AfterBody, Redirects, signals, CatchInBody
<1>4. ExitInv'
  BY <1>1, TestRunAssumption
  DEF ExitInv, GreenMeansPassed, VerdictInv, Verdicts, Chosen, Tests, TypeOK,
      Alarm, RaiseInRunTest, AfterBody, Redirects, signals, CatchInBody
<1>5. TermInv'
  BY <1>1
  DEF TermInv, Failures, ExitInv, TypeOK, Alarm, RaiseInRunTest, AfterBody,
      Redirects, signals, CatchInBody
<1>6. OutputInv'
  BY <1>1
  DEF OutputInv, Sound, Failures, ExitInv, VerdictInv, InTest, TypeOK, Alarm,
      RaiseInRunTest, AfterBody, Redirects, signals, CatchInBody
<1> QED
  BY <1>2, <1>3, <1>4, <1>5, <1>6 DEF IInv

\* A signal ends the command, now or when the test has been left, but in a body
\* SIGTERM fails the test.
LEMMA KeepsSigint ==
  ASSUME IInv, Sigint
  PROVE  IInv'
<1>1. TypeOK /\ VerdictInv /\ ExitInv /\ TermInv /\ OutputInv
  BY DEF IInv
<1>2. TypeOK'
  BY <1>1, TestRunAssumption
  DEF TypeOK, VerdictInv, InTest, Tests, Terminal, Sigint, Signal,
      RaiseInRunTest, AfterBody, Exit, StatusAfter, SigtermStatus, Redirects,
      Raise, MoreSignals
<1>3. VerdictInv'
  BY <1>1, TestRunAssumption
  DEF VerdictInv, InTest, Verdicts, Chosen, Tests, TypeOK, Sigint, Signal,
      RaiseInRunTest, AfterBody, Exit, StatusAfter, SigtermStatus, Redirects,
      Raise, MoreSignals
<1>4. ExitInv'
  BY <1>1, TestRunAssumption
  DEF ExitInv, GreenMeansPassed, VerdictInv, Verdicts, Chosen, Tests, TypeOK,
      Sigint, Signal, RaiseInRunTest, AfterBody, Exit, StatusAfter,
      SigtermStatus, Redirects,
      Raise, MoreSignals
<1>5. TermInv'
  BY <1>1
  DEF TermInv, Failures, ExitInv, TypeOK, Sigint, Signal, RaiseInRunTest,
      AfterBody, Exit, StatusAfter, SigtermStatus, Redirects,
      Raise, MoreSignals
<1>6. OutputInv'
  BY <1>1
  DEF OutputInv, Sound, Failures, ExitInv, VerdictInv, InTest, TypeOK, Sigint,
      Signal, RaiseInRunTest, AfterBody, Exit, StatusAfter, SigtermStatus,
      Redirects, Raise, MoreSignals
<1> QED
  BY <1>2, <1>3, <1>4, <1>5, <1>6 DEF IInv

\* The same for SIGTERM.
LEMMA KeepsSigterm ==
  ASSUME IInv, Sigterm
  PROVE  IInv'
<1>1. TypeOK /\ VerdictInv /\ ExitInv /\ TermInv /\ OutputInv
  BY DEF IInv
<1>2. TypeOK'
  BY <1>1, TestRunAssumption
  DEF TypeOK, VerdictInv, InTest, Tests, Terminal, Sigterm, Signal,
      RaiseInRunTest, AfterBody, Exit, StatusAfter, SigtermStatus, Redirects,
      Raise, MoreSignals
<1>3. VerdictInv'
  BY <1>1, TestRunAssumption
  DEF VerdictInv, InTest, Verdicts, Chosen, Tests, TypeOK, Sigterm, Signal,
      RaiseInRunTest, AfterBody, Exit, StatusAfter, SigtermStatus, Redirects,
      Raise, MoreSignals
<1>4. ExitInv'
  BY <1>1, TestRunAssumption
  DEF ExitInv, GreenMeansPassed, VerdictInv, Verdicts, Chosen, Tests, TypeOK,
      Sigterm, Signal, RaiseInRunTest, AfterBody, Exit, StatusAfter,
      SigtermStatus, Redirects,
      Raise, MoreSignals
<1>5. TermInv'
  BY <1>1
  DEF TermInv, Failures, ExitInv, TypeOK, Sigterm, Signal, RaiseInRunTest,
      AfterBody, Exit, StatusAfter, SigtermStatus, Redirects,
      Raise, MoreSignals
<1>6. OutputInv'
  BY <1>1
  DEF OutputInv, Sound, Failures, ExitInv, VerdictInv, InTest, TypeOK, Sigterm,
      Signal, RaiseInRunTest, AfterBody, Exit, StatusAfter, SigtermStatus,
      Redirects, Raise, MoreSignals
<1> QED
  BY <1>2, <1>3, <1>4, <1>5, <1>6 DEF IInv

\* A signal whose exception the body catches changes nothing for the runner.
LEMMA KeepsCatchSignal ==
  ASSUME IInv, CatchSignal
  PROVE  IInv'
<1>1. TypeOK /\ VerdictInv /\ ExitInv /\ TermInv /\ OutputInv
  BY DEF IInv
<1>2. TypeOK'
  BY <1>1, TestRunAssumption DEF TypeOK, CatchSignal, Signal, CatchInBody, MoreSignals
<1>3. VerdictInv'
  BY <1>1 DEF VerdictInv, InTest, Verdicts, Chosen, CatchSignal, Signal, CatchInBody
<1>4. ExitInv' /\ TermInv'
  BY <1>1
  DEF ExitInv, GreenMeansPassed, TermInv, Chosen, CatchSignal, Signal, CatchInBody
<1>5. OutputInv'
  BY <1>1 DEF OutputInv, Sound, Redirects, CatchSignal, Signal, CatchInBody
<1> QED
  BY <1>2, <1>3, <1>4, <1>5 DEF IInv

-----------------------------------------------------------------------------
(* The theorems                                                            *)

\* Nothing has run yet.
LEMMA InitInv == Init => IInv
<1> SUFFICES ASSUME Init
             PROVE  IInv
  OBVIOUS
<1>1. TypeOK
  <2>1. run \in [tests : SUBSET Tests, skipped : SUBSET Tests,
                failed : SUBSET Tests, passed : SUBSET Tests]
    BY DEF Init, NewRun
  <2>2. test \in 1..Count + 1 /\ iteration \in 1..Iterations
    BY TestRunAssumption DEF Init
  <2>3. interrupts \in 0..MaxSignals /\ terms \in 0..MaxSignals /\ caught \in 0..MaxSignals
    BY TestRunAssumption DEF Init
  <2> QED
    BY <2>1, <2>2, <2>3 DEF Init, TypeOK, Terminal
<1>2. VerdictInv
  BY DEF Init, VerdictInv, Verdicts, NewRun, InTest, Tests
<1>3. ExitInv /\ TermInv
  BY DEF Init, ExitInv, TermInv, GreenMeansPassed
<1>4. OutputInv
  BY DEF Init, OutputInv, Sound
<1> QED
  BY <1>1, <1>2, <1>3, <1>4 DEF IInv

\* Every step of the runner, end of a test, alarm and signal keeps the invariant.
LEMMA NextInv == IInv /\ [Next]_vars => IInv'
<1> SUFFICES ASSUME IInv, [Next]_vars
             PROVE  IInv'
  OBVIOUS
<1>1. CASE Next /\ ~Exited
  BY <1>1, KeepsSelect, KeepsSummary, KeepsArm, KeepsArmed, KeepsRedirect, KeepsEndBody,
     KeepsUnredirect, KeepsDisarm, KeepsRecord, KeepsAlarm, KeepsSigint, KeepsSigterm,
     KeepsCatchSignal
  DEF Next, RunnerStep
<1>2. CASE UNCHANGED vars
  <2>1. TypeOK' /\ VerdictInv'
    BY <1>2 DEF IInv, TypeOK, VerdictInv, Verdicts, InTest, Chosen, vars
  <2>2. ExitInv' /\ TermInv'
    BY <1>2 DEF IInv, ExitInv, GreenMeansPassed, TermInv, Chosen, vars
  <2>3. OutputInv'
    BY <1>2 DEF IInv, OutputInv, Sound, Redirects, vars
  <2> QED
    BY <2>1, <2>2, <2>3 DEF IInv
<1> QED
  BY <1>1, <1>2 DEF Exited

\* The invariant holds always.
LEMMA Invariance == Spec => []IInv
BY InitInv, NextInv, PTL DEF Spec

\* The state of the runner keeps its type.
THEOREM TypeCorrect == Spec => []TypeOK
<1>1. IInv => TypeOK
  BY DEF IInv
<1> QED
  BY <1>1, Invariance, PTL

\* Between two tests every test begun has exactly one verdict.
THEOREM OneVerdict == Spec => []OneVerdictEach
<1>1. IInv => OneVerdictEach
  <2> SUFFICES ASSUME VerdictInv
               PROVE  OneVerdictEach
    BY DEF IInv
  <2> DEFINE verdicts == <<run.passed, run.skipped, run.failed>>
  <2>1. DOMAIN verdicts = 1..3
    OBVIOUS
  <2>2. verdicts[1] = run.passed /\ verdicts[2] = run.skipped /\ verdicts[3] = run.failed
    OBVIOUS
  <2> HIDE DEF verdicts
  <2>3. \A m, n \in 1..3 : m # n => verdicts[m] \cap verdicts[n] = {}
    <3> SUFFICES ASSUME NEW m \in 1..3, NEW n \in 1..3, m # n
                 PROVE  verdicts[m] \cap verdicts[n] = {}
      OBVIOUS
    <3>1. m \in {1, 2, 3} /\ n \in {1, 2, 3}
      OBVIOUS
    <3> QED
      BY <2>2, <3>1 DEF VerdictInv
  <2>4. UNION {verdicts[n] : n \in 1..3} = Verdicts
    <3>1. 1..3 = {1, 2, 3}
      OBVIOUS
    <3> QED
      BY <2>2, <3>1 DEF Verdicts
  <2> QED
    BY <2>1, <2>3, <2>4 DEF OneVerdictEach, VerdictInv, verdicts
<1> QED
  BY <1>1, Invariance, PTL

\* A green exit, if no KeyboardInterrupt of a signal or of a test ended the run,
\* means that the last iteration ran every test chosen, and that none of them failed.
THEOREM GreenIsGreen == Spec => []GreenMeansPassed
<1>1. IInv => GreenMeansPassed
  BY DEF IInv, ExitInv
<1> QED
  BY <1>1, Invariance, PTL

\* A run with a SIGTERM whose SystemExit no test caught is not green, if no
\* KeyboardInterrupt ended it later.
THEOREM TerminatedIsNotGreen == Spec => []TerminatedNotGreen
<1>1. IInv => TerminatedNotGreen
  BY DEF IInv, TermInv, TerminatedNotGreen
<1> QED
  BY <1>1, Invariance, PTL

\* The runner's output is lost only in the file of a test that failed.
THEOREM LostOutputIsNotGreen == Spec => []LostOutputNotGreen
<1>1. IInv => LostOutputNotGreen
  BY DEF IInv, OutputInv, Sound, LostOutputNotGreen
<1> QED
  BY <1>1, Invariance, PTL

=============================================================================
