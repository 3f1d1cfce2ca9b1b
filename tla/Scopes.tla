-------------------------------- MODULE Scopes --------------------------------
(***************************************************************************)
(* plano's context managers (main.py): working_dir, working_env,           *)
(* working_module_path, output_redirected, console_color, logging_enabled  *)
(* and logging_disabled, temp_file and temp_dir, nested in any order, with *)
(* bodies that change the same settings.                                   *)
(*                                                                         *)
(* __enter__ and __exit__ are sequences of steps, executed in one action;  *)
(* a call that fails, or the exception of a signal handler, ends it after  *)
(* any of them.  The body can raise, too: __exit__ does not look at it.    *)
(***************************************************************************)
EXTENDS Integers, SequencesExt

CONSTANTS
  Vars,        \* environment variables
  Inherited,   \* those that are set at the start
  Dirs,        \* directories, of which "home" exists
  Temps,       \* directories that mkdtemp() makes
  Levels,      \* logging levels, one of them "disabled"
  MaxBlocks,   \* bound: blocks entered
  MaxChanges,  \* bound: changes by the bodies
  MaxStrikes   \* bound: calls that fail, and signals

\* The settings beside the environment.
Others == {"cwd", "path", "stdout", "threshold", "output", "color"}
Settings == Vars \cup Others

ASSUME ScopesAssumption ==
  /\ IsFiniteSet(Vars)
  /\ Inherited \subseteq Vars
  /\ "home" \in Dirs /\ "disabled" \in Levels
  /\ Dirs \cap Temps = {} /\ "none" \notin Dirs \cup Temps
  /\ Vars \cap ({"log"} \cup Others) = {}
  /\ {MaxBlocks, MaxChanges, MaxStrikes} \subseteq Nat

VARIABLES
  value,    \* the settings of the process
  dirs,     \* the directories that exist, and the temporary files
  scopes,   \* the blocks entered, outermost first
  upset,    \* history: the settings that a block has not given back
  failures, \* history: the blocks whose __enter__ or __exit__ failed
  failed,   \* history: their settings
  leaked,   \* history: what they had made with mkdtemp() or mkstemp()
  blame,    \* history: what can make them fail
  blocks, changes, strikes

vars ==
  <<value, dirs, scopes, upset, failures, failed, leaked, blame, blocks, changes, strikes>>

Absent == "absent"     \* the value of an environment variable that is not set
Present == {v \in Vars : value[v] # Absent}
Console == "console"   \* sys.stdout of the start; also sys.stderr
Outputs == {Console, "log"}
Plain == "plain"        \* the color of a terminal after a reset

\* What logging shows: nothing at all while it is disabled, when the output is
\* whatever the last block left.
Log == IF value["threshold"] = "disabled" THEN <<"disabled">>
       ELSE <<value["threshold"], value["output"]>>

\* The settings that blocks give back, with those two as one.
Restorable == (Settings \ {"threshold", "output", "color"}) \cup {"log"}
Shown == [k \in Restorable |-> IF k = "log" THEN Log ELSE value[k]]

-----------------------------------------------------------------------------
(* Steps                                                                   *)

Assign(name, to) == [do |-> "assign", name |-> name, to |-> to]
Delete(name) == [do |-> "del", name |-> name, to |-> Absent]
ChangeDir(dir) == [do |-> "chdir", name |-> "cwd", to |-> dir]
MakeDir(dir) == [do |-> "mkdir", name |-> "dirs", to |-> dir]
RemovePath(path) == [do |-> "remove", name |-> "dirs", to |-> path]

World == [value |-> value, dirs |-> dirs]

\* change_dir() asks for the current directory before it leaves it, and a relative
\* path leads nowhere when that has been removed.
Can(w, step) ==
  /\ step.do = "chdir" => {w.value["cwd"], step.to} \subseteq w.dirs
  /\ step.do = "mkdir" => step.to \in Temps \/ w.value["cwd"] \in w.dirs
  /\ step.do = "del" => w.value[step.name] # Absent

Do(w, step) ==
  IF step.do = "mkdir" THEN [w EXCEPT !.dirs = @ \cup {step.to}]
  ELSE IF step.do = "remove" THEN [w EXCEPT !.dirs = @ \ {step.to}]
  ELSE [w EXCEPT !.value[step.name] = step.to]

\* The worlds that the steps lead through.
Worlds(steps) ==
  LET w[n \in 0..Len(steps)] == IF n = 0 THEN World ELSE Do(w[n - 1], steps[n])
  IN w

\* The first n steps are made.
Reach(steps, n) ==
  LET w == Worlds(steps)
  IN /\ \A m \in 1..n : Can(w[m - 1], steps[m])
     /\ value' = w[n].value
     /\ dirs' = w[n].dirs

Execute(steps) == Reach(steps, Len(steps))

\* The steps end early, or the block is not reached after the last one.
Interrupted(steps) ==
  \E n \in 0..Len(steps) :
    /\ Reach(steps, n)
    /\ \/ /\ strikes < MaxStrikes
          /\ strikes' = strikes + 1
          /\ blame' = blame \cup {"strike"}
       \/ /\ n < Len(steps) /\ ~Can(Worlds(steps)[n], steps[n + 1])
          /\ UNCHANGED <<strikes, blame>>

-----------------------------------------------------------------------------
(* Scopes                                                                  *)

None == "none"
Owned == {scopes[n].temp : n \in DOMAIN scopes} \ {None}

\* The settings of a block, the steps of its __exit__, and what it has made.
Scope(settings, exit, temp) ==
  [saved |-> [k \in settings |-> Shown[k]],
   exit |-> exit, temp |-> temp]

Fails(scope) ==
  /\ failures' = failures + 1
  /\ failed' = failed \cup DOMAIN scope.saved
  /\ leaked' = leaked \cup ({scope.temp} \cap dirs')

\* After the block, its settings should be what it has saved.
Left(scope) == upset' = upset \cup {k \in DOMAIN scope.saved : Shown'[k] # scope.saved[k]}

With(scope, enter) ==
  /\ blocks < MaxBlocks
  /\ blocks' = blocks + 1
  /\ \/ /\ Execute(enter)
        /\ scopes' = Append(scopes, scope)
        /\ UNCHANGED <<upset, failures, failed, leaked, blame, strikes>>
     \/ Interrupted(enter) /\ Fails(scope) /\ Left(scope) /\ UNCHANGED scopes
  /\ UNCHANGED changes

\* mkdtemp() and mkstemp() make a new name.  Mutant: they do not.
AnyName(t) == TRUE
NewName(t) == t \notin dirs \cup Owned \cup {value["cwd"]}

Back == ChangeDir(value["cwd"])
\* The steps of __exit__.  Mutant: it stays.
StayThere == <<>>
ChangeBack == <<Back>>
working_dir(dir) ==
  With(Scope({"cwd"}, ChangeBack, None), <<MakeDir(dir), ChangeDir(dir)>>)
working_dir_empty == With(Scope({"cwd"}, ChangeBack, None), <<Back>>)   \* dir is ""
working_dir_here == With(Scope({}, <<>>, None), <<>>)                 \* dir is "."

\* Without an argument, in a new directory.  Mutant: which is not removed.
KeepDir(t) == <<Back>>
LeaveDir(t) == <<Back, RemovePath(t)>>
working_dir_temp(t) ==
  /\ NewName(t)
  /\ With(Scope({"cwd"}, LeaveDir(t), t), <<MakeDir(t), ChangeDir(t)>>)

\* temp_dir and temp_file.
temp(t) ==
  /\ NewName(t)
  /\ With(Scope({}, <<RemovePath(t)>>, t), <<MakeDir(t)>>)

Each(set, Op(_)) == LET s == SetToSeq(set) IN [n \in DOMAIN s |-> Op(s[n])]

working_env(names, amend) ==
  LET enter == (IF amend THEN <<>> ELSE Each(Present \ names, Delete))
               \o Each(names, LAMBDA v : Assign(v, "scope"))
      exit == Each(Present, LAMBDA v : Assign(v, value[v])) \o Each(names \ Present, Delete)
  IN With(Scope(Present \cup names, exit, None), enter)

working_module_path(dir, amend) ==
  With(Scope({"path"}, <<Assign("path", value["path"])>>, None),
       <<Assign("path", <<dir>> \o IF amend THEN value["path"] ELSE <<>>)>>)

\* The file is emptied when it is opened, before sys.stdout changes.
output_redirected(file) ==
  With(Scope({"stdout"}, <<Assign("stdout", value["stdout"])>>, None),
       <<Assign("stdout", file)>>)

\* sys.stdout or another stream is not opened: `output` has no value when __enter__
\* assigns it, which raises.
output_redirected_stream ==
  /\ blocks < MaxBlocks
  /\ blocks' = blocks + 1
  /\ UNCHANGED <<value, dirs, scopes, upset, changes, strikes>>
  /\ Fails(Scope({"stdout"}, <<>>, None))
  /\ blame' = blame \cup {"stream"}

\* The block around it does not get its color back: the terminal is reset.
console_color(color) ==
  With(Scope({}, <<Assign("color", Plain)>>, None), <<Assign("color", color)>>)

-----------------------------------------------------------------------------
(* Logging                                                                 *)

\* enable_logging and disable_logging; the file is opened between the two steps.
enable_logging(level, output) ==
  <<Assign("threshold", level), Assign("output", output)>>
disable_logging == <<Assign("threshold", "disabled")>>

SetLogging(level, output) ==
  IF level = "disabled" THEN disable_logging ELSE enable_logging(level, output)

\* __exit__ does the same with what __enter__ took note of.  Mutant: it passes on
\* the level only.
LevelBack(level, output) == SetLogging(level, Console)
LoggingBack(level, output) == SetLogging(level, output)

\* logging_disabled is logging_enabled with this level.
logging_enabled(level, output) ==
  With(Scope({"log"}, LoggingBack(value["threshold"], value["output"]), None),
       SetLogging(level, output))

-----------------------------------------------------------------------------
(* The end of a block, and its body                                        *)

Exit ==
  LET scope == Last(scopes) IN
  /\ scopes # <<>>
  /\ scopes' = Front(scopes)
  /\ \/ Execute(scope.exit) /\ UNCHANGED <<failures, failed, leaked, blame, strikes>>
     \/ Interrupted(scope.exit) /\ Fails(scope)
  /\ Left(scope)
  /\ UNCHANGED <<blocks, changes>>

\* The body changes a setting: as a whole, or not at all.
Body(steps, why) ==
  /\ changes < MaxChanges
  /\ changes' = changes + 1
  /\ Execute(steps)
  /\ blame' = blame \cup why
  /\ UNCHANGED <<scopes, upset, failures, failed, leaked, blocks, strikes>>

Change ==
  \/ \E dir \in dirs : Body(<<ChangeDir(dir)>>, IF dir \in Temps THEN {"chdir"} ELSE {})
  \/ \E dir \in dirs \ {"home"} : Body(<<RemovePath(dir)>>, {"remove"})
  \/ \E v \in Vars : Body(<<Assign(v, "body")>>, {}) \/ Body(<<Delete(v)>>, {"del"})
  \/ Body(disable_logging, {})
  \/ \E level \in Levels, output \in Outputs :
       Body(enable_logging(level, output), {})

\* The script is over.
Ended == scopes = <<>> /\ UNCHANGED vars

-----------------------------------------------------------------------------
Start(level) ==
  [cwd |-> "home", path |-> <<>>, stdout |-> Console,
   threshold |-> level, output |-> Console, color |-> Plain]

Init ==
  /\ \E level \in Levels :
       value = [k \in Settings |->
                  IF k \in Others THEN Start(level)[k]
                  ELSE IF k \in Inherited THEN "start" ELSE Absent]
  /\ \E some \in SUBSET (Dirs \ {"home"}) : dirs = {"home"} \cup some
  /\ scopes = <<>>
  /\ upset = {} /\ failures = 0 /\ failed = {} /\ leaked = {} /\ blame = {}
  /\ blocks = 0 /\ changes = 0 /\ strikes = 0

Next ==
  \/ \E dir \in Dirs : working_dir(dir)
  \/ working_dir_empty \/ working_dir_here
  \/ \E t \in Temps : working_dir_temp(t) \/ temp(t)
  \/ \E names \in SUBSET Vars, amend \in BOOLEAN : working_env(names, amend)
  \/ \E dir \in Dirs, amend \in BOOLEAN : working_module_path(dir, amend)
  \/ \E file \in Outputs \ {Console} : output_redirected(file)
  \/ output_redirected_stream
  \/ console_color("red")
  \/ \E level \in Levels, output \in Outputs : logging_enabled(level, output)
  \/ Exit
  \/ Change
  \/ Ended

Spec == Init /\ [][Next]_vars

-----------------------------------------------------------------------------
(* Properties                                                              *)

TypeOK ==
  /\ value = [k \in Settings |-> value[k]]
  /\ \A v \in Vars : value[v] \in {Absent, "start", "scope", "body"}
  /\ value["cwd"] \in Dirs \cup Temps
  /\ value["path"] \in Seq(Dirs)
  /\ value["stdout"] \in Outputs /\ value["output"] \in Outputs
  /\ value["threshold"] \in Levels /\ value["color"] \in {Plain, "red"}
  /\ dirs \subseteq Dirs \cup Temps
  /\ \A n \in DOMAIN scopes :
       /\ DOMAIN scopes[n].saved \subseteq Restorable
       /\ scopes[n].temp # None =>
            \A k \in DOMAIN scopes : scopes[k].temp = scopes[n].temp => k = n
  /\ failed \subseteq Restorable /\ failures \in Nat /\ leaked \subseteq Temps
  /\ blocks \in 0..MaxBlocks /\ changes \in 0..MaxChanges /\ strikes \in 0..MaxStrikes

\* Blocks give back what they found: nested in any way, and whatever their bodies
\* change, each of them restores its settings, or fails, and then upsets no
\* others.  A variable that the body adds to the environment is no setting of a
\* working_env block: it stays (main.py:204-223, 336-368, 421-463, 820-842).
Kinds == (SUBSET Vars) \cup {{"cwd"}, {"path"}, {"stdout"}, {"log"}}
Abstract == INSTANCE Scoped WITH
  value <- Shown, stack <- [n \in DOMAIN scopes |-> scopes[n].saved]
ImplementsScoped == Abstract!Spec

\* No temporary directory or file outlives its block, no color stays on after the
\* blocks, and no setting is other than it was before a block, unless such a block
\* failed; and none fails unless a call failed or a handler raised, or the body
\* removed a directory, made a temporary one the current directory, or deleted a
\* variable that working_env has set, or output_redirected was given a stream
\* (main.py:172-188, 204-223, 336-368, 437-443, 1426-1450).
FailuresHaveCause ==
  /\ dirs \cap Temps \subseteq Owned \cup leaked
  /\ value["color"] # Plain => scopes # <<>> \/ "strike" \in blame
  /\ upset \subseteq failed
  /\ failures > 0 => blame # {}
  /\ leaked # {} => blame # {}
  /\ "cwd" \in failed => blame \cap {"strike", "remove", "chdir"} # {}
  /\ failed \cap Vars # {} => blame \cap {"strike", "del"} # {}
  /\ "stdout" \in failed => blame \cap {"strike", "stream"} # {}
  /\ failed \cap {"log", "path"} # {} => "strike" \in blame

=============================================================================
