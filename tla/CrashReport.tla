---------------------------- MODULE CrashReport ----------------------------
(***************************************************************************)
(* What src/panic.c promises about the signals it is installed for,        *)
(* without threads, stacks or lines: a signal is armed once, its report    *)
(* runs at most once, and the signal that kills the process is not one     *)
(* that is still armed: once the handler is installed for it, it is        *)
(* entered before the process can die of that signal.                      *)
(***************************************************************************)

CONSTANT Signals      \* the signals the handler is installed for

VARIABLES
  stage,              \* how far the report of each signal has come, and
                      \* which of them has killed the process
  dead                \* TRUE once the process is gone

absVars == <<stage, dead>>

Stages == {"unarmed", "armed", "running", "done", "killer"}

AbsTypeOK ==
  /\ stage \in [Signals -> Stages]
  /\ dead \in BOOLEAN

AbsInit ==
  /\ stage = [s \in Signals |-> "unarmed"]
  /\ dead = FALSE

Move(s, from, to) ==
  /\ ~dead
  /\ stage[s] = from
  /\ stage' = [stage EXCEPT ![s] = to]
  /\ UNCHANGED dead

Arm(s) == Move(s, "unarmed", "armed")
Enter(s) == Move(s, "armed", "running")
Finish(s) == Move(s, "running", "done")

\* The process dies of s, and of no other signal.
Die(s) ==
  /\ ~dead
  /\ stage[s] # "armed"
  /\ stage' = [stage EXCEPT ![s] = "killer"]
  /\ dead' = TRUE

AbsNext == \E s \in Signals : Arm(s) \/ Enter(s) \/ Finish(s) \/ Die(s)

AbsSpec == AbsInit /\ [][AbsNext]_absVars

=============================================================================
