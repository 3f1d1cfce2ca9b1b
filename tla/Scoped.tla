-------------------------------- MODULE Scoped --------------------------------
(***************************************************************************)
(* What a with-block of plano promises: leaving it gives back the settings *)
(* it is about, as they were when it was entered, whatever the body and    *)
(* the blocks inside it did, and touches no other setting.  A block that   *)
(* cannot be entered, or left, because a call fails, counts as a failure,  *)
(* and upsets no more than its own settings.                               *)
(***************************************************************************)
EXTENDS Integers, Sequences

CONSTANT
  Kinds    \* the sets of settings that a block can be about

VARIABLES
  value,   \* the value of each setting
  stack,   \* of each block entered, the settings it is to give back
  upset,   \* the settings that a block which failed has not given back
  failures \* the blocks that failed

Init == stack = <<>> /\ upset = {} /\ failures = 0

Only(settings) == \A k \in DOMAIN value \ settings : value'[k] = value[k]

\* A block takes note of its settings, and changes none but these.
Enter ==
  LET saved == stack'[Len(stack')]
  IN /\ stack' # <<>>
     /\ stack' = Append(stack, saved)
     /\ DOMAIN saved \in Kinds
     /\ \A k \in DOMAIN saved : saved[k] = value[k]
     /\ Only(DOMAIN saved)
     /\ UNCHANGED <<upset, failures>>

Leave ==
  /\ stack # <<>>
  /\ stack' = SubSeq(stack, 1, Len(stack) - 1)
  /\ \A k \in DOMAIN stack[Len(stack)] : value'[k] = stack[Len(stack)][k]
  /\ Only(DOMAIN stack[Len(stack)])
  /\ UNCHANGED <<upset, failures>>

\* The body changes a setting.
Change ==
  /\ \E k \in DOMAIN value : Only({k})
  /\ UNCHANGED <<stack, upset, failures>>

\* A block with the settings it should give back has failed: those that differ are
\* upset, and no others have changed.
Failed(given) ==
  /\ failures' = failures + 1
  /\ Only(DOMAIN given)
  /\ upset' = upset \cup {k \in DOMAIN given : value'[k] # given[k]}

NotEntered ==
  /\ UNCHANGED stack
  /\ \E own \in Kinds : Failed([k \in own |-> value[k]])

NotLeft ==
  /\ stack # <<>>
  /\ stack' = SubSeq(stack, 1, Len(stack) - 1)
  /\ Failed(stack[Len(stack)])

Next == Enter \/ Leave \/ Change \/ NotEntered \/ NotLeft

Spec == Init /\ [][Next]_<<value, stack, upset, failures>>

=============================================================================
