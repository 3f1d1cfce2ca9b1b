-------------------------- MODULE PlanoCommandProofs --------------------------
(***************************************************************************)
(* Proofs about command sequences, for any commands, overriding, command   *)
(* lines, calls and exceptions: no failure is lost on its way to main.     *)
(***************************************************************************)
EXTENDS PlanoCommand, SequenceTheorems, WellFoundedInduction, TLAPS

\* A function is executed only between the parsing of the arguments and the exit,
\* and the commands begun are those of the sequence in its order.
StartedInv ==
  /\ phase \in {"parse", "exited"} => frames = <<>>
  /\ \A k \in 1..Len(started) : k <= Len(Sequence) /\ started[k] = Sequence[k]

\* While an exception leaves no command of the sequence, its commands have returned
\* but the one that is executed; and the next one is at the place that follows.
PositionInv ==
  phase # "exited" =>
    /\ position = returned + 1
    /\ frames # <<>> => Len(started) = position
    /\ Steady => Len(started) = returned
    /\ phase = "parse" => Steady /\ position = 1
    /\ phase = "init" /\ frames # <<>> => position < Len(Sequence)
    /\ phase = "init" /\ frames = <<>> => position <= Len(Sequence) \/ Sequence = <<>>
    /\ phase = "run" /\ Sequence = <<>> => position = 1 /\ frames = <<>>
    /\ phase = "run" /\ Sequence # <<>> => position = Len(Sequence)

IInv ==
  /\ TypeOK
  /\ StartedInv
  /\ PositionInv
  /\ GreenMeansAll

-----------------------------------------------------------------------------
(* Sequences                                                               *)

\* The last element, and the others.
LEMMA FrontFacts ==
  ASSUME NEW S, NEW s \in Seq(S)
  PROVE  /\ Front(s) \in Seq(S)
         /\ s # <<>> => /\ Last(s) \in S
                        /\ Front(s) = <<>> <=> Len(s) = 1
<1>0. Len(s) \in Nat
  BY LenProperties
<1> DEFINE n == Len(s) - 1
<1>1. Len(s) \in Nat /\ n \in Int /\ n + 1 = Len(s) /\ \A k \in 1..Len(s) : s[k] \in S
  BY LenProperties, ElementOfSeq
<1>2. Front(s) = SubSeq(s, 1, n)
  BY DEF Front
<1> HIDE DEF n
<1>3. \A k \in 1..n : s[k] \in S
  BY <1>1
<1>4. /\ SubSeq(s, 1, n) \in Seq(S)
      /\ Len(SubSeq(s, 1, n)) = IF 1 <= n THEN n - 1 + 1 ELSE 0
  BY <1>1, <1>3, SubSeqProperties
<1>5. s # <<>> => n \in Nat /\ Last(s) = s[n + 1]
  BY <1>1, EmptySeq DEF Last
<1>6. s # <<>> => Last(s) \in S
  BY <1>1, <1>5
<1>7. s # <<>> => (Front(s) = <<>> <=> n = 0)
  <2>1. Front(s) = <<>> <=> Len(Front(s)) = 0
    BY <1>2, <1>4, EmptySeq
  <2>2. s # <<>> => Len(Front(s)) = n
    BY <1>1, <1>2, <1>4, <1>5
  <2> QED
    BY <1>5, <2>1, <2>2
<1> QED
  BY <1>1, <1>2, <1>4, <1>6, <1>7

\* One element more.
LEMMA AppendFacts ==
  ASSUME NEW S, NEW s \in Seq(S), NEW e \in S
  PROVE  /\ Append(s, e) \in Seq(S) /\ Append(s, e) # <<>>
         /\ Len(s) \in Nat /\ Len(Append(s, e)) = Len(s) + 1
         /\ \A k \in 1..Len(s) + 1 :
              Append(s, e)[k] = IF k = Len(s) + 1 THEN e ELSE s[k]
<1>1. Len(s) \in Nat
  BY LenProperties
<1>2. /\ Append(s, e) \in Seq(S) /\ Len(Append(s, e)) = Len(s) + 1
      /\ \A k \in 1..Len(s) : Append(s, e)[k] = s[k]
      /\ Append(s, e)[Len(s) + 1] = e
  BY AppendProperties
<1> QED
  BY <1>1, <1>2, EmptySeq

\* The names of a command line.
LEMMA SequenceFacts ==
  ASSUME TypeOK
  PROVE  /\ Sequence \in Seq(STRING) /\ Len(Sequence) \in Nat
         /\ Sequence = <<>> <=> Len(Sequence) = 0
         /\ Len(started) \in Nat
         /\ started = <<>> <=> Len(started) = 0
<1>1. options \in OptionType /\ started \in Seq(Names)
  BY CommandAssumption DEF TypeOK
<1>2. Sequence \in Seq(STRING)
  BY <1>1 DEF OptionType, Sequence
<1> QED
  BY <1>1, <1>2, LenProperties, EmptySeq

Frame == [command : Commands, parent : BOOLEAN]

\* What a call pushes.
LEMMA CallFacts ==
  ASSUME TypeOK, NEW c \in Commands, Call(c)
  PROVE  /\ frames' \in Seq(Frame) /\ frames' # <<>>
         /\ running_commands' \in Seq(Commands)
<1>1. Bound[Name[c]] \in Commands
  BY CommandAssumption
<1>2. [command |-> Bound[Name[c]], parent |-> FALSE] \in Frame
  BY <1>1 DEF Frame
<1>3. frames \in Seq(Frame) /\ running_commands \in Seq(Commands)
  BY DEF TypeOK, Frame
<1>4. frames' = Append(frames, [command |-> Bound[Name[c]], parent |-> FALSE])
  BY DEF Call
<1>5. frames' \in Seq(Frame) /\ frames' # <<>>
  BY <1>2, <1>3, <1>4, AppendFacts
<1>6. running_commands' = running_commands \o <<Bound[Name[c]]>>
  BY DEF Call, Listed
<1>7. <<Bound[Name[c]]>> \in Seq(Commands)
  BY <1>1
<1>8. running_commands' \in Seq(Commands)
  BY <1>3, <1>6, <1>7, ConcatProperties
<1> QED
  BY <1>5, <1>8

\* What leaving a function pops.
LEMMA LeaveFacts ==
  ASSUME TypeOK, frames # <<>>
  PROVE  /\ Front(frames) \in Seq(Frame) /\ Last(frames) \in Frame
         /\ Front(frames) = <<>> <=> Len(frames) = 1
         /\ Front(running_commands) \in Seq(Commands)
<1>1. frames \in Seq(Frame) /\ running_commands \in Seq(Commands)
  BY DEF TypeOK, Frame
<1> QED
  BY <1>1, FrontFacts

\* The next command of the sequence is called by its name.
LEMMA CallByNameFacts ==
  ASSUME TypeOK, StartedInv, NEW p \in 1..Len(Sequence), CallByName(Sequence[p]),
         Len(started) = p - 1, options' = options
  PROVE  \/ /\ frames' \in Seq(Frame) /\ frames' # <<>>
            /\ running_commands' \in Seq(Commands)
            /\ started' \in Seq(Names) /\ Len(started') = p
            /\ \A k \in 1..Len(started') :
                 k <= Len(Sequence) /\ started'[k] = Sequence[k]
            /\ UNCHANGED exc
         \/ exc' = "other" /\ UNCHANGED <<frames, running_commands, started>>
<1>1. CASE Sequence[p] \in Names /\ Call(Bound[Sequence[p]])
           /\ started' = Append(started, Sequence[p]) /\ UNCHANGED exc
  <2>1. Bound[Sequence[p]] \in Commands
    BY <1>1, CommandAssumption
  <2>2. /\ frames' \in Seq(Frame) /\ frames' # <<>>
        /\ running_commands' \in Seq(Commands)
    BY <1>1, <2>1, CallFacts
  <2>3. started \in Seq(Names) /\ Len(Sequence) \in Nat
    BY SequenceFacts DEF TypeOK
  <2>4. /\ started' \in Seq(Names) /\ Len(started') = Len(started) + 1
        /\ \A k \in 1..Len(started) + 1 :
             started'[k] = IF k = Len(started) + 1 THEN Sequence[p] ELSE started[k]
    BY <1>1, <2>3, AppendFacts
  <2>5. Len(started') = p
    BY <2>3, <2>4
  <2>6. \A k \in 1..p : k <= Len(Sequence) /\ started'[k] = Sequence[k]
    BY <2>3, <2>4, <2>5 DEF StartedInv
  <2> QED
    BY <1>1, <2>2, <2>4, <2>5, <2>6
<1>2. CASE exc' = "other" /\ UNCHANGED <<frames, running_commands, started>>
  BY <1>2
<1> QED
  BY <1>1, <1>2 DEF CallByName

\* A function calls a command.
LEMMA KeepsCallCommand ==
  ASSUME IInv, NEW c \in Commands, CallCommand(c)
  PROVE  IInv'
<1>1. TypeOK /\ StartedInv /\ PositionInv /\ GreenMeansAll
  BY DEF IInv
<1>2. /\ phase # "exited" /\ frames # <<>> /\ exc = "none" /\ calls' \in 0..MaxCalls
      /\ frames' \in Seq(Frame) /\ frames' # <<>>
      /\ running_commands' \in Seq(Commands)
      /\ UNCHANGED <<options, phase, position, exc, status, interrupts,
                     started, returned, abandoned>>
  BY <1>1, CallFacts, CommandAssumption
  DEF CallCommand, MayCall, InFunction, history, TypeOK
<1>3. /\ Sequence \in Seq(STRING) /\ Len(Sequence) \in Nat
      /\ Sequence = <<>> <=> Len(Sequence) = 0
      /\ Len(started) \in Nat
      /\ started = <<>> <=> Len(started) = 0
      /\ Sequence' = Sequence
  BY <1>1, <1>2, SequenceFacts DEF Sequence
<1> HIDE DEF Sequence
<1>5. TypeOK'
  BY <1>1, <1>3, <1>2 DEF TypeOK, Exceptions, Frame
<1>6. StartedInv'
  BY <1>1, <1>3, <1>2 DEF StartedInv, PositionInv, Steady
<1>7. GreenMeansAll'
  BY <1>1, <1>3, <1>2 DEF GreenMeansAll, StartedInv, PositionInv, TypeOK
<1>8. PositionInv'
  BY <1>1, <1>3, <1>2 DEF PositionInv, StartedInv, Steady, TypeOK
<1> QED
  BY <1>5, <1>6, <1>7, <1>8 DEF IInv

\* A function calls parent().
LEMMA KeepsCallParent ==
  ASSUME IInv, CallParent
  PROVE  IInv'
<1>1. TypeOK /\ StartedInv /\ PositionInv /\ GreenMeansAll
  BY DEF IInv
<1>2. /\ phase # "exited" /\ frames # <<>> /\ calls' \in 0..MaxCalls
      /\ frames' \in Seq(Frame) /\ frames' # <<>>
      /\ exc = "none" /\ exc' \in {"none", "error"} /\ interrupts' \in 0..MaxInterrupts
      /\ UNCHANGED <<options, phase, position, running_commands, status,
                     started, returned, abandoned>>
  <2>1. /\ calls' \in 0..MaxCalls /\ phase # "exited" /\ frames # <<>> /\ exc = "none"
        /\ UNCHANGED <<options, phase, position, running_commands, status,
                       started, returned, abandoned>>
    BY <1>1, CommandAssumption DEF CallParent, MayCall, InFunction, TypeOK, history
  <2> DEFINE parent == IF Last(frames).parent THEN None ELSE Parent[Last(frames).command]
  <2>2. CASE /\ parent # None
             /\ frames' = Append(frames, [command |-> parent, parent |-> TRUE])
             /\ UNCHANGED <<exc, interrupts>>
    <3>1. Last(frames) \in Frame
      BY <1>1, <2>1, LeaveFacts
    <3>2. parent \in Commands
      BY <2>2, <3>1, CommandAssumption DEF Frame
    <3> HIDE DEF parent
    <3>3. [command |-> parent, parent |-> TRUE] \in Frame
      BY <3>2 DEF Frame
    <3>4. frames \in Seq(Frame) /\ interrupts \in 0..MaxInterrupts
      BY <1>1 DEF TypeOK, Frame
    <3> QED
      BY <2>1, <2>2, <3>3, <3>4, AppendFacts
  <2>3. CASE /\ exc' = "error" /\ UNCHANGED frames
             /\ interrupts' \in {interrupts, interrupts + 1}
             /\ (interrupts' # interrupts => interrupts < MaxInterrupts)
    BY <1>1, <2>1, <2>3, CommandAssumption DEF TypeOK, Frame
  <2> QED
    BY <1>1, <2>1, <2>2, <2>3 DEF CallParent, TypeOK
<1>3. /\ Sequence \in Seq(STRING) /\ Len(Sequence) \in Nat
      /\ Sequence = <<>> <=> Len(Sequence) = 0
      /\ Len(started) \in Nat
      /\ started = <<>> <=> Len(started) = 0
      /\ Sequence' = Sequence
  BY <1>1, <1>2, SequenceFacts DEF Sequence
<1> HIDE DEF Sequence
<1>5. TypeOK'
  BY <1>1, <1>3, <1>2 DEF TypeOK, Exceptions, Frame
<1>6. StartedInv'
  BY <1>1, <1>3, <1>2 DEF StartedInv, PositionInv, Steady
<1>7. GreenMeansAll'
  BY <1>1, <1>3, <1>2 DEF GreenMeansAll, StartedInv, PositionInv, TypeOK
<1>8. PositionInv'
  BY <1>1, <1>3, <1>2 DEF PositionInv, StartedInv, Steady, TypeOK
<1> QED
  BY <1>5, <1>6, <1>7, <1>8 DEF IInv

\* A function returns.
LEMMA KeepsReturn ==
  ASSUME IInv, Return
  PROVE  IInv'
<1>1. TypeOK /\ StartedInv /\ PositionInv /\ GreenMeansAll
  BY DEF IInv
<1>2. /\ phase # "exited" /\ frames # <<>> /\ exc = "none"
      /\ frames' \in Seq(Frame) /\ (frames' = <<>> <=> Len(frames) = 1)
      /\ running_commands' \in Seq(Commands)
      /\ IF Len(frames) = 1
         THEN returned' = returned + 1 /\ position' = position + 1
         ELSE UNCHANGED <<returned, position>>
      /\ IF Len(frames) = 1 /\ phase = "run"
         THEN phase' = "exited" /\ status' = 0
         ELSE UNCHANGED <<phase, status>>
      /\ UNCHANGED <<options, exc, calls, interrupts, started, abandoned>>
  BY <1>1, LeaveFacts DEF Return, InFunction, Exit, TypeOK, Frame
<1>3. /\ Sequence \in Seq(STRING) /\ Len(Sequence) \in Nat
      /\ Sequence = <<>> <=> Len(Sequence) = 0
      /\ Len(started) \in Nat
      /\ started = <<>> <=> Len(started) = 0
      /\ Sequence' = Sequence
  BY <1>1, <1>2, SequenceFacts DEF Sequence
<1> HIDE DEF Sequence
<1>4. position \in 1..Len(Sequence) /\ Len(started) = position /\ position = returned + 1
      /\ (phase = "run" => position = Len(Sequence))
  BY <1>1, <1>3, <1>2 DEF PositionInv, TypeOK, Steady
<1>5. TypeOK'
  <2>1. position' \in 1..Len(Sequence) + 1 /\ returned' \in 0..Len(Sequence)
    BY <1>1, <1>3, <1>2, <1>4 DEF TypeOK
  <2>2. /\ phase' \in {"parse", "init", "run", "exited"}
        /\ status' \in {0, 1, 2, 130}
    BY <1>1, <1>2 DEF TypeOK
  <2> QED
    BY <1>1, <1>3, <1>2, <2>1, <2>2 DEF TypeOK, Frame
<1>6. StartedInv'
  BY <1>1, <1>3, <1>2, <1>4 DEF StartedInv, PositionInv, Steady
<1>7. GreenMeansAll'
  <2>1. CASE Len(frames) = 1 /\ phase = "run"
    <3>1. Len(started) = Len(Sequence) /\ returned' = Len(Sequence)
      BY <1>3, <1>2, <1>4, <2>1
    <3>2. \A k \in 1..Len(started) : started[k] = Sequence[k]
      BY <1>1 DEF StartedInv
    <3>3. started \in Seq(Names \cup STRING) /\ Sequence \in Seq(Names \cup STRING)
      BY <1>1, <1>3, SeqMonotonic DEF TypeOK
    <3>4. started = Sequence
      BY <3>1, <3>2, <3>3, SeqEqual
    <3> QED
      BY <1>3, <1>2, <3>1, <3>4 DEF GreenMeansAll
  <2>2. CASE ~(Len(frames) = 1 /\ phase = "run")
    BY <1>2, <2>2 DEF GreenMeansAll
  <2> QED
    BY <2>1, <2>2
<1>8. PositionInv'
  BY <1>1, <1>3, <1>2, <1>4 DEF PositionInv, StartedInv, Steady, TypeOK
<1> QED
  BY <1>5, <1>6, <1>7, <1>8 DEF IInv

\* A function raises an exception.
LEMMA KeepsRaise ==
  ASSUME IInv, NEW e \in {"error", "other", "exit0", "exit1"}, Raise(e)
  PROVE  IInv'
<1>1. TypeOK /\ StartedInv /\ PositionInv /\ GreenMeansAll
  BY DEF IInv
<1>2. /\ phase # "exited" /\ frames # <<>> /\ exc' = e
      /\ UNCHANGED <<options, phase, position, frames, running_commands,
                     status, calls, interrupts, started, returned, abandoned>>
  BY DEF Raise, InFunction, history
<1>3. /\ Sequence \in Seq(STRING) /\ Len(Sequence) \in Nat
      /\ Sequence = <<>> <=> Len(Sequence) = 0
      /\ Len(started) \in Nat
      /\ started = <<>> <=> Len(started) = 0
      /\ Sequence' = Sequence
  BY <1>1, <1>2, SequenceFacts DEF Sequence
<1> HIDE DEF Sequence
<1>5. TypeOK'
  BY <1>1, <1>3, <1>2 DEF TypeOK, Exceptions, Frame
<1>6. StartedInv'
  BY <1>1, <1>3, <1>2 DEF StartedInv, PositionInv, Steady
<1>7. GreenMeansAll'
  BY <1>1, <1>3, <1>2 DEF GreenMeansAll, StartedInv, PositionInv, TypeOK
<1>8. PositionInv'
  BY <1>1, <1>3, <1>2 DEF PositionInv, StartedInv, Steady, TypeOK
<1> QED
  BY <1>5, <1>6, <1>7, <1>8 DEF IInv

\* The exception leaves a function.
LEMMA KeepsUnwind ==
  ASSUME IInv, Unwind
  PROVE  IInv'
<1>1. TypeOK /\ StartedInv /\ PositionInv /\ GreenMeansAll
  BY DEF IInv
<1>2. /\ phase # "exited" /\ frames # <<>> /\ exc # "none"
      /\ frames' \in Seq(Frame) /\ abandoned' \in Nat
      /\ UNCHANGED <<options, phase, position, running_commands, exc, status,
                     calls, interrupts, started, returned>>
  BY <1>1, LeaveFacts DEF Unwind, TypeOK
<1>3. /\ Sequence \in Seq(STRING) /\ Len(Sequence) \in Nat
      /\ Sequence = <<>> <=> Len(Sequence) = 0
      /\ Len(started) \in Nat
      /\ started = <<>> <=> Len(started) = 0
      /\ Sequence' = Sequence
  BY <1>1, <1>2, SequenceFacts DEF Sequence
<1> HIDE DEF Sequence
<1>5. TypeOK'
  BY <1>1, <1>3, <1>2 DEF TypeOK, Exceptions, Frame
<1>6. StartedInv'
  BY <1>1, <1>3, <1>2 DEF StartedInv, PositionInv, Steady
<1>7. GreenMeansAll'
  BY <1>1, <1>3, <1>2 DEF GreenMeansAll, StartedInv, PositionInv, TypeOK
<1>8. PositionInv'
  BY <1>1, <1>3, <1>2 DEF PositionInv, StartedInv, Steady, TypeOK
<1> QED
  BY <1>5, <1>6, <1>7, <1>8 DEF IInv

\* A function catches it.
LEMMA KeepsCatch ==
  ASSUME IInv, Catch
  PROVE  IInv'
<1>1. TypeOK /\ StartedInv /\ PositionInv /\ GreenMeansAll
  BY DEF IInv
<1>2. /\ frames # <<>> /\ exc' = "none"
      /\ UNCHANGED <<options, phase, position, frames, running_commands,
                     status, calls, interrupts, started, returned, abandoned>>
  BY DEF Catch, history
<1>3. /\ Sequence \in Seq(STRING) /\ Len(Sequence) \in Nat
      /\ Sequence = <<>> <=> Len(Sequence) = 0
      /\ Len(started) \in Nat
      /\ started = <<>> <=> Len(started) = 0
      /\ Sequence' = Sequence
  BY <1>1, <1>2, SequenceFacts DEF Sequence
<1> HIDE DEF Sequence
<1>5. TypeOK'
  BY <1>1, <1>3, <1>2 DEF TypeOK, Exceptions, Frame
<1>6. StartedInv'
  BY <1>1, <1>3, <1>2 DEF StartedInv, PositionInv, Steady
<1>7. GreenMeansAll'
  BY <1>1, <1>3, <1>2 DEF GreenMeansAll, StartedInv, PositionInv, TypeOK
<1>8. PositionInv'
  BY <1>1, <1>3, <1>2 DEF PositionInv, StartedInv, Steady, TypeOK
<1> QED
  BY <1>5, <1>6, <1>7, <1>8 DEF IInv

\* The names are looked up.
LEMMA KeepsParseArgs ==
  ASSUME IInv, ParseArgs
  PROVE  IInv'
<1>1. TypeOK /\ StartedInv /\ PositionInv /\ GreenMeansAll
  BY DEF IInv
<1>2. /\ phase = "parse"
      /\ \/ phase' = "init" /\ UNCHANGED status
         \/ phase' = "exited" /\ status' = 2
      /\ UNCHANGED <<options, position, frames, running_commands, exc, calls,
                     interrupts, started, returned, abandoned>>
  BY DEF ParseArgs, Exit, history
<1>3. /\ Sequence \in Seq(STRING) /\ Len(Sequence) \in Nat
      /\ Sequence = <<>> <=> Len(Sequence) = 0
      /\ Len(started) \in Nat
      /\ started = <<>> <=> Len(started) = 0
      /\ Sequence' = Sequence
  BY <1>1, <1>2, SequenceFacts DEF Sequence
<1> HIDE DEF Sequence
<1>5. TypeOK'
  BY <1>1, <1>3, <1>2 DEF TypeOK, Exceptions, Frame
<1>6. StartedInv'
  BY <1>1, <1>3, <1>2 DEF StartedInv, PositionInv, Steady
<1>7. GreenMeansAll'
  BY <1>1, <1>3, <1>2 DEF GreenMeansAll, StartedInv, PositionInv, TypeOK
<1>8. PositionInv'
  BY <1>1, <1>3, <1>2 DEF PositionInv, StartedInv, Steady, TypeOK
<1> QED
  BY <1>5, <1>6, <1>7, <1>8 DEF IInv

\* The next command of the sequence but the last is called.
LEMMA KeepsCallPreceding ==
  ASSUME IInv, CallPreceding
  PROVE  IInv'
<1>1. TypeOK /\ StartedInv /\ PositionInv /\ GreenMeansAll
  BY DEF IInv
<1>2. /\ phase = "init" /\ Steady /\ position < Len(Sequence)
      /\ CallByName(Sequence[position])
      /\ UNCHANGED <<options, phase, position, status, calls, interrupts,
                     returned, abandoned>>
  BY DEF CallPreceding
<1>3. /\ Sequence \in Seq(STRING) /\ Len(Sequence) \in Nat
      /\ Sequence = <<>> <=> Len(Sequence) = 0
      /\ Len(started) \in Nat
      /\ started = <<>> <=> Len(started) = 0
      /\ Sequence' = Sequence
  BY <1>1, <1>2, SequenceFacts DEF Sequence
<1> HIDE DEF Sequence
<1>4. \/ /\ frames' \in Seq(Frame) /\ frames' # <<>>
         /\ running_commands' \in Seq(Commands)
         /\ started' \in Seq(Names) /\ Len(started') = position
         /\ \A k \in 1..Len(started') : k <= Len(Sequence) /\ started'[k] = Sequence[k]
         /\ UNCHANGED exc
      \/ exc' = "other" /\ UNCHANGED <<frames, running_commands, started>>
  <2>1. position \in 1..Len(Sequence) /\ Len(started) = position - 1
    BY <1>1, <1>3, <1>2 DEF TypeOK, PositionInv
  <2>2. CallByName(Sequence[position]) /\ options' = options
    BY <1>1, <1>3, <1>2, <2>1 DEF PositionInv, TypeOK
  <2> QED
    BY <1>1, <2>1, <2>2, CallByNameFacts
<1>5. TypeOK'
  BY <1>1, <1>3, <1>2, <1>4 DEF TypeOK, Exceptions, Frame
<1>6. StartedInv'
  BY <1>1, <1>3, <1>2, <1>4 DEF StartedInv, PositionInv, Steady
<1>7. GreenMeansAll'
  BY <1>1, <1>3, <1>2, <1>4 DEF GreenMeansAll, StartedInv, PositionInv, TypeOK
<1>8. PositionInv'
  BY <1>1, <1>3, <1>2, <1>4 DEF PositionInv, StartedInv, Steady, TypeOK
<1> QED
  BY <1>5, <1>6, <1>7, <1>8 DEF IInv

\* The last command is left to run.
LEMMA KeepsSelect ==
  ASSUME IInv, Select
  PROVE  IInv'
<1>1. TypeOK /\ StartedInv /\ PositionInv /\ GreenMeansAll
  BY DEF IInv
<1>2. /\ phase = "init" /\ Steady /\ position >= Len(Sequence)
      /\ \/ phase' = "exited" /\ status' = 2
         \/ phase' = "exited" /\ status' = 0 /\ options.init_only
         \/ phase' = "run" /\ UNCHANGED status
      /\ UNCHANGED <<options, position, frames, running_commands, exc, calls,
                     interrupts, started, returned, abandoned>>
  BY DEF Select, Exit, history
<1>3. /\ Sequence \in Seq(STRING) /\ Len(Sequence) \in Nat
      /\ Sequence = <<>> <=> Len(Sequence) = 0
      /\ Len(started) \in Nat
      /\ started = <<>> <=> Len(started) = 0
      /\ Sequence' = Sequence
  BY <1>1, <1>2, SequenceFacts DEF Sequence
<1> HIDE DEF Sequence
<1>5. TypeOK'
  BY <1>1, <1>3, <1>2 DEF TypeOK, Exceptions, Frame
<1>6. StartedInv'
  BY <1>1, <1>3, <1>2 DEF StartedInv, PositionInv, Steady
<1>7. GreenMeansAll'
  BY <1>1, <1>3, <1>2 DEF GreenMeansAll, StartedInv, PositionInv, TypeOK
<1>8. PositionInv'
  BY <1>1, <1>3, <1>2 DEF PositionInv, StartedInv, Steady, TypeOK
<1> QED
  BY <1>5, <1>6, <1>7, <1>8 DEF IInv

\* The help text, or no command at all.
LEMMA KeepsPrintHelp ==
  ASSUME IInv, PrintHelp
  PROVE  IInv'
<1>1. TypeOK /\ StartedInv /\ PositionInv /\ GreenMeansAll
  BY DEF IInv
<1>2. /\ phase = "run" /\ Steady /\ (options.help \/ Sequence = <<>>)
      /\ phase' = "exited" /\ status' = 0
      /\ UNCHANGED <<options, position, frames, running_commands, exc, calls,
                     interrupts, started, returned, abandoned>>
  BY DEF PrintHelp, Exit, history
<1>3. /\ Sequence \in Seq(STRING) /\ Len(Sequence) \in Nat
      /\ Sequence = <<>> <=> Len(Sequence) = 0
      /\ Len(started) \in Nat
      /\ started = <<>> <=> Len(started) = 0
      /\ Sequence' = Sequence
  BY <1>1, <1>2, SequenceFacts DEF Sequence
<1> HIDE DEF Sequence
<1>4. Sequence = <<>> => started = Sequence /\ returned = 0
  BY <1>1, <1>3, <1>2 DEF PositionInv, TypeOK
<1>5. TypeOK'
  BY <1>1, <1>3, <1>2, <1>4 DEF TypeOK, Exceptions, Frame
<1>6. StartedInv'
  BY <1>1, <1>3, <1>2, <1>4 DEF StartedInv, PositionInv, Steady
<1>7. GreenMeansAll'
  BY <1>1, <1>3, <1>2, <1>4 DEF GreenMeansAll, StartedInv, PositionInv, TypeOK
<1>8. PositionInv'
  BY <1>1, <1>3, <1>2, <1>4 DEF PositionInv, StartedInv, Steady, TypeOK
<1> QED
  BY <1>5, <1>6, <1>7, <1>8 DEF IInv

\* The last command is called.
LEMMA KeepsCallSelected ==
  ASSUME IInv, CallSelected
  PROVE  IInv'
<1>1. TypeOK /\ StartedInv /\ PositionInv /\ GreenMeansAll
  BY DEF IInv
<1>2. /\ phase = "run" /\ Steady /\ Sequence # <<>>
      /\ CallByName(Sequence[Len(Sequence)])
      /\ UNCHANGED <<options, phase, position, status, calls, interrupts,
                     returned, abandoned>>
  BY DEF CallSelected, Last
<1>3. /\ Sequence \in Seq(STRING) /\ Len(Sequence) \in Nat
      /\ Sequence = <<>> <=> Len(Sequence) = 0
      /\ Len(started) \in Nat
      /\ started = <<>> <=> Len(started) = 0
      /\ Sequence' = Sequence
  BY <1>1, <1>2, SequenceFacts DEF Sequence
<1> HIDE DEF Sequence
<1>4. \/ /\ frames' \in Seq(Frame) /\ frames' # <<>>
         /\ running_commands' \in Seq(Commands)
         /\ started' \in Seq(Names) /\ Len(started') = position
         /\ \A k \in 1..Len(started') : k <= Len(Sequence) /\ started'[k] = Sequence[k]
         /\ UNCHANGED exc
      \/ exc' = "other" /\ UNCHANGED <<frames, running_commands, started>>
  <2>1. position \in 1..Len(Sequence) /\ Len(started) = position - 1
    BY <1>1, <1>3, <1>2 DEF TypeOK, PositionInv
  <2>2. CallByName(Sequence[position]) /\ options' = options
    BY <1>1, <1>3, <1>2, <2>1 DEF PositionInv, TypeOK
  <2> QED
    BY <1>1, <2>1, <2>2, CallByNameFacts
<1>5. TypeOK'
  BY <1>1, <1>3, <1>2, <1>4 DEF TypeOK, Exceptions, Frame
<1>6. StartedInv'
  BY <1>1, <1>3, <1>2, <1>4 DEF StartedInv, PositionInv, Steady
<1>7. GreenMeansAll'
  BY <1>1, <1>3, <1>2, <1>4 DEF GreenMeansAll, StartedInv, PositionInv, TypeOK
<1>8. PositionInv'
  BY <1>1, <1>3, <1>2, <1>4 DEF PositionInv, StartedInv, Steady, TypeOK
<1> QED
  BY <1>5, <1>6, <1>7, <1>8 DEF IInv

\* The exception reaches main.
LEMMA KeepsHandle ==
  ASSUME IInv, Handle
  PROVE  IInv'
<1>1. TypeOK /\ StartedInv /\ PositionInv /\ GreenMeansAll
  BY DEF IInv
<1>2. /\ phase \in {"init", "run"} /\ frames = <<>>
      /\ phase' = "exited" /\ status' \in {0, 1}
      /\ status' = 0 => exc \in {"interrupt", "exit0"}
      /\ UNCHANGED <<options, position, frames, running_commands, exc, calls,
                     interrupts, started, returned, abandoned>>
  BY DEF Handle, Exit, StatusAfter, history
<1>3. /\ Sequence \in Seq(STRING) /\ Len(Sequence) \in Nat
      /\ Sequence = <<>> <=> Len(Sequence) = 0
      /\ Len(started) \in Nat
      /\ started = <<>> <=> Len(started) = 0
      /\ Sequence' = Sequence
  BY <1>1, <1>2, SequenceFacts DEF Sequence
<1> HIDE DEF Sequence
<1>5. TypeOK'
  BY <1>1, <1>3, <1>2 DEF TypeOK, Exceptions, Frame
<1>6. StartedInv'
  BY <1>1, <1>3, <1>2 DEF StartedInv, PositionInv, Steady
<1>7. GreenMeansAll'
  BY <1>1, <1>3, <1>2 DEF GreenMeansAll, StartedInv, PositionInv, TypeOK
<1>8. PositionInv'
  BY <1>1, <1>3, <1>2 DEF PositionInv, StartedInv, Steady, TypeOK
<1> QED
  BY <1>5, <1>6, <1>7, <1>8 DEF IInv

\* SIGINT.
LEMMA KeepsSigint ==
  ASSUME IInv, Sigint
  PROVE  IInv'
<1>1. TypeOK /\ StartedInv /\ PositionInv /\ GreenMeansAll
  BY DEF IInv
<1>2. /\ phase # "exited" /\ interrupts' \in 0..MaxInterrupts
      /\ \/ phase' = "exited" /\ status' = 130 /\ UNCHANGED exc /\ phase = "parse"
         \/ exc' = "interrupt" /\ UNCHANGED <<phase, status>> /\ phase # "parse"
      /\ UNCHANGED <<options, position, frames, running_commands, calls,
                     started, returned, abandoned>>
  BY <1>1, CommandAssumption DEF Sigint, Exit, history, TypeOK
<1>3. /\ Sequence \in Seq(STRING) /\ Len(Sequence) \in Nat
      /\ Sequence = <<>> <=> Len(Sequence) = 0
      /\ Len(started) \in Nat
      /\ started = <<>> <=> Len(started) = 0
      /\ Sequence' = Sequence
  BY <1>1, <1>2, SequenceFacts DEF Sequence
<1> HIDE DEF Sequence
<1>5. TypeOK'
  BY <1>1, <1>3, <1>2 DEF TypeOK, Exceptions, Frame
<1>6. StartedInv'
  BY <1>1, <1>3, <1>2 DEF StartedInv, PositionInv, Steady
<1>7. GreenMeansAll'
  BY <1>1, <1>3, <1>2 DEF GreenMeansAll, StartedInv, PositionInv, TypeOK
<1>8. PositionInv'
  BY <1>1, <1>3, <1>2 DEF PositionInv, StartedInv, Steady, TypeOK
<1> QED
  BY <1>5, <1>6, <1>7, <1>8 DEF IInv

-----------------------------------------------------------------------------
(* The theorems                                                            *)

\* No command has been called.
LEMMA InitInv == Init => IInv
<1> SUFFICES ASSUME Init
             PROVE  IInv
  OBVIOUS
<1>1. options \in OptionType
  BY CommandAssumption DEF Init
<1>2. Sequence \in Seq(STRING)
  BY <1>1 DEF OptionType, Sequence
<1>3. Len(Sequence) \in Nat /\ Len(started) = 0
  BY <1>2, LenProperties DEF Init
<1>4. TypeOK
  <2>1. /\ position \in 1..Len(Sequence) + 1 /\ returned \in 0..Len(Sequence)
        /\ calls \in 0..MaxCalls /\ interrupts \in 0..MaxInterrupts
    BY <1>3, CommandAssumption DEF Init
  <2>2. /\ frames \in Seq([command : Commands, parent : BOOLEAN])
        /\ running_commands \in Seq(Commands) /\ started \in Seq(Names)
    BY DEF Init
  <2> QED
    BY <2>1, <2>2 DEF Init, TypeOK, Exceptions
<1>5. StartedInv /\ PositionInv /\ GreenMeansAll
  BY <1>3 DEF Init, StartedInv, PositionInv, Steady, GreenMeansAll
<1> QED
  BY <1>4, <1>5 DEF IInv

\* Every step of a command function, of main and of the user keeps the invariant.
LEMMA NextInv == IInv /\ [Next]_vars => IInv'
<1> SUFFICES ASSUME IInv, [Next]_vars
             PROVE  IInv'
  OBVIOUS
<1>1. CASE Next /\ ~Exited
  BY <1>1, KeepsCallCommand, KeepsCallParent, KeepsReturn, KeepsRaise, KeepsUnwind,
     KeepsCatch, KeepsParseArgs, KeepsCallPreceding, KeepsSelect, KeepsPrintHelp,
     KeepsCallSelected, KeepsHandle, KeepsSigint
  DEF Next
<1>2. CASE UNCHANGED vars
  <2>1. TypeOK' /\ StartedInv'
    BY <1>2 DEF IInv, TypeOK, StartedInv, Sequence, vars, history
  <2>2. PositionInv' /\ GreenMeansAll'
    BY <1>2 DEF IInv, PositionInv, Steady, GreenMeansAll, Sequence, vars, history
  <2> QED
    BY <2>1, <2>2 DEF IInv
<1> QED
  BY <1>1, <1>2 DEF Exited

\* The invariant holds always.
LEMMA Invariance == Spec => []IInv
BY InitInv, NextInv, PTL DEF Spec

\* The state of main, of the command functions and of running_commands keeps its type.
THEOREM TypeCorrect == Spec => []TypeOK
<1>1. IInv => TypeOK
  BY DEF IInv
<1> QED
  BY <1>1, Invariance, PTL

\* An exit status of 0 means that every command of the sequence has returned, unless
\* help or --init-only was asked for, the user interrupted, or a function called exit().
THEOREM GreenIsComplete == Spec => []GreenMeansAll
<1>1. IInv => GreenMeansAll
  BY DEF IInv
<1> QED
  BY <1>1, Invariance, PTL

-----------------------------------------------------------------------------
(* The commands being executed                                             *)

\* A sequence is what is before its last element, and that.
LEMMA FrontShape ==
  ASSUME NEW S, NEW s \in Seq(S), s # <<>>
  PROVE  /\ Front(s) \in Seq(S) /\ Last(s) \in S
         /\ Len(s) \in Nat \ {0} /\ Len(Front(s)) = Len(s) - 1
         /\ \A k \in 1..Len(s) - 1 : Front(s)[k] = s[k]
         /\ s = Append(Front(s), Last(s))
<1>1. Len(s) \in Nat \ {0} /\ \A k \in 1..Len(s) : s[k] \in S
  BY LenProperties, EmptySeq, ElementOfSeq
<1> DEFINE n == Len(s) - 1
<1>2. n \in Nat /\ n + 1 = Len(s) /\ \A k \in 1..n : s[k] \in S
  BY <1>1
<1>3. Front(s) = SubSeq(s, 1, n) /\ Last(s) = s[n + 1]
  BY <1>2 DEF Front, Last
<1>4. /\ \A i \in Nat : SubSeq(s, 1, i) = SubSeq(s, 1, i)
      /\ n + 1 \in 1..Len(s)
  BY <1>1
<1> HIDE DEF n
<1>5. /\ SubSeq(s, 1, n) \in Seq(S)
      /\ Len(SubSeq(s, 1, n)) = IF 1 <= n THEN n - 1 + 1 ELSE 0
      /\ \A k \in 1..n - 1 + 1 : SubSeq(s, 1, n)[k] = s[1 + k - 1]
  BY <1>2, SubSeqProperties
<1>6. /\ Len(Front(s)) = n /\ \A k \in 1..n : Front(s)[k] = s[k]
  BY <1>2, <1>3, <1>5
<1> DEFINE a == Append(Front(s), Last(s))
<1>7. /\ a \in Seq(S) /\ Len(a) = n + 1 /\ Last(s) \in S
      /\ \A k \in 1..n : a[k] = s[k]
      /\ a[n + 1] = s[n + 1]
  <2>1. Front(s) \in Seq(S) /\ Last(s) \in S
    BY <1>1, <1>3, <1>4, <1>5
  <2> QED
    BY <1>3, <1>6, <2>1, AppendProperties
<1>8. \A k \in 1..Len(s) : a[k] = s[k]
  BY <1>2, <1>7
<1>9. s = a
  <2> HIDE DEF a
  <2> QED
    BY <1>2, <1>7, <1>8, SeqEqual
<1> QED
  BY <1>1, <1>2, <1>3, <1>5, <1>6, <1>7, <1>9 DEF n

\* Induction on the numbers up to N, by sets.
LEMMA Ascend ==
  ASSUME NEW N \in Nat, NEW S \in SUBSET (0..N), 0 \in S,
         \A n \in S : n < N => n + 1 \in S
  PROVE  S = 0..N
<1> DEFINE R == (0..N) \ S
           Less == OpToRel(<, Nat)
<1> SUFFICES ASSUME R # {}
             PROVE  FALSE
  OBVIOUS
<1>1. R \in SUBSET Nat
  OBVIOUS
<1>2. \A m, n \in Nat : m < n => <<m, n>> \in Less
  BY DEF OpToRel
<1>3. IsWellFoundedOn(Less, Nat)
  BY NatLessThanWellFounded
<1> HIDE DEF R, Less
<1>4. PICK n \in R : \A m \in R : <<m, n>> \notin Less
  BY <1>1, <1>3, WFMin
<1>5. \A m \in R : ~(m < n)
  BY <1>1, <1>2, <1>4, Zenon
<1>6. n \in (0..N) \ S
  BY <1>4 DEF R
<1>7. n # 0 /\ n - 1 \in 0..N /\ n - 1 < N /\ n - 1 < n
  BY <1>6
<1>8. n - 1 \in S
  BY <1>5, <1>7 DEF R
<1> QED
  BY <1>6, <1>7, <1>8

\* CalledIn is what its definition says.
LEMMA CalledFacts ==
  ASSUME NEW f \in Seq(Frame)
  PROVE  /\ Len(f) \in Nat /\ CalledIn(f)[0] = <<>>
         /\ \A n \in 1..Len(f) :
              CalledIn(f)[n] = IF f[n].parent THEN CalledIn(f)[n - 1]
                               ELSE Append(CalledIn(f)[n - 1], f[n].command)
<1> DEFINE N == Len(f)
           Next1(s, n) == IF f[n].parent THEN s ELSE Append(s, f[n].command)
           Is(g, k) == /\ g = [n \in 0..k |-> g[n]] /\ g[0] = <<>>
                       /\ \A n \in 1..k : g[n] = Next1(g[n - 1], n)
           S == {k \in 0..N : \E g : Is(g, k)}
<1>1. N \in Nat
  BY LenProperties
<1> HIDE DEF N, Next1
<1>2. 0 \in S
  <2> DEFINE g == [n \in 0..0 |-> <<>>]
  <2>1. g = [n \in 0..0 |-> g[n]] /\ g[0] = <<>>
    OBVIOUS
  <2>2. 1..0 = {}
    OBVIOUS
  <2> HIDE DEF g
  <2>3. Is(g, 0)
    BY <2>1, <2>2
  <2>4. \E q : Is(q, 0)
    BY <2>3
  <2>5. 0 \in 0..N
    BY <1>1
  <2> HIDE DEF Is
  <2> QED
    BY <2>4, <2>5
<1>3. ASSUME NEW k \in S, k < N
      PROVE  k + 1 \in S
  <2>1. k \in Nat /\ k + 1 \in 0..N
    <3>1. k \in 0..N
      BY <1>3
    <3> QED
      BY <1>1, <1>3, <3>1
  <2>2. PICK g : Is(g, k)
    BY <1>3
  <2> DEFINE h == [n \in 0..k + 1 |-> IF n = k + 1 THEN Next1(g[k], k + 1) ELSE g[n]]
  <2>3. /\ h = [n \in 0..k + 1 |-> h[n]]
        /\ \A n \in 0..k : h[n] = g[n]
        /\ h[k + 1] = Next1(g[k], k + 1)
    BY <2>1
  <2> HIDE DEF h
  <2>4. h[0] = <<>>
    BY <2>1, <2>2, <2>3
  <2>5. ASSUME NEW n \in 1..k + 1
        PROVE  h[n] = Next1(h[n - 1], n)
    <3>1. n - 1 \in 0..k
      <4> HIDE DEF S, Is
      <4> QED
        BY <2>1
    <3>2. h[n - 1] = g[n - 1]
      BY <2>3, <3>1
    <3>3. CASE n = k + 1
      <4>1. n - 1 = k
        BY <2>1, <3>3
      <4> QED
        BY <2>3, <3>2, <3>3, <4>1
    <3>4. CASE n \in 1..k
      <4>1. n \in 0..k
        BY <2>1, <3>4
      <4>2. h[n] = g[n]
        BY <2>3, <4>1
      <4>3. g[n] = Next1(g[n - 1], n)
        BY <2>2, <3>4
      <4> QED
        BY <3>2, <4>2, <4>3
    <3>5. n = k + 1 \/ n \in 1..k
      <4> HIDE DEF S, Is
      <4> QED
        BY <2>1
    <3> QED
      BY <3>3, <3>4, <3>5
  <2>6. Is(h, k + 1)
    BY <2>3, <2>4, <2>5
  <2> QED
    BY <2>1, <2>6
<1>4. S = 0..N
  <2>1. S \in SUBSET (0..N)
    OBVIOUS
  <2> HIDE DEF S
  <2> QED
    BY <1>1, <1>2, <1>3, <2>1, Ascend
<1>5. PICK g : Is(g, N)
  <2>1. N \in S
    BY <1>1, <1>4
  <2> QED
    BY <2>1
<1> DEFINE Eq(c) == c = [n \in 0..N |-> IF n = 0 THEN <<>> ELSE Next1(c[n - 1], n)]
<1>6. Eq(g)
  BY <1>1, <1>5
<1>7. CalledIn(f) = CHOOSE c : Eq(c)
  BY DEF CalledIn, Next1, N
<1> HIDE DEF Eq
<1>8. Eq(CalledIn(f))
  BY <1>6, <1>7
<1> DEFINE C == CalledIn(f)
<1>9. C = [n \in 0..N |-> IF n = 0 THEN <<>> ELSE Next1(C[n - 1], n)]
  BY <1>8 DEF Eq
<1> HIDE DEF C
<1>10. C[0] = <<>> /\ \A n \in 1..N : C[n] = Next1(C[n - 1], n)
  BY <1>1, <1>9
<1> QED
  BY <1>1, <1>10 DEF C, N, Next1

\* It depends on the functions up to the one asked about only.
LEMMA CalledPrefix ==
  ASSUME NEW f \in Seq(Frame), NEW g \in Seq(Frame), NEW n \in Nat,
         n <= Len(f), n <= Len(g), \A k \in 1..n : f[k] = g[k]
  PROVE  CalledIn(f)[n] = CalledIn(g)[n] /\ CalledIn(f)[n] \in Seq(Commands)
<1> DEFINE P(k) == CalledIn(f)[k] = CalledIn(g)[k] /\ CalledIn(f)[k] \in Seq(Commands)
           S == {k \in 0..n : P(k)}
<1>1. Len(f) \in Nat /\ Len(g) \in Nat
  BY LenProperties
<1>2. 0 \in S
  <2>1. CalledIn(f)[0] = <<>> /\ CalledIn(g)[0] = <<>>
    BY CalledFacts
  <2>2. <<>> \in Seq(Commands) /\ 0 \in 0..n
    BY EmptySeq
  <2> QED
    BY <2>1, <2>2
<1>3. ASSUME NEW k \in S, k < n
      PROVE  k + 1 \in S
  <2>1. /\ k \in Nat /\ k + 1 \in 1..Len(f) /\ k + 1 \in 1..Len(g) /\ k + 1 \in 1..n
        /\ (k + 1) - 1 = k /\ k + 1 \in 0..n
    BY <1>1, <1>3
  <2>2. f[k + 1] = g[k + 1] /\ f[k + 1] \in Frame
    BY <2>1, ElementOfSeq
  <2>3. /\ CalledIn(f)[k + 1] = IF f[k + 1].parent THEN CalledIn(f)[k]
                                ELSE Append(CalledIn(f)[k], f[k + 1].command)
        /\ CalledIn(g)[k + 1] = IF g[k + 1].parent THEN CalledIn(g)[k]
                                ELSE Append(CalledIn(g)[k], g[k + 1].command)
    BY <2>1, CalledFacts
  <2>4. P(k)
    BY <1>3
  <2>5. f[k + 1].command \in Commands
    BY <2>2 DEF Frame
  <2>6. Append(CalledIn(f)[k], f[k + 1].command) \in Seq(Commands)
    BY <2>4, <2>5, AppendProperties
  <2> QED
    BY <2>1, <2>2, <2>3, <2>4, <2>6
<1>4. S = 0..n
  <2>1. S \in SUBSET (0..n)
    OBVIOUS
  <2> HIDE DEF S
  <2> QED
    BY <1>2, <1>3, <2>1, Ascend
<1>5. n \in S
  BY <1>4
<1> QED
  BY <1>5

CalledAll(f) == CalledIn(f)[Len(f)]

\* A function more.
LEMMA CalledPush ==
  ASSUME NEW f \in Seq(Frame), NEW e \in Frame
  PROVE  /\ CalledAll(f) \in Seq(Commands)
         /\ CalledAll(Append(f, e)) = IF e.parent THEN CalledAll(f)
                                      ELSE Append(CalledAll(f), e.command)
<1> DEFINE g == Append(f, e)
           n == Len(f)
<1>1. /\ g \in Seq(Frame) /\ n \in Nat /\ Len(g) = n + 1
      /\ \A k \in 1..n + 1 : g[k] = IF k = n + 1 THEN e ELSE f[k]
  BY AppendFacts
<1> HIDE DEF g, n
<1>2. g[n + 1] = e /\ \A k \in 1..n : g[k] = f[k]
  BY <1>1
<1>3. CalledIn(f)[n] = CalledIn(g)[n] /\ CalledIn(f)[n] \in Seq(Commands)
  <2>1. n <= Len(f)
    BY <1>1 DEF n
  <2>2. n <= Len(g) /\ \A k \in 1..n : f[k] = g[k]
    BY <1>1, <1>2
  <2> QED
    BY <1>1, <2>1, <2>2, CalledPrefix
<1>4. n + 1 \in 1..Len(g) /\ (n + 1) - 1 = n
  BY <1>1
<1>5. CalledIn(g)[n + 1] = IF g[n + 1].parent THEN CalledIn(g)[n]
                           ELSE Append(CalledIn(g)[n], g[n + 1].command)
  BY <1>1, <1>4, CalledFacts
<1> QED
  BY <1>1, <1>2, <1>3, <1>5 DEF CalledAll, g, n

\* A function less.
LEMMA CalledPop ==
  ASSUME NEW f \in Seq(Frame), f # <<>>
  PROVE  /\ CalledAll(Front(f)) \in Seq(Commands)
         /\ CalledAll(f) = IF Last(f).parent THEN CalledAll(Front(f))
                           ELSE Append(CalledAll(Front(f)), Last(f).command)
<1>1. Front(f) \in Seq(Frame) /\ Last(f) \in Frame
  BY FrontFacts
<1>2. f = Append(Front(f), Last(f))
  BY FrontShape
<1> QED
  BY <1>1, <1>2, CalledPush

-----------------------------------------------------------------------------
(* The nesting shown                                                       *)

LEMMA PushNesting ==
  ASSUME TypeOK, NestingShown, NEW c \in Commands, Call(c), abandoned' = abandoned
  PROVE  NestingShown'
<1> DEFINE d == Bound[Name[c]]
           e == [command |-> d, parent |-> FALSE]
<1>1. /\ frames \in Seq(Frame) /\ running_commands \in Seq(Commands)
      /\ abandoned \in Nat
  BY DEF TypeOK, Frame
<1>2. d \in Commands
  BY CommandAssumption
<1>3. e \in Frame /\ ~e.parent /\ e.command = d
  BY <1>2 DEF Frame
<1>4. frames' = Append(frames, e) /\ running_commands' = running_commands \o <<d>>
  BY DEF Call, Listed
<1> HIDE DEF e, d
<1>5. Called \in Seq(Commands) /\ Called' = Append(Called, d)
  BY <1>1, <1>3, <1>4, CalledPush DEF Called, CalledAll
<1>6. /\ Len(Called) \in Nat /\ Len(Called') = Len(Called) + 1
      /\ Called'[Len(Called) + 1] = d
      /\ \A k \in 1..Len(Called) : Called'[k] = Called[k]
  BY <1>2, <1>5, AppendProperties, LenProperties
<1>7. running_commands' = Append(running_commands, d)
  BY <1>1, <1>2, <1>4, AppendIsConcat
<1>8. /\ Len(running_commands) \in Nat /\ running_commands' \in Seq(Commands)
      /\ Len(running_commands') = Len(running_commands) + 1
      /\ running_commands'[Len(running_commands) + 1] = d
      /\ \A k \in 1..Len(running_commands) : running_commands'[k] = running_commands[k]
  BY <1>1, <1>2, <1>7, AppendProperties, LenProperties
<1>9. /\ DOMAIN running_commands = 1..Len(running_commands)
      /\ DOMAIN running_commands' = 1..Len(running_commands')
  BY <1>1, <1>8, LenProperties
<1>10. Len(running_commands) = Len(Called) + abandoned
  BY DEF NestingShown
<1>11. Len(running_commands') = Len(Called') + abandoned'
  BY <1>1, <1>6, <1>8, <1>10
<1>12. ASSUME abandoned' = 0, NEW k \in DOMAIN running_commands'
       PROVE  running_commands'[k] = Called'[k]
  <2>1. Len(running_commands) = Len(Called) /\ k \in 1..Len(Called) + 1
    BY <1>6, <1>8, <1>9, <1>10, <1>12
  <2>2. \A j \in 1..Len(Called) : running_commands[j] = Called[j]
    BY <1>9, <1>12, <2>1 DEF NestingShown
  <2>3. k = Len(Called) + 1 \/ k \in 1..Len(Called)
    BY <1>6, <2>1
  <2> QED
    BY <1>6, <1>8, <2>1, <2>2, <2>3
<1> QED
  BY <1>11, <1>12 DEF NestingShown

\* The innermost function is left.
LEMMA PopNesting ==
  ASSUME TypeOK, NestingShown, frames # <<>>, frames' = Front(frames),
         \/ /\ Last(frames).parent
            /\ running_commands' = running_commands /\ abandoned' = abandoned
         \/ /\ ~Last(frames).parent
            /\ running_commands' = Front(running_commands) /\ abandoned' = abandoned
         \/ /\ ~Last(frames).parent
            /\ running_commands' = running_commands /\ abandoned' = abandoned + 1
  PROVE  NestingShown'
<1> DEFINE d == Last(frames).command
<1>1. /\ frames \in Seq(Frame) /\ running_commands \in Seq(Commands)
      /\ abandoned \in Nat /\ Len(running_commands) \in Nat
      /\ DOMAIN running_commands = 1..Len(running_commands)
  BY LenProperties DEF TypeOK, Frame
<1>2. Last(frames) \in Frame /\ d \in Commands
  <2>1. Last(frames) \in Frame
    BY <1>1, FrontFacts
  <2> QED
    BY <2>1 DEF Frame
<1> HIDE DEF d
<1>3. /\ Called' \in Seq(Commands)
      /\ Called = IF Last(frames).parent THEN Called' ELSE Append(Called', d)
  BY <1>1, CalledPop DEF Called, CalledAll, d
<1>4. Len(running_commands) = Len(Called) + abandoned
  BY DEF NestingShown
<1>5. CASE Last(frames).parent
  BY <1>3, <1>5 DEF NestingShown
<1>6. CASE ~Last(frames).parent
  <2>1. /\ Len(Called') \in Nat /\ Len(Called) = Len(Called') + 1
        /\ \A k \in 1..Len(Called') : Called[k] = Called'[k]
    BY <1>2, <1>3, <1>6, AppendProperties, LenProperties
  <2>2. CASE running_commands' = running_commands /\ abandoned' = abandoned + 1
    BY <1>1, <1>4, <2>1, <2>2 DEF NestingShown
  <2>3. CASE running_commands' = Front(running_commands) /\ abandoned' = abandoned
    <3>1. running_commands # <<>>
      BY <1>1, <1>4, <2>1, EmptySeq
    <3>2. /\ Front(running_commands) \in Seq(Commands)
          /\ Len(Front(running_commands)) = Len(running_commands) - 1
          /\ \A k \in 1..Len(running_commands) - 1 :
               Front(running_commands)[k] = running_commands[k]
      BY <1>1, <3>1, FrontShape
    <3>3. DOMAIN running_commands' = 1..Len(running_commands')
      BY <2>3, <3>2, LenProperties
    <3>4. Len(running_commands') = Len(Called') + abandoned'
      BY <1>1, <1>4, <2>1, <2>3, <3>2
    <3>5. ASSUME abandoned' = 0, NEW k \in DOMAIN running_commands'
          PROVE  running_commands'[k] = Called'[k]
      <4>1. k \in 1..Len(running_commands) - 1 /\ k \in 1..Len(Called')
        BY <1>1, <1>4, <2>1, <2>3, <3>2, <3>3, <3>5
      <4>2. k \in DOMAIN running_commands
        BY <1>1, <4>1
      <4>3. running_commands[k] = Called[k]
        BY <2>3, <3>5, <4>2 DEF NestingShown
      <4> QED
        BY <2>1, <2>3, <3>2, <4>1, <4>3
    <3> QED
      BY <3>4, <3>5 DEF NestingShown
  <2> QED
    BY <1>6, <2>2, <2>3
<1> QED
  BY <1>5, <1>6

\* The function of a parent is not called by __call__.
LEMMA ParentNesting ==
  ASSUME TypeOK, NestingShown, CallParent
  PROVE  NestingShown'
<1>1. /\ frames \in Seq(Frame) /\ frames # <<>>
      /\ UNCHANGED <<running_commands, abandoned>>
  BY DEF TypeOK, Frame, CallParent, MayCall, InFunction, history
<1>2. CASE frames' = frames
  BY <1>1, <1>2 DEF NestingShown, Called
<1>3. CASE frames' # frames
  <2>1. Last(frames) \in Frame
    BY <1>1, FrontFacts
  <2>2. PICK p \in Commands : frames' = Append(frames, [command |-> p, parent |-> TRUE])
    BY <1>3, <2>1, CommandAssumption DEF CallParent, Frame
  <2> DEFINE e == [command |-> p, parent |-> TRUE]
  <2>3. e \in Frame /\ e.parent
    BY DEF Frame
  <2> HIDE DEF e
  <2>4. CalledAll(Append(frames, e)) = CalledAll(frames)
    BY <1>1, <2>3, CalledPush
  <2>5. Called' = Called
    BY <2>2, <2>4 DEF Called, CalledAll, e
  <2> QED
    BY <1>1, <2>5 DEF NestingShown
<1> QED
  BY <1>2, <1>3

LEMMA NextNesting ==
  TypeOK /\ NestingShown /\ [Next]_vars => NestingShown'
<1> SUFFICES ASSUME TypeOK, NestingShown, [Next]_vars
             PROVE  NestingShown'
  OBVIOUS
<1>1. CASE UNCHANGED <<frames, running_commands, abandoned>>
  BY <1>1 DEF NestingShown, Called
<1>2. ASSUME NEW c \in Commands, CallCommand(c)
      PROVE  NestingShown'
  BY <1>2, PushNesting DEF CallCommand, history
<1>3. ASSUME NEW name, CallByName(name), abandoned' = abandoned
      PROVE  NestingShown'
  <2>1. CASE name \in Names /\ Call(Bound[name])
    <3>1. Bound[name] \in Commands
      BY <2>1, CommandAssumption
    <3> QED
      BY <1>3, <2>1, <3>1, PushNesting
  <2>2. CASE UNCHANGED <<frames, running_commands>>
    BY <1>1, <1>3, <2>2
  <2> QED
    BY <1>3, <2>1, <2>2 DEF CallByName
<1>4. CASE CallPreceding \/ CallSelected
  BY <1>3, <1>4 DEF CallPreceding, CallSelected
<1>5. CASE Return
  BY <1>5, PopNesting DEF Return, InFunction
<1>6. CASE Unwind
  BY <1>6, PopNesting DEF Unwind
<1>7. CASE CallParent
  BY <1>7, ParentNesting
<1>8. CASE \/ \E e \in {"error", "other", "exit0", "exit1"} : Raise(e)
           \/ Catch \/ ParseArgs \/ Select \/ PrintHelp \/ Handle \/ Sigint
           \/ Exited \/ UNCHANGED vars
  <2>1. UNCHANGED <<frames, running_commands, abandoned>>
    BY <1>8 DEF Raise, Catch, ParseArgs, Select, PrintHelp, Handle, Sigint, Exited,
       vars, history
  <2> QED
    BY <1>1, <2>1
<1> QED
  BY <1>2, <1>4, <1>5, <1>6, <1>7, <1>8 DEF Next

\* running_commands has an entry for every command being executed and for every one
\* left by an exception, and without such a one lists the commands being executed,
\* however they override, call and catch each other (command.py:402-442).
THEOREM NestingIsShown == Spec => []NestingShown
<1>1. Init => NestingShown
  <2> SUFFICES ASSUME Init
               PROVE  NestingShown
    OBVIOUS
  <2>1. frames = <<>> /\ running_commands = <<>> /\ abandoned = 0
    BY DEF Init
  <2>2. <<>> \in Seq(Frame) /\ Len(<<>>) = 0 /\ DOMAIN <<>> = {}
    BY EmptySeq
  <2>3. Called = <<>>
    BY <2>1, <2>2, CalledFacts DEF Called
  <2> QED
    BY <2>1, <2>2, <2>3 DEF NestingShown
<1> QED
  BY <1>1, NextNesting, TypeCorrect, PTL DEF Spec

=============================================================================
