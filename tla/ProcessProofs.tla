---------------------------- MODULE ProcessProofs ----------------------------
(***************************************************************************)
(* Proofs about plano's process operations, for any set of commands and    *)
(* any number of calls, signals and alarms: type correctness and the four  *)
(* safety invariants of the run.                                           *)
(***************************************************************************)
EXTENDS Process, SequenceTheorems, TLAPS

Started(p) == child[p] \in {"running", "zombie", "reaped"}

\* The operation under way, its process, and what is known of that.
PcInv ==
  /\ pc \in [at : Points, op : {"none", "start", "run", "with", "kill", "stop",
                                "wait", "exit"}, proc : Procs \cup {None}]
  /\ pc.at # "script" => pc.proc \in Procs
  /\ pc.at \in {"fork", "register"} => pc.op \in {"start", "run", "with"}
  /\ pc.at = "fork" => child[pc.proc] = "opened"
  /\ pc.at = "register" =>
       child[pc.proc] \in {"running", "zombie"} /\ pc.proc \notin Range(children)
  /\ pc.at \notin {"script", "fork"} => Started(pc.proc)
  /\ pc.at = "settle" => child[pc.proc] = "reaped" /\ returncode[pc.proc] # None

\* While an exception unwinds the script, only __exit__ is called.
UnwindInv ==
  exc # "none" =>
    pc.at \in {"script", "kill"} /\ (pc.at = "kill" => pc.op = "exit")

\* The processes that the script and _child_processes know have been started;
\* a process that runs unlisted was cut off, or is about to be listed.
ListedInv ==
  /\ \A p \in Procs : p \in held \cup Range(children) => Started(p)
  /\ left \subseteq held
  /\ \A p \in Procs : child[p] = "running" /\ p \notin Range(children) =>
       p \in cut \/ (pc.at = "register" /\ pc.proc = p)

\* The children that a handler has visited.
SweepInv ==
  \A k \in 1..Len(sweep) : \A n \in 1..Len(children) :
    n <= sweep[k] /\ child[children[n]] = "running" => children[n] \in termed

SweptInv ==
  exc = "sigterm" =>
    \A p \in Procs : child[p] = "running" =>
      p \in termed \/ p \in cut \ Range(children)

\* The return code of a process is its status, if it was not lost.
CodeInv ==
  \A p \in Procs :
    /\ returncode[p] # None =>
         /\ child[p] = "reaped"
         /\ returncode[p] = status[p] \/ (p \in lost /\ returncode[p] = 0)
    /\ child[p] = "reaped" /\ returncode[p] = None => p \in lost

SettledInv ==
  /\ \A p \in settled \cup succeeded : child[p] = "reaped"
  /\ \A p \in shown : child[p] = "reaped"

IInv ==
  /\ TypeOK
  /\ PcInv
  /\ UnwindInv
  /\ ListedInv
  /\ SweepInv
  /\ SweptInv
  /\ CodeInv
  /\ SettledInv
  /\ BlocksKill
  /\ CheckedIsTrue
  /\ StashSettled

-----------------------------------------------------------------------------
(* The actions that extend or walk a sequence                              *)

\* PlanoProcess.__init__ appends a process that is not listed yet.
LEMMA KeepsRegister ==
  ASSUME IInv, Register
  PROVE  IInv'
<1> DEFINE p == pc.proc
<1> USE DEF IInv, PcInv, UnwindInv, ListedInv, Started, Register, At, Running, Listed
<1>1. p \in Procs /\ p \notin Range(children) /\ children \in Seq(Procs)
  BY DEF TypeOK
<1>2. /\ children' \in Seq(Procs)
      /\ Len(children') = Len(children) + 1
      /\ children'[Len(children) + 1] = p
      /\ \A n \in 1..Len(children) : children'[n] = children[n]
  BY <1>1, AppendProperties
<1>3. Range(children') = Range(children) \cup {p} /\ IsInjective(children')
  <2>1. Len(children) \in Nat /\ DOMAIN children = 1..Len(children)
        /\ DOMAIN children' = 1..Len(children) + 1
    BY <1>1, <1>2, LenProperties
  <2>2. Range(children') = Range(children) \cup {p}
    BY <1>2, <2>1 DEF Range
  <2>3. \A n \in 1..Len(children) : children[n] # p
    BY <1>1, <2>1 DEF Range
  <2>4. \A m, n \in 1..Len(children) : children[m] = children[n] => m = n
    BY <2>1 DEF TypeOK, IsInjective
  <2>5. IsInjective(children')
    BY <1>2, <2>1, <2>3, <2>4 DEF IsInjective
  <2> QED
    BY <2>2, <2>5
<1>4. /\ pc \in [at : Points, op : {"start", "run", "with"}, proc : Procs]
      /\ \/ pc' = Idle /\ held' = held \cup {p}
         \/ pc' = [pc EXCEPT !.at = "communicate"] /\ held' = held
         \/ pc' = [pc EXCEPT !.at = "enter"] /\ held' = held
  BY <1>1 DEF Goto, BackToScript
<1>5. /\ UNCHANGED <<kernel, returncode, stash, blocks, exc, sweep, phase, bounds,
                     termed, history>>
      /\ pc.at = "register" /\ exc = "none" /\ sweep = <<>> /\ Started(p)
  BY DEF Points
<1> HIDE DEF Register
<1>6. TypeOK'
  <2>1. blocks' \in Seq(held')
    <3>1. blocks \in Seq(held) /\ blocks' = blocks /\ held \subseteq held'
      BY <1>4, <1>5 DEF TypeOK
    <3> QED
      BY <3>1, SeqMonotonic
  <2>2. sweep' \in Seq(0..Len(children'))
    BY <1>5, EmptySeq
  <2>3. pc'.at \in Points /\ pc'.proc \in Procs \cup {None} /\ held' \subseteq Procs
    BY <1>1, <1>4 DEF TypeOK, Points, Idle
  <2> QED
    BY <1>2, <1>3, <1>5, <2>1, <2>2, <2>3 DEF TypeOK, kernel, stash, bounds, history
<1>7. PcInv' /\ UnwindInv'
  BY <1>1, <1>4, <1>5 DEF Points, Idle, kernel
<1>8. ListedInv'
  BY <1>1, <1>3, <1>4, <1>5 DEF Idle, kernel, history
<1>9. SweepInv' /\ SweptInv'
  BY <1>5, EmptySeq DEF SweepInv, SweptInv
<1>10. CodeInv' /\ SettledInv' /\ CheckedIsTrue' /\ StashSettled' /\ BlocksKill'
  BY <1>4, <1>5 DEF CodeInv, SettledInv, CheckedIsTrue, StashSettled, BlocksKill, Ended,
     kernel, stash, history
<1> QED
  BY <1>6, <1>7, <1>8, <1>9, <1>10

\* The handler visits the next child: it has ended, or is terminated.
LEMMA KeepsSweepNext ==
  ASSUME IInv, SweepNext
  PROVE  IInv'
<1> DEFINE top == Len(sweep)
           p == children[sweep[top] + 1]
<1> USE DEF IInv, SweepNext, Poll, SweepHits
<1>1. /\ children \in Seq(Procs) /\ sweep \in Seq(0..Len(children))
      /\ Len(children) \in Nat /\ top \in 1..Len(sweep) /\ top \in Nat
      /\ sweep[top] \in Nat /\ sweep[top] + 1 \in 1..Len(children)
  <2>1. /\ children \in Seq(Procs) /\ sweep \in Seq(0..Len(children))
    BY DEF TypeOK
  <2>2. Len(children) \in Nat /\ top \in Nat \ {0}
    BY <2>1, LenProperties, EmptySeq
  <2>3. sweep[top] \in 0..Len(children)
    BY <2>1, <2>2, ElementOfSeq
  <2> QED
    BY <2>1, <2>2, <2>3
<1>2. p \in Procs
  BY <1>1, ElementOfSeq
<1>3. /\ sweep' \in Seq(0..Len(children))
      /\ Len(sweep') = Len(sweep)
      /\ \A k \in 1..Len(sweep) :
           sweep'[k] = IF k = top THEN sweep[top] + 1 ELSE sweep[k]
  <2>1. sweep' = [sweep EXCEPT ![top] = sweep[top] + 1]
    OBVIOUS
  <2>2. sweep[top] + 1 \in 0..Len(children)
    BY <1>1
  <2> HIDE DEF top
  <2> QED
    BY <1>1, <2>1, <2>2, ExceptSeq
<1> HIDE DEF top, p
<1>4. /\ child' = child /\ returncode' = returncode
      \/ /\ child[p] = "zombie" /\ child' = [child EXCEPT ![p] = "reaped"]
         /\ returncode' = [returncode EXCEPT ![p] = status[p]]
  BY DEF p, top
<1>5. /\ termed' = IF child[p] = "running" THEN termed \cup {p} ELSE termed
      /\ UNCHANGED <<status, children, stash, pc, held, blocks, exc, phase, bounds, history>>
  BY DEF p, top
<1> HIDE DEF SweepNext
<1>6. TypeOK'
  <2>1. child' \in [Procs -> {"unused", "opened", "running", "zombie", "reaped"}]
    BY <1>2, <1>4 DEF TypeOK
  <2>2. returncode' \in [Procs -> ExitCodes \cup {None}]
    BY <1>2, <1>4 DEF TypeOK
  <2> QED
    BY <1>2, <1>3, <1>5, <2>1, <2>2 DEF TypeOK, stash, bounds, history
<1>7. PcInv' /\ UnwindInv' /\ ListedInv'
  <2>1. \A q \in Procs : /\ child[q] # "zombie" => child'[q] = child[q]
                         /\ child[q] = "zombie" => child'[q] \in {"zombie", "reaped"}
                         /\ returncode[q] # None => returncode'[q] # None
    BY <1>2, <1>4, ProcessAssumption DEF TypeOK, CodeInv, ExitCodes, SIGTERM
  <2>2. \A q \in Procs \ Range(children) : child'[q] = child[q]
    <3>1. p \in Range(children)
      BY <1>1, LenProperties DEF p, Range
    <3> QED
      BY <3>1, <1>2, <1>4 DEF TypeOK
  <2> QED
    BY <2>1, <2>2, <1>5 DEF PcInv, UnwindInv, ListedInv, Started, TypeOK, Points, history
<1>8. SweepInv' /\ SweptInv'
  <2>1. \A q \in Procs : child'[q] = "running" => child[q] = "running"
    BY <1>2, <1>4 DEF TypeOK
  <2>2. termed \subseteq termed' /\ (child[p] = "running" => p \in termed')
    BY <1>5
  <2>3. ASSUME NEW k \in 1..Len(sweep'), NEW n \in 1..Len(children), n <= sweep'[k],
               child'[children[n]] = "running"
        PROVE  children[n] \in termed'
    <3>1. children[n] \in Procs
      BY <1>1, ElementOfSeq
    <3>2. n <= sweep[k] \/ children[n] = p
      <4>1. k = top => n <= sweep[top] \/ n = sweep[top] + 1
        BY <1>1, <1>3, <2>3
      <4> QED
        BY <4>1, <1>3, <2>3 DEF p
    <3> QED
      BY <2>1, <2>2, <2>3, <3>1, <3>2, <1>3 DEF SweepInv
  <2> QED
    BY <2>1, <2>2, <2>3, <1>5 DEF SweepInv, SweptInv, history
<1>9. CodeInv' /\ SettledInv' /\ CheckedIsTrue' /\ StashSettled' /\ BlocksKill'
  BY <1>2, <1>4, <1>5, ProcessAssumption
     DEF CodeInv, SettledInv, CheckedIsTrue, StashSettled, BlocksKill, Ended, TypeOK,
         ExitCodes, SIGTERM, stash, history
<1> QED
  BY <1>6, <1>7, <1>8, <1>9

\* The handler has visited all the children, and its exception cuts short what
\* the script was doing.
LEMMA KeepsSweepEnd ==
  ASSUME IInv, SweepEnd
  PROVE  IInv'
<1> USE DEF IInv, SweepEnd, SystemExit, Abandon, Idle
<1>1. SweptInv'
  <2> SUFFICES ASSUME NEW p \in Procs, child[p] = "running"
               PROVE  p \in termed \/ p \in cut' \ Range(children)
    BY DEF SweptInv, kernel, popen
  <2>1. CASE p \in Range(children)
    <3>1. children \in Seq(Procs) /\ sweep \in Seq(0..Len(children))
      BY DEF TypeOK
    <3>2. PICK n \in 1..Len(children) : children[n] = p
      BY <2>1, <3>1, LenProperties DEF Range
    <3>3. Len(sweep) \in 1..Len(sweep) /\ n <= sweep[Len(sweep)]
      BY <3>1, <3>2, LenProperties, EmptySeq
    <3> QED
      BY <3>2, <3>3 DEF SweepInv
  <2>2. CASE p \notin Range(children)
    BY <2>2 DEF ListedInv
  <2> QED
    BY <2>1, <2>2
<1>2. TypeOK'
  BY EmptySeq DEF TypeOK, PcInv, Points, kernel, popen, stash, bounds
<1>3. PcInv' /\ UnwindInv'
  BY DEF PcInv, UnwindInv, Points
<1>4. ListedInv' /\ BlocksKill'
  BY DEF ListedInv, BlocksKill, PcInv, Started, TypeOK, kernel, popen
<1>5. SweepInv'
  BY EmptySeq DEF SweepInv
<1>6. CodeInv' /\ SettledInv' /\ CheckedIsTrue' /\ StashSettled'
  BY DEF CodeInv, SettledInv, CheckedIsTrue, StashSettled, Ended, kernel, popen, stash
<1> QED
  BY <1>1, <1>2, <1>3, <1>4, <1>5, <1>6

\* So does the exception of an alarm, which can also lose a status.
LEMMA KeepsAlarm ==
  ASSUME IInv, Alarm
  PROVE  IInv'
<1> USE DEF IInv, Alarm, Abandon, Idle
<1>1. TypeOK'
  BY EmptySeq, ProcessAssumption DEF TypeOK, PcInv, Points, popen, stash
<1>2. PcInv' /\ UnwindInv' /\ ListedInv' /\ BlocksKill'
  BY DEF PcInv, UnwindInv, Points, ListedInv, BlocksKill, Started, TypeOK, popen
<1>3. SweepInv' /\ SweptInv'
  BY EmptySeq DEF SweepInv, SweptInv
<1>4. CodeInv' /\ SettledInv' /\ CheckedIsTrue' /\ StashSettled'
  BY DEF CodeInv, SettledInv, CheckedIsTrue, StashSettled, PcInv, Ended, TypeOK, popen, stash
<1> QED
  BY <1>1, <1>2, <1>3, <1>4

-----------------------------------------------------------------------------
(* The other actions                                                       *)

\* What the script does: it calls an operation, raises or catches an
\* exception, leaves a block, ends.
LEMMA KeepsScript ==
  ASSUME IInv,
         \/ \E p \in Procs :
              \/ \E op \in {"start", "run", "with"} : Start(p, op)
              \/ Wait(p) \/ Kill(p) \/ Stop(p)
         \/ \E e \in {"error", "exit"} : Raise(e)
         \/ Catch \/ LeaveBlock \/ Finish
  PROVE  IInv'
<1> USE ProcessAssumption DEF IInv, TypeOK, PcInv, UnwindInv, ListedInv, SweepInv, SweptInv,
      CodeInv, SettledInv, BlocksKill, CheckedIsTrue, StashSettled, Points, Started, Ended,
      ExitCodes, SIGTERM, Idle, kernel, popen, stash, bounds, history, Calling, InScript, Running
<1>1. ASSUME NEW p \in Procs, NEW op \in {"start", "run", "with"}, Start(p, op)
      PROVE  IInv'
  BY <1>1, SMTT(15) DEF Start
<1>2. ASSUME NEW p \in Procs, Wait(p)
      PROVE  IInv'
  BY <1>2, SMTT(15) DEF Wait
<1>3. ASSUME NEW p \in Procs, Kill(p)
      PROVE  IInv'
  BY <1>3, SMTT(15) DEF Kill
<1>4. ASSUME NEW p \in Procs, Stop(p)
      PROVE  IInv'
  <2> USE DEF Stop, Poll
  <2>1. TypeOK'
    <3>1. /\ child' \in [Procs -> {"unused", "opened", "running", "zombie", "reaped"}]
          /\ returncode' \in [Procs -> ExitCodes \cup {None}]
      BY <1>4 DEF Poll
    <3>2. pc'.at \in Points /\ pc'.proc \in Procs \cup {None}
      BY <1>4
    <3>3. calls' \in 0..MaxCalls
      BY <1>4
    <3> QED
      BY <1>4, <3>1, <3>2, <3>3
  <2>2. PcInv' /\ UnwindInv' /\ ListedInv'
    BY <1>4, SMTT(15)
  <2>3. SweepInv' /\ SweptInv' /\ CodeInv'
    BY <1>4, SMTT(15)
  <2>4. SettledInv' /\ BlocksKill' /\ CheckedIsTrue' /\ StashSettled'
    BY <1>4, SMTT(15)
  <2> QED
    BY <2>1, <2>2, <2>3, <2>4
<1>5. ASSUME NEW e \in {"error", "exit"}, Raise(e)
      PROVE  IInv'
  BY <1>5, SMTT(15) DEF Raise
<1>6. CASE Catch
  BY <1>6, SMTT(15) DEF Catch
<1>7. CASE LeaveBlock
  BY <1>7, SMTT(15) DEF LeaveBlock, ExitCall
<1>8. CASE Finish
  BY <1>8, SMTT(15) DEF Finish
<1> HIDE DEF IInv
<1> QED
  BY <1>1, <1>2, <1>3, <1>4, <1>5, <1>6, <1>7, <1>8

\* The steps of the operation under way, except the listing of the child.
LEMMA KeepsOperation ==
  ASSUME IInv, Fork \/ EnterBlock \/ Signal \/ Reap \/ Settle \/ TimeOut
  PROVE  IInv'
<1> USE ProcessAssumption DEF IInv, TypeOK, PcInv, UnwindInv, ListedInv, SweepInv, SweptInv,
      CodeInv, SettledInv, BlocksKill, CheckedIsTrue, StashSettled, Points, Started, Ended,
      ExitCodes, SIGTERM, Idle, kernel, popen, stash, bounds, history, At, Running, Goto,
      BackToScript, Throw
<1>1. CASE Fork
  BY <1>1, SMTT(15) DEF Fork
<1>2. CASE EnterBlock
  BY <1>2, SMTT(15) DEF EnterBlock
<1>3. CASE Signal
  <2> USE DEF Signal, Terminate, Poll
  <2>1. TypeOK' /\ PcInv' /\ UnwindInv' /\ ListedInv'
    BY <1>3, SMTT(15)
  <2>2. SweepInv' /\ SweptInv' /\ CodeInv'
    BY <1>3, SMTT(15)
  <2>3. SettledInv' /\ BlocksKill' /\ CheckedIsTrue' /\ StashSettled'
    BY <1>3, SMTT(15)
  <2> QED
    BY <2>1, <2>2, <2>3
<1>4. CASE Reap
  BY <1>4, SMTT(15) DEF Reap
<1>5. CASE Settle
  BY <1>5, SMTT(15) DEF Settle, Removed, Failed
<1>6. CASE TimeOut
  BY <1>6, SMTT(15) DEF TimeOut
<1> HIDE DEF IInv
<1> QED
  BY <1>1, <1>2, <1>3, <1>4, <1>5, <1>6

\* A child ends, a SIGTERM arrives, or nothing happens.
LEMMA KeepsOutside ==
  ASSUME IInv,
         \/ \E p \in Procs : \E code \in ExitCodes : ChildEnds(p, code)
         \/ Sigterm
         \/ UNCHANGED vars
  PROVE  IInv'
<1> USE ProcessAssumption DEF IInv, TypeOK, PcInv, UnwindInv, ListedInv, SweepInv, SweptInv,
      CodeInv, SettledInv, BlocksKill, CheckedIsTrue, StashSettled, Points, Started, Ended,
      ExitCodes, SIGTERM, Idle, kernel, popen, stash, bounds, history, control, vars
<1>1. ASSUME NEW p \in Procs, NEW code \in ExitCodes, ChildEnds(p, code)
      PROVE  IInv'
  BY <1>1, SMTT(15) DEF ChildEnds
<1>2. CASE Sigterm
  BY <1>2, SMTT(15) DEF Sigterm
<1>3. CASE UNCHANGED vars
  BY <1>3, SMTT(15)
<1> HIDE DEF IInv
<1> QED
  BY <1>1, <1>2, <1>3

-----------------------------------------------------------------------------
(* The theorems                                                            *)

\* The invariant holds when plano is loaded: no process, no block, no handler.
LEMMA InitIInv ==
  ASSUME Init
  PROVE  IInv
<1> USE ProcessAssumption, EmptySeq DEF Init, Idle
<1>1. TypeOK
  BY DEF TypeOK, ExitCodes, SIGTERM, Points, IsInjective
<1>2. PcInv /\ UnwindInv /\ ListedInv
  BY DEF PcInv, UnwindInv, ListedInv, Points, Started, Range
<1>3. SweepInv /\ SweptInv /\ CodeInv /\ SettledInv
  BY DEF SweepInv, SweptInv, CodeInv, SettledInv
<1>4. BlocksKill /\ CheckedIsTrue /\ StashSettled
  BY DEF BlocksKill, CheckedIsTrue, StashSettled
<1> QED
  BY <1>1, <1>2, <1>3, <1>4 DEF IInv

\* The inductive invariant holds of every execution.
THEOREM Invariance == Spec => []IInv
<1>1. Init => IInv
  BY InitIInv
<1>2. IInv /\ [Next]_vars => IInv'
  <2> SUFFICES ASSUME IInv, [Next]_vars
               PROVE  IInv'
    OBVIOUS
  <2>1. CASE Register
    BY <2>1, KeepsRegister
  <2>2. CASE SweepNext
    BY <2>2, KeepsSweepNext
  <2>3. CASE SweepEnd
    BY <2>3, KeepsSweepEnd
  <2>4. CASE Alarm
    BY <2>4, KeepsAlarm
  <2> QED
    BY <2>1, <2>2, <2>3, <2>4, KeepsScript, KeepsOperation, KeepsOutside
       DEF Next, Step, Exited
<1> QED
  BY <1>1, <1>2, PTL DEF Spec

\* The state keeps its type: no child is listed twice, a with-block holds only
\* a process that start() has returned (main.py:1291-1310).
THEOREM TypeCorrect == Spec => []TypeOK
<1>1. IInv => TypeOK
  BY DEF IInv
<1> QED
  BY <1>1, Invariance, PTL

\* When SIGTERM has ended the script, every child still running was sent
\* SIGTERM, however many handlers, alarms and starts interleaved
\* (main.py:1322-1329).
THEOREM NoChildSpared == Spec => []SweepSparesNone
<1>1. IInv => SweepSparesNone
  BY DEF IInv, SweptInv, SweepSparesNone
<1> QED
  BY <1>1, Invariance, PTL

\* A child whose with-block has been left has ended, was sent SIGTERM, or lost
\* its __exit__ to a signal handler (main.py:1312-1313).
THEOREM BlocksAlwaysKill == Spec => []BlocksKill
<1>1. IInv => BlocksKill
  BY DEF IInv
<1> QED
  BY <1>1, Invariance, PTL

\* A checking wait() or run() that returns did not hide an exit code greater
\* than 0, unless an alarm lost the status (main.py:1202-1251).
THEOREM ChecksAreTrue == Spec => []CheckedIsTrue
<1>1. IInv => CheckedIsTrue
  BY DEF IInv
<1> QED
  BY <1>1, Invariance, PTL

\* Only the output of a failed command is shown, and a wait that got to its end
\* removed the stash file (main.py:1210-1222).
THEOREM StashAlwaysSettled == Spec => []StashSettled
<1>1. IInv => StashSettled
  BY DEF IInv
<1> QED
  BY <1>1, Invariance, PTL

=============================================================================
