----------------------------- MODULE TimerProofs -----------------------------
(***************************************************************************)
(* Proofs about timed blocks, for any timeouts, any number of timers and   *)
(* any nesting: no stray alarm, a block resumes with what it had left, and *)
(* a timeout has a cause.                                                  *)
(***************************************************************************)
EXTENDS Timer, SequenceTheorems, TLAPS

Starting == {"set_handler", "set_timer"}

Block == [id : Nat \ {0}, timeout : Nat \ {0}, pc : PCs, prevHandler : Nat,
          prevTimeout : Nat \cup {Off}, run : Nat, age : Nat]

TypeInv ==
  /\ blocks \in Seq(Block)
  /\ handler \in Nat /\ started \in Nat /\ clockSteps \in Nat
  /\ itimer \in Nat \cup {Off}
  /\ tripped \in BOOLEAN /\ exc \in BOOLEAN /\ killed \in BOOLEAN

Rest(k) == blocks[k].timeout - blocks[k].run
Overdue(m) == \E k \in 1..m : blocks[k].run >= blocks[k].timeout

\* Blocks are numbered in the order of their start; those that enclose the last
\* one are in their bodies, and the time of a block starts with its alarm.
StackInv ==
  /\ \A k \in 1..Len(blocks) :
       /\ blocks[k].id <= started /\ blocks[k].prevHandler <= started
       /\ blocks[k].run <= blocks[k].timeout
       /\ blocks[k].pc \in Starting => blocks[k].run = 0 /\ blocks[k].prevTimeout = Off
  /\ \A k \in 1..Len(blocks) - 1 : blocks[k].pc = "body"
  /\ \A k \in 2..Len(blocks) : blocks[k - 1].id < blocks[k].id

\* What a block has noted of the enclosing one: a handler of that or of a later
\* block, and an alarm only with a handler; if the handler is that of the
\* enclosing block the alarm is the rest of its time, as it is in any case unless
\* some enclosing block has used up its time.
Noted(k) ==
  /\ blocks[k].prevTimeout # Off => blocks[k].prevHandler # SIG_DFL
  /\ k = 1 /\ clockSteps = 0 => blocks[k].prevTimeout = Off
  /\ k > 1 /\ blocks[k].pc # "set_handler" => blocks[k].prevHandler >= blocks[k - 1].id
  /\ k > 1 /\ blocks[k].pc \notin Starting /\ blocks[k].prevTimeout # Off =>
       /\ blocks[k].prevHandler = blocks[k - 1].id => blocks[k].prevTimeout = Rest(k - 1)
       /\ clockSteps = 0 => blocks[k].prevTimeout = Rest(k - 1) \/ Overdue(k - 1)

NotedInv == \A k \in 1..Len(blocks) : Noted(k)

\* The handler in place is that of the last block, or of one inside it that was
\* cut short.
HandlerInv ==
  /\ handler <= started
  /\ ~Idle =>
       /\ Top.pc \in {"set_timer", "entering"} => handler = Top.id
       /\ Top.pc \in {"body", "restore_handler"} => handler >= Top.id
       /\ Top.pc = "set_handler" /\ Len(blocks) > 1 => handler >= blocks[Len(blocks) - 1].id
       /\ Top.pc = "restore_timer" => handler = Top.prevHandler

\* An alarm that is armed has a handler, before the timer is set and after.
AlarmInv ==
  /\ AlarmHasBlock
  /\ ~Idle /\ itimer # Off =>
       /\ tripped => Top.pc = "entering"
       /\ Top.pc = "set_timer" => Top.prevHandler # SIG_DFL
       /\ Len(blocks) = 1 /\ Top.pc \in Starting => clockSteps > 0

\* A block whose own handler is in place, or noted by the block that is starting
\* inside it, has the rest of its time on the timer.
RestInv ==
  ~Idle /\ itimer # Off =>
    /\ Top.pc \in {"entering", "body", "restore_handler"} /\ handler = Top.id =>
         itimer = Rest(Len(blocks))
    /\ Len(blocks) > 1 =>
         /\ Top.pc = "set_handler" /\ handler = blocks[Len(blocks) - 1].id =>
              itimer = Rest(Len(blocks) - 1)
         /\ Top.pc = "set_timer" /\ Top.prevHandler = blocks[Len(blocks) - 1].id =>
              itimer = Rest(Len(blocks) - 1)

\* An alarm that is armed is due when its owner has used up its time, or some
\* enclosing block has done so already; and one has when an alarm has come.
CauseInv ==
  clockSteps = 0 =>
    /\ tripped => Overdue(Len(blocks))
    /\ tripped /\ itimer # Off => Overdue(Len(blocks) - 1)
    /\ itimer # Off => itimer = Rest(Owner) \/ Overdue(Owner)

IInv ==
  /\ TypeInv
  /\ StackInv
  /\ NotedInv
  /\ HandlerInv
  /\ AlarmInv
  /\ RestInv
  /\ CauseInv

-----------------------------------------------------------------------------
(* Sequences                                                               *)

\* The last block, and the others.
LEMMA BlockFacts ==
  ASSUME TypeInv
  PROVE  /\ Len(blocks) \in Nat
         /\ Idle <=> Len(blocks) = 0
         /\ Top = blocks[Len(blocks)]
         /\ \A k \in 1..Len(blocks) : blocks[k] \in Block
<1>1. blocks \in Seq(Block)
  BY DEF TypeInv
<1>2. \A k \in 1..Len(blocks) : blocks[k] \in Block
  BY <1>1, ElementOfSeq
<1> QED
  BY <1>1, <1>2, LenProperties, EmptySeq DEF Idle, Top, Last

\* Leaving the last block changes no other.
LEMMA PopShape ==
  ASSUME TypeInv, ~Idle
  PROVE  /\ Front(blocks) \in Seq(Block)
         /\ Len(Front(blocks)) = Len(blocks) - 1
         /\ \A k \in 1..Len(blocks) - 1 : Front(blocks)[k] = blocks[k]
<1> DEFINE n == Len(blocks) - 1
<1>1. n \in Nat /\ \A k \in 1..n : blocks[k] \in Block
  BY BlockFacts
<1>2. Front(blocks) = SubSeq(blocks, 1, n)
  BY DEF Front
<1> HIDE DEF n
<1>3. /\ SubSeq(blocks, 1, n) \in Seq(Block)
      /\ Len(SubSeq(blocks, 1, n)) = IF 1 <= n THEN n - 1 + 1 ELSE 0
      /\ \A k \in 1..n - 1 + 1 : SubSeq(blocks, 1, n)[k] = blocks[1 + k - 1]
  BY <1>1, SubSeqProperties
<1>4. /\ Front(blocks) \in Seq(Block)
      /\ Len(Front(blocks)) = n
      /\ \A k \in 1..n : Front(blocks)[k] = blocks[k]
  BY <1>1, <1>2, <1>3
<1> QED
  BY <1>4 DEF n

\* Neither does a step of it.
LEMMA TopShape ==
  ASSUME TypeInv, ~Idle, NEW b \in Block
  PROVE  /\ WithTop(b) \in Seq(Block)
         /\ Len(WithTop(b)) = Len(blocks)
         /\ \A k \in 1..Len(blocks) :
              WithTop(b)[k] = IF k = Len(blocks) THEN b ELSE blocks[k]
<1>1. Len(blocks) \in Nat \ {0}
  BY BlockFacts
<1>2. /\ Front(blocks) \in Seq(Block)
      /\ Len(Front(blocks)) = Len(blocks) - 1
      /\ \A k \in 1..Len(blocks) - 1 : Front(blocks)[k] = blocks[k]
  BY PopShape
<1>3. <<b>> \in Seq(Block) /\ Len(<<b>>) = 1 /\ <<b>>[1] = b
  OBVIOUS
<1> QED
  BY <1>1, <1>2, <1>3, ConcatProperties DEF WithTop

\* The fields of a block.
Typed(b) ==
  /\ b.id \in Nat \ {0} /\ b.timeout \in Nat \ {0} /\ b.run \in Nat /\ b.pc \in PCs
  /\ b.prevHandler \in Nat /\ b.prevTimeout \in Nat \cup {Off}

LEMMA FieldTypes ==
  \A b \in Block : Typed(b)
BY DEF Block, Typed

\* A step of the last block: the sequence of blocks afterwards.
LEMMA TopStep ==
  ASSUME TypeInv, ~Idle, NEW b \in Block, blocks' = WithTop(b)
  PROVE  /\ Len(blocks) \in Nat \ {0} /\ Len(blocks') = Len(blocks)
         /\ ~Idle' /\ Top = blocks[Len(blocks)] /\ Top' = b
         /\ blocks'[Len(blocks)] = b
         /\ \A k \in 1..Len(blocks) : k # Len(blocks) => blocks'[k] = blocks[k]
         /\ \A k \in 1..Len(blocks) : Typed(blocks[k]) /\ Typed(blocks'[k])
         /\ blocks' \in Seq(Block)
<1>1. /\ Len(blocks) \in Nat \ {0} /\ Top = blocks[Len(blocks)]
      /\ \A k \in 1..Len(blocks) : blocks[k] \in Block
  BY BlockFacts
<1>2. /\ blocks' \in Seq(Block) /\ Len(blocks') = Len(blocks)
      /\ \A k \in 1..Len(blocks) :
           blocks'[k] = IF k = Len(blocks) THEN b ELSE blocks[k]
  BY TopShape
<1>3. blocks'[Len(blocks)] = b
  BY <1>1, <1>2
<1>4. ~Idle' /\ Top' = b
  BY <1>1, <1>2, <1>3, EmptySeq DEF Idle, Top, Last
<1>5. \A k \in 1..Len(blocks) : blocks[k] \in Block /\ blocks'[k] \in Block
  BY <1>1, <1>2
<1>6. \A k \in 1..Len(blocks) : Typed(blocks[k]) /\ Typed(blocks'[k])
  BY <1>5, FieldTypes
<1> HIDE DEF Top
<1> QED
  BY <1>1, <1>2, <1>3, <1>4, <1>6

\* The fields of a block that goes on to another step.
LEMMA GotoFields ==
  ASSUME TypeInv, ~Idle, NEW p \in PCs
  PROVE  /\ Goto(p) \in Block
         /\ Goto(p).pc = p /\ Goto(p).id = Top.id /\ Goto(p).timeout = Top.timeout
         /\ Goto(p).prevHandler = Top.prevHandler /\ Goto(p).prevTimeout = Top.prevTimeout
         /\ Goto(p).run = Top.run
<1>1. Top \in Block
  BY BlockFacts
<1>2. Goto(p) = [Top EXCEPT !.pc = p]
  BY DEF Goto
<1> HIDE DEF Top
<1> QED
  BY <1>1, <1>2 DEF Block

\* What the invariant says of the last block, n, and of the one around it.
LEMMA LastBlock ==
  ASSUME IInv, ~Idle, NEW n, n = Len(blocks)
  PROVE  /\ n \in Nat \ {0} /\ Top = blocks[n]
         /\ \A k \in 1..n : Typed(blocks[k])
         /\ Owner = IF Top.pc \in Starting THEN n - 1 ELSE n
         /\ Top.id <= started /\ Top.prevHandler <= started /\ Top.run <= Top.timeout
         /\ Top.pc \in Starting => Top.run = 0 /\ Top.prevTimeout = Off
         /\ n > 1 => blocks[n - 1].id < Top.id /\ blocks[n - 1].pc = "body"
         /\ Noted(n)
<1>1. /\ n \in Nat \ {0} /\ Top = blocks[n]
      /\ \A k \in 1..n : blocks[k] \in Block
  BY BlockFacts DEF IInv
<1>2. \A k \in 1..n : Typed(blocks[k])
  BY <1>1, FieldTypes
<1> HIDE DEF Top
<1>3. Owner = IF Top.pc \in Starting THEN n - 1 ELSE n
  BY DEF Owner, Starting, Idle
<1>4. NotedInv
  BY DEF IInv
<1>5. Noted(n)
  BY <1>1, <1>4 DEF NotedInv
<1>6. StackInv
  BY DEF IInv
<1>7. /\ Top.id <= started /\ Top.prevHandler <= started /\ Top.run <= Top.timeout
      /\ Top.pc \in Starting => Top.run = 0 /\ Top.prevTimeout = Off
  BY <1>1, <1>6 DEF StackInv
<1>8. ASSUME n > 1
      PROVE  blocks[n - 1].id < Top.id /\ blocks[n - 1].pc = "body"
  <2>1. n \in 2..Len(blocks) /\ n - 1 \in 1..Len(blocks) - 1
    BY <1>1, <1>8
  <2> QED
    BY <1>1, <1>6, <2>1 DEF StackInv
<1> QED
  BY <1>1, <1>2, <1>3, <1>5, <1>7, <1>8

\* A step of the last block that neither starts nor stops it keeps the stack, what
\* the other blocks have noted, and who is overdue.
LEMMA TopKeeps ==
  ASSUME IInv, ~Idle, NEW n, n = Len(blocks), NEW b \in Block,
         blocks' = WithTop(b), b.id = Top.id, b.timeout = Top.timeout,
         b.run = Top.run, b.prevHandler <= started,
         b.pc \in Starting => Top.pc \in Starting /\ b.prevTimeout = Off,
         UNCHANGED <<started, clockSteps>>
  PROVE  /\ StackInv'
         /\ Noted(n)' => NotedInv'
         /\ Rest(n)' = Rest(n) /\ (n > 1 => Rest(n - 1)' = Rest(n - 1))
         /\ (Overdue(n)' <=> Overdue(n)) /\ (Overdue(n - 1)' <=> Overdue(n - 1))
         /\ Owner' = IF b.pc \in Starting THEN n - 1 ELSE n
         /\ n \in Nat \ {0} /\ Len(blocks') = n /\ ~Idle' /\ Top' = b /\ Typed(b)
         /\ blocks'[n] = b /\ (n > 1 => blocks'[n - 1] = blocks[n - 1])
         /\ blocks' \in Seq(Block)
<1>1. TypeInv /\ StackInv /\ NotedInv
  BY DEF IInv
<1>2. /\ n \in Nat \ {0} /\ Len(blocks') = n
      /\ ~Idle' /\ Top = blocks[n] /\ Top' = b
      /\ blocks'[n] = b
      /\ \A k \in 1..n : k # n => blocks'[k] = blocks[k]
      /\ \A k \in 1..n : Typed(blocks[k]) /\ Typed(blocks'[k])
      /\ blocks' \in Seq(Block)
  BY <1>1, TopStep
<1>3. Owner' = IF b.pc \in Starting THEN n - 1 ELSE n
  BY <1>2 DEF Owner, Starting, Idle
<1> HIDE DEF Top
<1>4. \A k \in 1..n : /\ blocks'[k].id = blocks[k].id
                      /\ blocks'[k].run = blocks[k].run
                      /\ blocks'[k].timeout = blocks[k].timeout
  BY <1>2
<1>5. StackInv'
  <2>1. \A k \in 1..n : /\ blocks'[k].id <= started
                        /\ blocks'[k].prevHandler <= started
                        /\ blocks'[k].run <= blocks'[k].timeout
    BY <1>1, <1>2, <1>4 DEF StackInv
  <2>2. \A k \in 1..n :
          blocks'[k].pc \in Starting => blocks'[k].run = 0 /\ blocks'[k].prevTimeout = Off
    BY <1>1, <1>2, <1>4 DEF StackInv
  <2>3. \A k \in 1..n - 1 : blocks'[k].pc = "body"
    BY <1>1, <1>2 DEF StackInv
  <2>4. \A k \in 2..n : blocks'[k - 1].id < blocks'[k].id
    BY <1>1, <1>2, <1>4 DEF StackInv
  <2> QED
    BY <1>2, <2>1, <2>2, <2>3, <2>4 DEF StackInv
<1>6. ASSUME Noted(n)' PROVE NotedInv'
  <2>1. \A k \in 1..n : k # n => Noted(k)'
    <3> SUFFICES ASSUME NEW k \in 1..n, k # n
                 PROVE  Noted(k)'
      OBVIOUS
    <3>1. Noted(k)
      BY <1>1 DEF NotedInv
    <3>2. blocks'[k] = blocks[k] /\ (k > 1 => blocks'[k - 1] = blocks[k - 1])
      BY <1>2
    <3>3. k > 1 => Rest(k - 1)' = Rest(k - 1)
      BY <3>2 DEF Rest
    <3>4. k > 1 => (Overdue(k - 1)' <=> Overdue(k - 1))
      BY <1>2 DEF Overdue
    <3> QED
      BY <3>1, <3>2, <3>3, <3>4 DEF Noted
  <2> QED
    BY <1>2, <1>6, <2>1 DEF NotedInv
<1>7. \A k \in 1..n : Rest(k)' = Rest(k)
  BY <1>4 DEF Rest
<1>8. \A m \in 0..n : Overdue(m)' <=> Overdue(m)
  BY <1>2, <1>4 DEF Overdue
<1> QED
  BY <1>2, <1>3, <1>5, <1>6, <1>7, <1>8

\* A block is overdue when none of its time is left.
LEMMA OverdueFacts ==
  ASSUME TypeInv
  PROVE  /\ ~Overdue(0)
         /\ \A k \in 1..Len(blocks) :
              /\ Rest(k) \in Int
              /\ Overdue(k - 1) => Overdue(k)
              /\ Rest(k) = 0 => Overdue(k)
<1>1. Len(blocks) \in Nat /\ \A k \in 1..Len(blocks) : Typed(blocks[k])
  BY BlockFacts, FieldTypes
<1>2. ~Overdue(0)
  BY DEF Overdue
<1>3. ASSUME NEW k \in 1..Len(blocks)
      PROVE  /\ Rest(k) \in Int
             /\ Overdue(k - 1) => Overdue(k)
             /\ Rest(k) = 0 => Overdue(k)
  BY <1>1, <1>3 DEF Overdue, Rest, Typed
<1> QED
  BY <1>2, <1>3

\* signal.signal: the handler it replaces is noted, and the alarm stays.
LEMMA KeepsSetHandler ==
  ASSUME IInv, NEW fires \in BOOLEAN, SetHandler(fires)
  PROVE  IInv'
<1>1. /\ ~Idle /\ Top.pc = "set_handler" /\ ~tripped
      /\ (fires => itimer = 0 /\ handler # SIG_DFL) /\ tripped' = fires
      /\ itimer' = (IF fires THEN Off ELSE itimer) /\ handler' = Top.id
      /\ UNCHANGED <<exc, killed, started, clockSteps>>
  BY DEF SetHandler, At, Idle, Running, MayFire
<1>2. TypeInv /\ HandlerInv /\ AlarmInv /\ RestInv /\ CauseInv
  BY DEF IInv
<1>3. PICK b \in Block :
        /\ b.pc = "set_timer" /\ b.id = Top.id
        /\ b.timeout = Top.timeout /\ b.run = Top.run
        /\ b.prevHandler = handler
        /\ b.prevTimeout = Top.prevTimeout
        /\ blocks' = WithTop(b)
  <2> DEFINE b == [Goto("set_timer") EXCEPT !.prevHandler = handler]
  <2>1. /\ b \in Block
        /\ b.pc = "set_timer" /\ b.id = Top.id
        /\ b.timeout = Top.timeout /\ b.run = Top.run
        /\ b.prevHandler = handler
        /\ b.prevTimeout = Top.prevTimeout
        /\ blocks' = WithTop(b)
    BY <1>1, <1>2, GotoFields DEF PCs, SetHandler, At, Idle, Running, MayFire, Block,
           TypeInv, SIG_DFL, Off
  <2> HIDE DEF b
  <2> QED
    BY <2>1
<1> SUFFICES ASSUME NEW n, n = Len(blocks)
             PROVE  IInv'
  OBVIOUS
<1> HIDE DEF Top, Idle
<1>4. /\ n \in Nat \ {0} /\ Top = blocks[n] /\ Noted(n)
      /\ Typed(Top) /\ (n > 1 => Typed(blocks[n - 1]))
      /\ Owner = IF Top.pc \in Starting THEN n - 1 ELSE n
      /\ Top.id <= started /\ Top.prevHandler <= started /\ Top.run <= Top.timeout
      /\ Top.pc \in Starting => Top.run = 0 /\ Top.prevTimeout = Off
      /\ n > 1 => blocks[n - 1].id < Top.id
  BY <1>1, LastBlock
<1>5. /\ ~Overdue(0) /\ (Overdue(n - 1) => Overdue(n))
      /\ Rest(n) \in Int /\ (Rest(n) = 0 => Overdue(n))
      /\ n > 1 => Rest(n - 1) \in Int /\ (Rest(n - 1) = 0 => Overdue(n - 1))
      /\ Rest(n) = Top.timeout - Top.run
  BY <1>2, <1>4, OverdueFacts DEF Rest
<1>6. /\ b.prevHandler <= started
      /\ b.pc \in Starting => Top.pc \in Starting /\ b.prevTimeout = Off
  BY <1>1, <1>2, <1>3, <1>4 DEF HandlerInv, Starting
<1>7. /\ StackInv'
      /\ Noted(n)' => NotedInv'
      /\ Rest(n)' = Rest(n) /\ (n > 1 => Rest(n - 1)' = Rest(n - 1))
      /\ (Overdue(n)' <=> Overdue(n)) /\ (Overdue(n - 1)' <=> Overdue(n - 1))
      /\ Owner' = IF b.pc \in Starting THEN n - 1 ELSE n
      /\ Len(blocks') = n /\ ~Idle' /\ Top' = b /\ Typed(b)
      /\ blocks'[n] = b /\ (n > 1 => blocks'[n - 1] = blocks[n - 1])
      /\ blocks' \in Seq(Block)
  BY <1>1, <1>3, <1>6, TopKeeps
<1>8. TypeInv'
  BY <1>1, <1>2, <1>4, <1>7 DEF TypeInv, Typed, Off, SIG_DFL
<1>9. NotedInv'
  BY <1>1, <1>2, <1>3, <1>4, <1>5, <1>7 DEF Noted, Starting, HandlerInv, TypeInv, Off
<1>10. HandlerInv'
  BY <1>1, <1>2, <1>3, <1>4, <1>7 DEF HandlerInv, TypeInv, Typed
<1>11. AlarmInv'
  BY <1>1, <1>2, <1>3, <1>4, <1>7
  DEF AlarmInv, AlarmHasBlock, At, Idle, HandlerInv, Noted, Starting, SIG_DFL, Typed, TypeInv
<1>12. RestInv'
  BY <1>1, <1>2, <1>3, <1>4, <1>5, <1>7 DEF RestInv, Typed, HandlerInv
<1>13. CauseInv'
  BY <1>1, <1>2, <1>3, <1>4, <1>5, <1>7 DEF CauseInv, AlarmInv, Starting, Off
<1> QED
  BY <1>7, <1>8, <1>9, <1>10, <1>11, <1>12, <1>13 DEF IInv

\* setitimer: the rest of the enclosing block's time is noted.
LEMMA KeepsSetTimer ==
  ASSUME IInv, NEW fires \in BOOLEAN, SetTimer(fires)
  PROVE  IInv'
<1>1. /\ ~Idle /\ Top.pc = "set_timer" /\ ~tripped
      /\ (fires => itimer = 0 /\ handler # SIG_DFL) /\ tripped' = fires
      /\ itimer' = Top.timeout
      /\ UNCHANGED <<handler, exc, killed, started, clockSteps>>
  BY DEF SetTimer, At, Idle, Running, MayFire, ArmTimer
<1>2. TypeInv /\ HandlerInv /\ AlarmInv /\ RestInv /\ CauseInv
  BY DEF IInv
<1>3. PICK b \in Block :
        /\ b.pc = "entering" /\ b.id = Top.id
        /\ b.timeout = Top.timeout /\ b.run = Top.run
        /\ b.prevHandler = Top.prevHandler
        /\ b.prevTimeout = IF fires THEN Off ELSE itimer
        /\ blocks' = WithTop(b)
  <2> DEFINE b == [Goto("entering") EXCEPT
                              !.prevTimeout = IF fires THEN Off ELSE itimer]
  <2>1. /\ b \in Block
        /\ b.pc = "entering" /\ b.id = Top.id
        /\ b.timeout = Top.timeout /\ b.run = Top.run
        /\ b.prevHandler = Top.prevHandler
        /\ b.prevTimeout = IF fires THEN Off ELSE itimer
        /\ blocks' = WithTop(b)
    BY <1>1, <1>2, GotoFields DEF PCs, SetTimer, At, Idle, Running, MayFire, ArmTimer, Block,
           TypeInv, SIG_DFL, Off
  <2> HIDE DEF b
  <2> QED
    BY <2>1
<1> SUFFICES ASSUME NEW n, n = Len(blocks)
             PROVE  IInv'
  OBVIOUS
<1> HIDE DEF Top, Idle
<1>4. /\ n \in Nat \ {0} /\ Top = blocks[n] /\ Noted(n)
      /\ Typed(Top) /\ (n > 1 => Typed(blocks[n - 1]))
      /\ Owner = IF Top.pc \in Starting THEN n - 1 ELSE n
      /\ Top.id <= started /\ Top.prevHandler <= started /\ Top.run <= Top.timeout
      /\ Top.pc \in Starting => Top.run = 0 /\ Top.prevTimeout = Off
      /\ n > 1 => blocks[n - 1].id < Top.id
  BY <1>1, LastBlock
<1>5. /\ ~Overdue(0) /\ (Overdue(n - 1) => Overdue(n))
      /\ Rest(n) \in Int /\ (Rest(n) = 0 => Overdue(n))
      /\ n > 1 => Rest(n - 1) \in Int /\ (Rest(n - 1) = 0 => Overdue(n - 1))
      /\ Rest(n) = Top.timeout - Top.run
  BY <1>2, <1>4, OverdueFacts DEF Rest
<1>6. /\ b.prevHandler <= started
      /\ b.pc \in Starting => Top.pc \in Starting /\ b.prevTimeout = Off
  BY <1>1, <1>2, <1>3, <1>4 DEF HandlerInv, Starting
<1>7. /\ StackInv'
      /\ Noted(n)' => NotedInv'
      /\ Rest(n)' = Rest(n) /\ (n > 1 => Rest(n - 1)' = Rest(n - 1))
      /\ (Overdue(n)' <=> Overdue(n)) /\ (Overdue(n - 1)' <=> Overdue(n - 1))
      /\ Owner' = IF b.pc \in Starting THEN n - 1 ELSE n
      /\ Len(blocks') = n /\ ~Idle' /\ Top' = b /\ Typed(b)
      /\ blocks'[n] = b /\ (n > 1 => blocks'[n - 1] = blocks[n - 1])
      /\ blocks' \in Seq(Block)
  BY <1>1, <1>3, <1>6, TopKeeps
<1>8. TypeInv'
  BY <1>1, <1>2, <1>4, <1>7 DEF TypeInv, Typed, Off, SIG_DFL
<1>9. NotedInv'
  BY <1>1, <1>2, <1>3, <1>4, <1>5, <1>7 DEF Noted, Starting, AlarmInv, RestInv, CauseInv, Off
<1>10. HandlerInv'
  BY <1>1, <1>2, <1>3, <1>4, <1>7 DEF HandlerInv, TypeInv, Typed
<1>11. AlarmInv'
  BY <1>1, <1>2, <1>3, <1>4, <1>7
  DEF AlarmInv, AlarmHasBlock, At, Idle, HandlerInv, Noted, Starting, SIG_DFL, Typed, TypeInv
<1>12. RestInv'
  BY <1>1, <1>2, <1>3, <1>4, <1>5, <1>7 DEF RestInv, Typed, Starting
<1>13. CauseInv'
  BY <1>1, <1>2, <1>3, <1>4, <1>5, <1>7 DEF CauseInv, AlarmInv, Starting, Off, Typed
<1> QED
  BY <1>7, <1>8, <1>9, <1>10, <1>11, <1>12, <1>13 DEF IInv

\* The body is entered with both in place.
LEMMA KeepsEnterBody ==
  ASSUME IInv, EnterBody
  PROVE  IInv'
<1>1. /\ ~Idle /\ Top.pc = "entering"
      /\ ~tripped
      /\ UNCHANGED <<handler, itimer, tripped, exc, killed, started, clockSteps>>
  BY DEF EnterBody, At, Idle, Running
<1>2. TypeInv /\ HandlerInv /\ AlarmInv /\ RestInv /\ CauseInv
  BY DEF IInv
<1>3. PICK b \in Block :
        /\ b.pc = "body" /\ b.id = Top.id
        /\ b.timeout = Top.timeout /\ b.run = Top.run
        /\ b.prevHandler = Top.prevHandler
        /\ b.prevTimeout = Top.prevTimeout
        /\ blocks' = WithTop(b)
  <2> DEFINE b == Goto("body")
  <2>1. /\ b \in Block
        /\ b.pc = "body" /\ b.id = Top.id
        /\ b.timeout = Top.timeout /\ b.run = Top.run
        /\ b.prevHandler = Top.prevHandler
        /\ b.prevTimeout = Top.prevTimeout
        /\ blocks' = WithTop(b)
    BY <1>1, <1>2, GotoFields DEF PCs, EnterBody, At, Idle, Running
  <2> HIDE DEF b
  <2> QED
    BY <2>1
<1> SUFFICES ASSUME NEW n, n = Len(blocks)
             PROVE  IInv'
  OBVIOUS
<1> HIDE DEF Top, Idle
<1>4. /\ n \in Nat \ {0} /\ Top = blocks[n] /\ Noted(n)
      /\ Typed(Top) /\ (n > 1 => Typed(blocks[n - 1]))
      /\ Owner = IF Top.pc \in Starting THEN n - 1 ELSE n
      /\ Top.id <= started /\ Top.prevHandler <= started /\ Top.run <= Top.timeout
      /\ Top.pc \in Starting => Top.run = 0 /\ Top.prevTimeout = Off
      /\ n > 1 => blocks[n - 1].id < Top.id
  BY <1>1, LastBlock
<1>5. /\ ~Overdue(0) /\ (Overdue(n - 1) => Overdue(n))
      /\ Rest(n) \in Int /\ (Rest(n) = 0 => Overdue(n))
      /\ n > 1 => Rest(n - 1) \in Int /\ (Rest(n - 1) = 0 => Overdue(n - 1))
      /\ Rest(n) = Top.timeout - Top.run
  BY <1>2, <1>4, OverdueFacts DEF Rest
<1>6. /\ b.prevHandler <= started
      /\ b.pc \in Starting => Top.pc \in Starting /\ b.prevTimeout = Off
  BY <1>1, <1>2, <1>3, <1>4 DEF HandlerInv, Starting
<1>7. /\ StackInv'
      /\ Noted(n)' => NotedInv'
      /\ Rest(n)' = Rest(n) /\ (n > 1 => Rest(n - 1)' = Rest(n - 1))
      /\ (Overdue(n)' <=> Overdue(n)) /\ (Overdue(n - 1)' <=> Overdue(n - 1))
      /\ Owner' = IF b.pc \in Starting THEN n - 1 ELSE n
      /\ Len(blocks') = n /\ ~Idle' /\ Top' = b /\ Typed(b)
      /\ blocks'[n] = b /\ (n > 1 => blocks'[n - 1] = blocks[n - 1])
      /\ blocks' \in Seq(Block)
  BY <1>1, <1>3, <1>6, TopKeeps
<1>8. TypeInv'
  BY <1>1, <1>2, <1>4, <1>7 DEF TypeInv, Typed, Off, SIG_DFL
<1>9. NotedInv'
  BY <1>1, <1>2, <1>3, <1>4, <1>5, <1>7 DEF Noted, Starting
<1>10. HandlerInv'
  BY <1>1, <1>2, <1>3, <1>4, <1>7 DEF HandlerInv, TypeInv, Typed
<1>11. AlarmInv'
  BY <1>1, <1>2, <1>3, <1>4, <1>7
  DEF AlarmInv, AlarmHasBlock, At, Idle, HandlerInv, Noted, Starting, SIG_DFL, Typed, TypeInv
<1>12. RestInv'
  BY <1>1, <1>2, <1>3, <1>4, <1>5, <1>7 DEF RestInv, Typed
<1>13. CauseInv'
  BY <1>1, <1>2, <1>3, <1>4, <1>5, <1>7 DEF CauseInv, AlarmInv, Starting, Off
<1> QED
  BY <1>7, <1>8, <1>9, <1>10, <1>11, <1>12, <1>13 DEF IInv

\* The body is left.
LEMMA KeepsLeave ==
  ASSUME IInv, Leave
  PROVE  IInv'
<1>1. /\ ~Idle /\ Top.pc = "body"
      /\ ~tripped
      /\ UNCHANGED <<handler, itimer, tripped, exc, killed, started, clockSteps>>
  BY DEF Leave, At, Idle, Running
<1>2. TypeInv /\ HandlerInv /\ AlarmInv /\ RestInv /\ CauseInv
  BY DEF IInv
<1>3. PICK b \in Block :
        /\ b.pc = "restore_handler" /\ b.id = Top.id
        /\ b.timeout = Top.timeout /\ b.run = Top.run
        /\ b.prevHandler = Top.prevHandler
        /\ b.prevTimeout = Top.prevTimeout
        /\ blocks' = WithTop(b)
  <2> DEFINE b == Goto("restore_handler")
  <2>1. /\ b \in Block
        /\ b.pc = "restore_handler" /\ b.id = Top.id
        /\ b.timeout = Top.timeout /\ b.run = Top.run
        /\ b.prevHandler = Top.prevHandler
        /\ b.prevTimeout = Top.prevTimeout
        /\ blocks' = WithTop(b)
    BY <1>1, <1>2, GotoFields DEF PCs, Leave, At, Idle, Running
  <2> HIDE DEF b
  <2> QED
    BY <2>1
<1> SUFFICES ASSUME NEW n, n = Len(blocks)
             PROVE  IInv'
  OBVIOUS
<1> HIDE DEF Top, Idle
<1>4. /\ n \in Nat \ {0} /\ Top = blocks[n] /\ Noted(n)
      /\ Typed(Top) /\ (n > 1 => Typed(blocks[n - 1]))
      /\ Owner = IF Top.pc \in Starting THEN n - 1 ELSE n
      /\ Top.id <= started /\ Top.prevHandler <= started /\ Top.run <= Top.timeout
      /\ Top.pc \in Starting => Top.run = 0 /\ Top.prevTimeout = Off
      /\ n > 1 => blocks[n - 1].id < Top.id
  BY <1>1, LastBlock
<1>5. /\ ~Overdue(0) /\ (Overdue(n - 1) => Overdue(n))
      /\ Rest(n) \in Int /\ (Rest(n) = 0 => Overdue(n))
      /\ n > 1 => Rest(n - 1) \in Int /\ (Rest(n - 1) = 0 => Overdue(n - 1))
      /\ Rest(n) = Top.timeout - Top.run
  BY <1>2, <1>4, OverdueFacts DEF Rest
<1>6. /\ b.prevHandler <= started
      /\ b.pc \in Starting => Top.pc \in Starting /\ b.prevTimeout = Off
  BY <1>1, <1>2, <1>3, <1>4 DEF HandlerInv, Starting
<1>7. /\ StackInv'
      /\ Noted(n)' => NotedInv'
      /\ Rest(n)' = Rest(n) /\ (n > 1 => Rest(n - 1)' = Rest(n - 1))
      /\ (Overdue(n)' <=> Overdue(n)) /\ (Overdue(n - 1)' <=> Overdue(n - 1))
      /\ Owner' = IF b.pc \in Starting THEN n - 1 ELSE n
      /\ Len(blocks') = n /\ ~Idle' /\ Top' = b /\ Typed(b)
      /\ blocks'[n] = b /\ (n > 1 => blocks'[n - 1] = blocks[n - 1])
      /\ blocks' \in Seq(Block)
  BY <1>1, <1>3, <1>6, TopKeeps
<1>8. TypeInv'
  BY <1>1, <1>2, <1>4, <1>7 DEF TypeInv, Typed, Off, SIG_DFL
<1>9. NotedInv'
  BY <1>1, <1>2, <1>3, <1>4, <1>5, <1>7 DEF Noted, Starting
<1>10. HandlerInv'
  BY <1>1, <1>2, <1>3, <1>4, <1>7 DEF HandlerInv, TypeInv, Typed
<1>11. AlarmInv'
  BY <1>1, <1>2, <1>3, <1>4, <1>7
  DEF AlarmInv, AlarmHasBlock, At, Idle, HandlerInv, Noted, Starting, SIG_DFL, Typed, TypeInv
<1>12. RestInv'
  BY <1>1, <1>2, <1>3, <1>4, <1>5, <1>7 DEF RestInv, Typed
<1>13. CauseInv'
  BY <1>1, <1>2, <1>3, <1>4, <1>5, <1>7 DEF CauseInv, AlarmInv, Starting, Off
<1> QED
  BY <1>7, <1>8, <1>9, <1>10, <1>11, <1>12, <1>13 DEF IInv

\* An alarm in the body.
LEMMA KeepsDeliverInBody ==
  ASSUME IInv, Deliver, handler # SIG_DFL, At("body")
  PROVE  IInv'
<1>1. /\ ~Idle /\ Top.pc = "body"
      /\ tripped' = FALSE /\ exc' = TRUE
      /\ UNCHANGED <<handler, itimer, killed, started, clockSteps>>
  BY DEF Deliver, At, Idle
<1>2. TypeInv /\ HandlerInv /\ AlarmInv /\ RestInv /\ CauseInv
  BY DEF IInv
<1>3. PICK b \in Block :
        /\ b.pc = "restore_handler" /\ b.id = Top.id
        /\ b.timeout = Top.timeout /\ b.run = Top.run
        /\ b.prevHandler = Top.prevHandler
        /\ b.prevTimeout = Top.prevTimeout
        /\ blocks' = WithTop(b)
  <2> DEFINE b == Goto("restore_handler")
  <2>1. /\ b \in Block
        /\ b.pc = "restore_handler" /\ b.id = Top.id
        /\ b.timeout = Top.timeout /\ b.run = Top.run
        /\ b.prevHandler = Top.prevHandler
        /\ b.prevTimeout = Top.prevTimeout
        /\ blocks' = WithTop(b)
    BY <1>1, <1>2, GotoFields DEF PCs, Deliver, At, Idle
  <2> HIDE DEF b
  <2> QED
    BY <2>1
<1> SUFFICES ASSUME NEW n, n = Len(blocks)
             PROVE  IInv'
  OBVIOUS
<1> HIDE DEF Top, Idle
<1>4. /\ n \in Nat \ {0} /\ Top = blocks[n] /\ Noted(n)
      /\ Typed(Top) /\ (n > 1 => Typed(blocks[n - 1]))
      /\ Owner = IF Top.pc \in Starting THEN n - 1 ELSE n
      /\ Top.id <= started /\ Top.prevHandler <= started /\ Top.run <= Top.timeout
      /\ Top.pc \in Starting => Top.run = 0 /\ Top.prevTimeout = Off
      /\ n > 1 => blocks[n - 1].id < Top.id
  BY <1>1, LastBlock
<1>5. /\ ~Overdue(0) /\ (Overdue(n - 1) => Overdue(n))
      /\ Rest(n) \in Int /\ (Rest(n) = 0 => Overdue(n))
      /\ n > 1 => Rest(n - 1) \in Int /\ (Rest(n - 1) = 0 => Overdue(n - 1))
      /\ Rest(n) = Top.timeout - Top.run
  BY <1>2, <1>4, OverdueFacts DEF Rest
<1>6. /\ b.prevHandler <= started
      /\ b.pc \in Starting => Top.pc \in Starting /\ b.prevTimeout = Off
  BY <1>1, <1>2, <1>3, <1>4 DEF HandlerInv, Starting
<1>7. /\ StackInv'
      /\ Noted(n)' => NotedInv'
      /\ Rest(n)' = Rest(n) /\ (n > 1 => Rest(n - 1)' = Rest(n - 1))
      /\ (Overdue(n)' <=> Overdue(n)) /\ (Overdue(n - 1)' <=> Overdue(n - 1))
      /\ Owner' = IF b.pc \in Starting THEN n - 1 ELSE n
      /\ Len(blocks') = n /\ ~Idle' /\ Top' = b /\ Typed(b)
      /\ blocks'[n] = b /\ (n > 1 => blocks'[n - 1] = blocks[n - 1])
      /\ blocks' \in Seq(Block)
  BY <1>1, <1>3, <1>6, TopKeeps
<1>8. TypeInv'
  BY <1>1, <1>2, <1>4, <1>7 DEF TypeInv, Typed, Off, SIG_DFL
<1>9. NotedInv'
  BY <1>1, <1>2, <1>3, <1>4, <1>5, <1>7 DEF Noted, Starting
<1>10. HandlerInv'
  BY <1>1, <1>2, <1>3, <1>4, <1>7 DEF HandlerInv, TypeInv, Typed
<1>11. AlarmInv'
  BY <1>1, <1>2, <1>3, <1>4, <1>7
  DEF AlarmInv, AlarmHasBlock, At, Idle, HandlerInv, Noted, Starting, SIG_DFL, Typed, TypeInv
<1>12. RestInv'
  BY <1>1, <1>2, <1>3, <1>4, <1>5, <1>7 DEF RestInv, Typed
<1>13. CauseInv'
  BY <1>1, <1>2, <1>3, <1>4, <1>5, <1>7 DEF CauseInv, AlarmInv, Starting, Off
<1> QED
  BY <1>7, <1>8, <1>9, <1>10, <1>11, <1>12, <1>13 DEF IInv

\* signal.signal: the handler of the enclosing block is put back.
LEMMA KeepsRestoreHandler ==
  ASSUME IInv, NEW fires \in BOOLEAN, RestoreHandler(fires)
  PROVE  IInv'
<1>1. /\ ~Idle /\ Top.pc = "restore_handler" /\ ~tripped
      /\ (fires => itimer = 0 /\ handler # SIG_DFL) /\ tripped' = fires
      /\ itimer' = (IF fires THEN Off ELSE itimer)
      /\ handler' = Top.prevHandler
      /\ UNCHANGED <<exc, killed, started, clockSteps>>
  BY DEF RestoreHandler, At, Idle, Running, MayFire, PreviousHandler
<1>2. TypeInv /\ HandlerInv /\ AlarmInv /\ RestInv /\ CauseInv
  BY DEF IInv
<1>3. PICK b \in Block :
        /\ b.pc = "restore_timer" /\ b.id = Top.id
        /\ b.timeout = Top.timeout /\ b.run = Top.run
        /\ b.prevHandler = Top.prevHandler
        /\ b.prevTimeout = Top.prevTimeout
        /\ blocks' = WithTop(b)
  <2> DEFINE b == Goto("restore_timer")
  <2>1. /\ b \in Block
        /\ b.pc = "restore_timer" /\ b.id = Top.id
        /\ b.timeout = Top.timeout /\ b.run = Top.run
        /\ b.prevHandler = Top.prevHandler
        /\ b.prevTimeout = Top.prevTimeout
        /\ blocks' = WithTop(b)
    BY <1>1, <1>2, GotoFields DEF PCs, RestoreHandler, At, Idle, Running, MayFire, PreviousHandler
  <2> HIDE DEF b
  <2> QED
    BY <2>1
<1> SUFFICES ASSUME NEW n, n = Len(blocks)
             PROVE  IInv'
  OBVIOUS
<1> HIDE DEF Top, Idle
<1>4. /\ n \in Nat \ {0} /\ Top = blocks[n] /\ Noted(n)
      /\ Typed(Top) /\ (n > 1 => Typed(blocks[n - 1]))
      /\ Owner = IF Top.pc \in Starting THEN n - 1 ELSE n
      /\ Top.id <= started /\ Top.prevHandler <= started /\ Top.run <= Top.timeout
      /\ Top.pc \in Starting => Top.run = 0 /\ Top.prevTimeout = Off
      /\ n > 1 => blocks[n - 1].id < Top.id
  BY <1>1, LastBlock
<1>5. /\ ~Overdue(0) /\ (Overdue(n - 1) => Overdue(n))
      /\ Rest(n) \in Int /\ (Rest(n) = 0 => Overdue(n))
      /\ n > 1 => Rest(n - 1) \in Int /\ (Rest(n - 1) = 0 => Overdue(n - 1))
      /\ Rest(n) = Top.timeout - Top.run
  BY <1>2, <1>4, OverdueFacts DEF Rest
<1>6. /\ b.prevHandler <= started
      /\ b.pc \in Starting => Top.pc \in Starting /\ b.prevTimeout = Off
  BY <1>1, <1>2, <1>3, <1>4 DEF HandlerInv, Starting
<1>7. /\ StackInv'
      /\ Noted(n)' => NotedInv'
      /\ Rest(n)' = Rest(n) /\ (n > 1 => Rest(n - 1)' = Rest(n - 1))
      /\ (Overdue(n)' <=> Overdue(n)) /\ (Overdue(n - 1)' <=> Overdue(n - 1))
      /\ Owner' = IF b.pc \in Starting THEN n - 1 ELSE n
      /\ Len(blocks') = n /\ ~Idle' /\ Top' = b /\ Typed(b)
      /\ blocks'[n] = b /\ (n > 1 => blocks'[n - 1] = blocks[n - 1])
      /\ blocks' \in Seq(Block)
  BY <1>1, <1>3, <1>6, TopKeeps
<1>8. TypeInv'
  BY <1>1, <1>2, <1>4, <1>7 DEF TypeInv, Typed, Off, SIG_DFL
<1>9. NotedInv'
  BY <1>1, <1>2, <1>3, <1>4, <1>5, <1>7 DEF Noted, Starting
<1>10. HandlerInv'
  BY <1>1, <1>2, <1>3, <1>4, <1>7 DEF HandlerInv, TypeInv, Typed
<1>11. AlarmInv'
  BY <1>1, <1>2, <1>3, <1>4, <1>7
  DEF AlarmInv, AlarmHasBlock, At, Idle, HandlerInv, Noted, Starting, SIG_DFL, Typed, TypeInv
<1>12. RestInv'
  BY <1>1, <1>2, <1>3, <1>4, <1>5, <1>7 DEF RestInv, Typed
<1>13. CauseInv'
  BY <1>1, <1>2, <1>3, <1>4, <1>5, <1>7 DEF CauseInv, AlarmInv, Starting, Off
<1> QED
  BY <1>7, <1>8, <1>9, <1>10, <1>11, <1>12, <1>13 DEF IInv

\* When the last block is left, the one around it, whose body goes on, is last.
LEMMA PopKeeps ==
  ASSUME IInv, ~Idle, NEW n, n = Len(blocks), blocks' = Front(blocks),
         started' = started, clockSteps' \in Nat, clockSteps' >= clockSteps
  PROVE  /\ StackInv' /\ NotedInv' /\ blocks' \in Seq(Block)
         /\ n \in Nat \ {0} /\ Len(blocks') = n - 1 /\ (Idle' <=> n = 1)
         /\ n > 1 => /\ Top' = blocks[n - 1] /\ Top'.pc = "body"
                     /\ Rest(n - 1)' = Rest(n - 1) /\ Typed(blocks[n - 1])
                     /\ blocks[n - 1].id < Top.id
         /\ Overdue(n - 1)' <=> Overdue(n - 1)
         /\ n > 1 => Owner' = n - 1
<1>1. TypeInv /\ StackInv /\ NotedInv
  BY DEF IInv
<1>2. /\ n \in Nat \ {0} /\ \A k \in 1..n : Typed(blocks[k])
      /\ n > 1 => blocks[n - 1].id < Top.id /\ blocks[n - 1].pc = "body"
  BY LastBlock
<1>3. /\ blocks' \in Seq(Block) /\ Len(blocks') = n - 1
      /\ \A k \in 1..n - 1 : blocks'[k] = blocks[k]
  BY <1>1, PopShape
<1>4. /\ Idle' <=> n = 1
      /\ n > 1 => Top' = blocks[n - 1]
  BY <1>2, <1>3, EmptySeq DEF Idle, Top, Last
<1>5. n > 1 => Owner' = n - 1
  BY <1>2, <1>3, <1>4 DEF Owner, Idle
<1> HIDE DEF Top, Idle
<1>6. StackInv'
  <2>1. /\ n - 1 \in Nat
        /\ \A k \in 1..n - 1 : k \in 1..n
        /\ \A k \in 1..n - 1 - 1 : k \in 1..n - 1
        /\ \A k \in 2..n - 1 : k \in 2..n /\ k \in 1..n - 1 /\ k - 1 \in 1..n - 1
    BY <1>2
  <2> QED
    BY <1>1, <1>2, <1>3, <2>1 DEF StackInv
<1>7. \A k \in 1..n - 1 : Rest(k)' = Rest(k)
  BY <1>3 DEF Rest
<1>8. \A m \in 0..n - 1 : Overdue(m)' <=> Overdue(m)
  <2> SUFFICES ASSUME NEW m \in 0..n - 1
               PROVE  Overdue(m)' <=> Overdue(m)
    OBVIOUS
  <2>1. \A k \in 1..m : blocks'[k] = blocks[k]
    BY <1>2, <1>3
  <2> QED
    BY <2>1 DEF Overdue
<1>9. NotedInv'
  <2> SUFFICES ASSUME NEW k \in 1..n - 1
               PROVE  Noted(k)'
    BY <1>3 DEF NotedInv
  <2>1. Noted(k)
    BY <1>1, <1>2 DEF NotedInv
  <2>2. blocks'[k] = blocks[k] /\ (k > 1 => blocks'[k - 1] = blocks[k - 1])
    BY <1>2, <1>3
  <2>3. k > 1 => Rest(k - 1)' = Rest(k - 1) /\ (Overdue(k - 1)' <=> Overdue(k - 1))
    BY <1>2, <1>7, <1>8
  <2>4. clockSteps' = 0 => clockSteps = 0
    BY <1>1 DEF TypeInv
  <2> QED
    BY <2>1, <2>2, <2>3, <2>4 DEF Noted
<1> QED
  BY <1>2, <1>3, <1>4, <1>5, <1>6, <1>7, <1>8, <1>9

\* The handler in place when the last block is left is at least that of the block
\* around it.
LEMMA HandlerAround ==
  ASSUME IInv, Len(blocks) > 1
  PROVE  handler >= blocks[Len(blocks) - 1].id
<1> DEFINE n == Len(blocks)
<1>1. ~Idle
  BY BlockFacts DEF IInv
<1>2. /\ n \in Nat \ {0} /\ Top = blocks[n] /\ Noted(n) /\ blocks[n - 1].id < Top.id
      /\ Typed(Top) /\ Typed(blocks[n - 1])
  BY <1>1, LastBlock
<1>3. HandlerInv /\ TypeInv
  BY DEF IInv
<1> HIDE DEF n, Top
<1>4. Top.pc # "set_handler" => Top.prevHandler >= blocks[n - 1].id
  BY <1>2 DEF Noted, n
<1> QED
  BY <1>1, <1>2, <1>3, <1>4 DEF HandlerInv, TypeInv, Typed, PCs, n

\* An alarm that cuts start() or stop() short.
LEMMA KeepsDeliverInCalls ==
  ASSUME IInv, Deliver, handler # SIG_DFL, ~Idle, ~At("body")
  PROVE  IInv'
<1>1. /\ tripped /\ blocks' = Front(blocks) /\ tripped' = FALSE /\ exc' \in BOOLEAN
      /\ UNCHANGED <<handler, itimer, killed, started, clockSteps>>
  BY DEF Deliver, Pop
<1> SUFFICES ASSUME NEW n, n = Len(blocks)
             PROVE  IInv'
  OBVIOUS
<1> HIDE DEF Idle, Top
<1>2. TypeInv /\ HandlerInv /\ AlarmInv /\ RestInv /\ CauseInv
  BY DEF IInv
<1>3. /\ StackInv' /\ NotedInv' /\ blocks' \in Seq(Block)
      /\ n \in Nat \ {0} /\ Len(blocks') = n - 1 /\ (Idle' <=> n = 1)
      /\ n > 1 => /\ Top' = blocks[n - 1] /\ Top'.pc = "body"
                  /\ Rest(n - 1)' = Rest(n - 1) /\ Typed(blocks[n - 1])
                  /\ blocks[n - 1].id < Top.id
      /\ Overdue(n - 1)' <=> Overdue(n - 1)
      /\ n > 1 => Owner' = n - 1
  <2>1. clockSteps' \in Nat /\ clockSteps' >= clockSteps
    BY <1>1, <1>2 DEF TypeInv
  <2> QED
    BY <1>1, <2>1, PopKeeps
<1>4. n > 1 => handler >= blocks[n - 1].id
  BY HandlerAround
<1>5. itimer # Off => handler = Top.id
  BY <1>1, <1>2 DEF AlarmInv, HandlerInv
<1>6. ~Overdue(0)
  BY <1>2, OverdueFacts
<1>7. TypeInv'
  BY <1>1, <1>2, <1>3 DEF TypeInv
<1>8. HandlerInv'
  BY <1>1, <1>2, <1>3, <1>4 DEF HandlerInv
<1>9. AlarmInv'
  <2>1. itimer # Off /\ n = 1 => clockSteps > 0
    BY <1>1, <1>2, <1>6 DEF CauseInv, TypeInv
  <2> QED
    BY <1>1, <1>2, <1>3, <2>1 DEF AlarmInv, AlarmHasBlock, Starting
<1>10. RestInv'
  BY <1>1, <1>2, <1>3, <1>5 DEF RestInv, Typed
<1>11. CauseInv'
  BY <1>1, <1>2, <1>3, <1>6 DEF CauseInv
<1> QED
  BY <1>3, <1>7, <1>8, <1>9, <1>10, <1>11 DEF IInv

\* An assertion that fails because the clock went back.
LEMMA KeepsClockWentBack ==
  ASSUME IInv, ClockWentBack
  PROVE  IInv'
<1>1. /\ ~Idle /\ Top.pc = "restore_handler" /\ ~tripped
      /\ blocks' = Front(blocks) /\ exc' \in BOOLEAN /\ clockSteps' = clockSteps + 1
      /\ UNCHANGED <<handler, itimer, tripped, killed, started>>
  BY DEF ClockWentBack, At, Idle, Running, Pop
<1> SUFFICES ASSUME NEW n, n = Len(blocks)
             PROVE  IInv'
  OBVIOUS
<1> HIDE DEF Idle, Top
<1>2. TypeInv /\ HandlerInv /\ AlarmInv /\ RestInv /\ CauseInv
  BY DEF IInv
<1>3. /\ StackInv' /\ NotedInv' /\ blocks' \in Seq(Block)
      /\ n \in Nat \ {0} /\ Len(blocks') = n - 1 /\ (Idle' <=> n = 1)
      /\ n > 1 => /\ Top' = blocks[n - 1] /\ Top'.pc = "body"
                  /\ Rest(n - 1)' = Rest(n - 1) /\ Typed(blocks[n - 1])
                  /\ blocks[n - 1].id < Top.id
  <2>1. clockSteps' \in Nat /\ clockSteps' >= clockSteps
    BY <1>1, <1>2 DEF TypeInv
  <2> QED
    BY <1>1, <2>1, PopKeeps
<1>4. n > 1 => handler >= blocks[n - 1].id
  BY HandlerAround
<1>5. clockSteps' > 0 /\ Typed(Top)
  BY <1>1, <1>2, LastBlock DEF TypeInv
<1>6. handler >= Top.id /\ handler # SIG_DFL
  BY <1>1, <1>2, <1>5 DEF HandlerInv, TypeInv, Typed, SIG_DFL
<1>7. TypeInv'
  BY <1>1, <1>2, <1>3 DEF TypeInv
<1>8. HandlerInv'
  BY <1>1, <1>2, <1>3, <1>4 DEF HandlerInv
<1>9. AlarmInv'
  BY <1>1, <1>2, <1>3, <1>5, <1>6 DEF AlarmInv, AlarmHasBlock, Starting
<1>10. RestInv'
  <2>1. ASSUME ~Idle'
        PROVE  Top'.pc = "body" /\ handler' # Top'.id
    <3>1. n > 1 /\ Top' = blocks[n - 1] /\ Top'.pc = "body"
      BY <1>3, <2>1
    <3>2. /\ blocks[n - 1].id \in Nat /\ Top.id \in Nat /\ handler \in Nat
          /\ blocks[n - 1].id < Top.id /\ handler' = handler
      BY <1>1, <1>2, <1>3, <1>5, <3>1 DEF Typed, TypeInv
    <3> QED
      BY <1>6, <3>1, <3>2
  <2> QED
    BY <2>1 DEF RestInv
<1>11. CauseInv'
  BY <1>5 DEF CauseInv
<1> QED
  BY <1>3, <1>7, <1>8, <1>9, <1>10, <1>11 DEF IInv

\* setitimer in stop(): the block around resumes with what was noted.
LEMMA KeepsRestoreTimer ==
  ASSUME IInv, NEW fires \in BOOLEAN, RestoreTimer(fires)
  PROVE  IInv'
<1>1. /\ ~Idle /\ Top.pc = "restore_timer" /\ ~tripped
      /\ blocks' = Front(blocks) /\ exc' \in BOOLEAN /\ itimer' = Top.prevTimeout
      /\ UNCHANGED <<handler, tripped, killed, started, clockSteps>>
  BY DEF RestoreTimer, At, Idle, Running, Pop, PreviousTimeout
<1> SUFFICES ASSUME NEW n, n = Len(blocks)
             PROVE  IInv'
  OBVIOUS
<1> HIDE DEF Idle, Top
<1>2. TypeInv /\ HandlerInv /\ AlarmInv /\ RestInv /\ CauseInv
  BY DEF IInv
<1>3. /\ StackInv' /\ NotedInv' /\ blocks' \in Seq(Block)
      /\ n \in Nat \ {0} /\ Len(blocks') = n - 1 /\ (Idle' <=> n = 1)
      /\ n > 1 => /\ Top' = blocks[n - 1] /\ Top'.pc = "body"
                  /\ Rest(n - 1)' = Rest(n - 1) /\ Typed(blocks[n - 1])
                  /\ blocks[n - 1].id < Top.id
      /\ Overdue(n - 1)' <=> Overdue(n - 1)
      /\ n > 1 => Owner' = n - 1
  BY <1>1, <1>2, PopKeeps DEF TypeInv
<1>4. n > 1 => handler >= blocks[n - 1].id
  BY HandlerAround
<1>5. Typed(Top) /\ Top = blocks[n] /\ Noted(n)
  BY <1>1, <1>3, LastBlock
<1>6. /\ handler = Top.prevHandler
      /\ Top.prevTimeout # Off => handler # SIG_DFL
      /\ n = 1 /\ clockSteps = 0 => Top.prevTimeout = Off
      /\ n > 1 /\ Top.prevTimeout # Off =>
           /\ handler = blocks[n - 1].id => Top.prevTimeout = Rest(n - 1)
           /\ clockSteps = 0 => Top.prevTimeout = Rest(n - 1) \/ Overdue(n - 1)
  BY <1>1, <1>2, <1>5 DEF Noted, HandlerInv, Starting
<1>7. TypeInv'
  BY <1>1, <1>2, <1>3, <1>5 DEF TypeInv, Typed
<1>8. HandlerInv'
  BY <1>1, <1>2, <1>3, <1>4 DEF HandlerInv
<1>9. AlarmInv'
  BY <1>1, <1>2, <1>3, <1>6 DEF AlarmInv, AlarmHasBlock, Starting, TypeInv
<1>10. RestInv'
  BY <1>1, <1>2, <1>3, <1>6 DEF RestInv
<1>11. CauseInv'
  BY <1>1, <1>2, <1>3, <1>6 DEF CauseInv
<1> QED
  BY <1>3, <1>7, <1>8, <1>9, <1>10, <1>11 DEF IInv

\* Steps that leave the blocks alone.
LEMMA SameStack ==
  ASSUME StackInv, NotedInv, UNCHANGED <<blocks, started, clockSteps>>
  PROVE  /\ StackInv' /\ NotedInv'
         /\ (Idle' <=> Idle) /\ Top' = Top /\ Len(blocks') = Len(blocks)
         /\ Owner' = Owner
<1>1. StackInv'
  BY DEF StackInv
<1>2. NotedInv'
  BY DEF NotedInv, Noted, Rest, Overdue
<1>3. (Idle' <=> Idle) /\ Top' = Top /\ Owner' = Owner
  BY DEF Idle, Top, Owner
<1> QED
  BY <1>1, <1>2, <1>3

\* An exception is caught, or nothing happens.
LEMMA KeepsCatch ==
  ASSUME IInv, exc' \in BOOLEAN,
         UNCHANGED <<blocks, handler, itimer, tripped, killed, started, clockSteps>>
  PROVE  IInv'
<1>1. StackInv' /\ NotedInv'
  BY SameStack DEF IInv
<1>2. TypeInv'
  BY DEF IInv, TypeInv
<1>3. HandlerInv'
  BY DEF IInv, HandlerInv, Idle, Top
<1>4. AlarmInv'
  BY DEF IInv, AlarmInv, AlarmHasBlock, At, Idle, Top
<1>5. RestInv'
  BY DEF IInv, RestInv, Rest, Idle, Top
<1>6. CauseInv'
  BY DEF IInv, CauseInv, Rest, Overdue, Owner, Idle, Top
<1> QED
  BY <1>1, <1>2, <1>3, <1>4, <1>5, <1>6 DEF IInv

\* An alarm between two calls finds a handler, or ends the process.
LEMMA KeepsFire ==
  ASSUME IInv, Fire
  PROVE  IInv'
<1>1. /\ itimer = 0 /\ itimer' = Off /\ tripped' \in BOOLEAN /\ killed' \in BOOLEAN
      /\ UNCHANGED <<blocks, handler, exc, started, clockSteps>>
  BY DEF Fire, IInv, TypeInv
<1>2. TypeInv /\ StackInv /\ NotedInv /\ HandlerInv /\ AlarmInv /\ CauseInv
  BY DEF IInv
<1>3. /\ StackInv' /\ NotedInv'
      /\ (Idle' <=> Idle) /\ Top' = Top /\ Len(blocks') = Len(blocks)
      /\ Owner' = Owner
  BY <1>1, <1>2, SameStack
<1>4. TypeInv'
  BY <1>1, <1>2 DEF TypeInv
<1>5. HandlerInv'
  BY <1>1, <1>2, <1>3 DEF HandlerInv
<1>6. AlarmInv' /\ RestInv'
  BY <1>1 DEF AlarmInv, AlarmHasBlock, RestInv
<1>7. CauseInv'
  <2>1. CASE clockSteps # 0
    BY <1>1, <2>1 DEF CauseInv
  <2>2. CASE clockSteps = 0
    <3>1. itimer # Off
      BY <1>1 DEF Off
    <3>2. ~Idle
      BY <1>2, <2>2, <3>1 DEF AlarmInv, AlarmHasBlock
    <3> SUFFICES ASSUME NEW n, n = Len(blocks)
                 PROVE  Overdue(n)'
      BY <1>1, <1>3 DEF CauseInv
    <3>3. /\ n \in Nat \ {0}
          /\ Owner = IF Top.pc \in Starting THEN n - 1 ELSE n
      BY <3>2, LastBlock
    <3>4. Owner \in 1..n
      BY <1>2, <2>2, <3>1, <3>2, <3>3 DEF AlarmInv
    <3>5. Rest(Owner) = 0 \/ Overdue(Owner)
      BY <1>1, <1>2, <2>2, <3>1 DEF CauseInv
    <3>6. Overdue(n)
      BY <1>2, <3>3, <3>4, <3>5, OverdueFacts
    <3> QED
      BY <1>1, <3>6 DEF Overdue
  <2> QED
    BY <2>1, <2>2
<1> QED
  BY <1>3, <1>4, <1>5, <1>6, <1>7 DEF IInv

\* Outside all blocks, or after stop() has put back SIG_DFL, nothing is raised.
LEMMA KeepsDeliverNothing ==
  ASSUME IInv, Deliver, UNCHANGED <<blocks, exc>>
  PROVE  IInv'
<1>1. /\ tripped' = FALSE
      /\ UNCHANGED <<blocks, exc, handler, itimer, killed, started, clockSteps>>
  BY DEF Deliver
<1>2. TypeInv /\ StackInv /\ NotedInv /\ HandlerInv /\ AlarmInv /\ RestInv /\ CauseInv
  BY DEF IInv
<1>3. /\ StackInv' /\ NotedInv'
      /\ (Idle' <=> Idle) /\ Top' = Top /\ Len(blocks') = Len(blocks)
      /\ Owner' = Owner
  BY <1>1, <1>2, SameStack
<1>4. TypeInv' /\ HandlerInv'
  BY <1>1, <1>2, <1>3 DEF TypeInv, HandlerInv
<1>5. AlarmInv'
  BY <1>1, <1>2, <1>3 DEF AlarmInv, AlarmHasBlock, At, Idle
<1>6. RestInv'
  BY <1>1, <1>2, <1>3 DEF RestInv, Rest
<1>7. CauseInv'
  BY <1>1, <1>2, <1>3 DEF CauseInv, Rest, Overdue
<1> QED
  BY <1>3, <1>4, <1>5, <1>6, <1>7 DEF IInv

\* A block starts inside a body, or outside all blocks.
LEMMA KeepsStart ==
  ASSUME IInv, NEW timeout \in Timeouts, Start(timeout)
  PROVE  IInv'
<1>1. /\ ~tripped /\ (Idle \/ Top.pc = "body") /\ started' = started + 1
      /\ UNCHANGED <<handler, itimer, tripped, exc, killed, clockSteps>>
  BY DEF Start, Running, At
<1>2. TypeInv /\ StackInv /\ NotedInv /\ HandlerInv /\ AlarmInv /\ RestInv /\ CauseInv
  BY DEF IInv
<1>3. PICK b \in Block :
        /\ b.id = started + 1 /\ b.pc = "set_handler" /\ b.prevHandler = SIG_DFL
        /\ b.prevTimeout = Off /\ b.run = 0 /\ blocks' = Append(blocks, b)
  <2> DEFINE b == [id |-> started + 1, timeout |-> timeout,
                   pc |-> "set_handler", prevHandler |-> SIG_DFL,
                   prevTimeout |-> Off, run |-> 0, age |-> 0]
  <2>1. b \in Block
    BY <1>2, TimerAssumption DEF TypeInv, Block, PCs, SIG_DFL
  <2>2. /\ b.id = started + 1 /\ b.pc = "set_handler" /\ b.prevHandler = SIG_DFL
        /\ b.prevTimeout = Off /\ b.run = 0
    OBVIOUS
  <2>3. blocks' = Append(blocks, b)
    BY DEF Start
  <2> HIDE DEF b
  <2> QED
    BY <2>1, <2>2, <2>3
<1> SUFFICES ASSUME NEW n, n = Len(blocks)
             PROVE  IInv'
  OBVIOUS
<1>4. /\ n \in Nat /\ (Idle <=> n = 0) /\ Top = blocks[n]
      /\ \A k \in 1..n : blocks[k] \in Block
  BY <1>2, BlockFacts
<1>5. /\ blocks' \in Seq(Block) /\ Len(blocks') = n + 1 /\ blocks'[n + 1] = b
      /\ \A k \in 1..n : blocks'[k] = blocks[k]
  BY <1>2, <1>3, <1>4 DEF TypeInv
<1>6. ~Idle' /\ Top' = b
  BY <1>4, <1>5, EmptySeq DEF Idle, Top, Last
<1>7. Owner = n /\ Owner' = n
  BY <1>1, <1>3, <1>4, <1>5, <1>6 DEF Owner, Idle
<1> HIDE DEF Top, Idle
<1>8. (\A k \in 1..n : Typed(blocks[k])) /\ Typed(b)
  BY <1>4, FieldTypes
<1>9. TypeInv'
  BY <1>1, <1>2, <1>5 DEF TypeInv
<1>10. StackInv'
  <2>1. \A k \in 1..n + 1 :
          /\ blocks'[k].id <= started' /\ blocks'[k].prevHandler <= started'
          /\ blocks'[k].run <= blocks'[k].timeout
          /\ blocks'[k].pc \in Starting =>
               blocks'[k].run = 0 /\ blocks'[k].prevTimeout = Off
    <3> SUFFICES ASSUME NEW k \in 1..n + 1
                 PROVE  /\ blocks'[k].id <= started' /\ blocks'[k].prevHandler <= started'
                        /\ blocks'[k].run <= blocks'[k].timeout
                        /\ blocks'[k].pc \in Starting =>
                             blocks'[k].run = 0 /\ blocks'[k].prevTimeout = Off
      OBVIOUS
    <3>1. CASE k = n + 1
      BY <1>1, <1>2, <1>3, <1>5, <1>8, <3>1 DEF TypeInv, Typed, SIG_DFL
    <3>2. CASE k \in 1..n
      <4>1. /\ blocks[k].id <= started /\ blocks[k].prevHandler <= started
            /\ blocks[k].run <= blocks[k].timeout
            /\ blocks[k].pc \in Starting =>
                 blocks[k].run = 0 /\ blocks[k].prevTimeout = Off
        BY <1>2, <3>2 DEF StackInv
      <4>2. blocks[k].id \in Nat /\ blocks[k].prevHandler \in Nat
        BY <1>8, <3>2 DEF Typed
      <4> QED
        BY <1>1, <1>2, <1>5, <3>2, <4>1, <4>2 DEF TypeInv
    <3> QED
      BY <1>4, <3>1, <3>2
  <2>2. \A k \in 1..n : blocks'[k].pc = "body"
    BY <1>1, <1>2, <1>4, <1>5 DEF StackInv
  <2>3. \A k \in 2..n + 1 : blocks'[k - 1].id < blocks'[k].id
    <3> SUFFICES ASSUME NEW k \in 2..n + 1
                 PROVE  blocks'[k - 1].id < blocks'[k].id
      OBVIOUS
    <3>1. CASE k = n + 1
      <4>1. n \in 1..n
        BY <1>4, <3>1
      <4>2. blocks[n].id <= started /\ blocks[n].id \in Nat
        BY <1>2, <1>8, <4>1 DEF StackInv, Typed
      <4> QED
        BY <1>2, <1>3, <1>4, <1>5, <3>1, <4>1, <4>2 DEF TypeInv
    <3>2. CASE k \in 2..n
      BY <1>2, <1>4, <1>5, <3>2 DEF StackInv
    <3> QED
      BY <1>4, <3>1, <3>2
  <2> QED
    BY <1>4, <1>5, <2>1, <2>2, <2>3 DEF StackInv
<1>11. \A k \in 1..n : Rest(k)' = Rest(k)
  BY <1>5 DEF Rest
<1>12. \A m \in 0..n : Overdue(m)' <=> Overdue(m)
  <2> SUFFICES ASSUME NEW m \in 0..n
               PROVE  Overdue(m)' <=> Overdue(m)
    OBVIOUS
  <2>1. \A k \in 1..m : blocks'[k] = blocks[k]
    BY <1>4, <1>5
  <2> QED
    BY <2>1 DEF Overdue
<1>13. NotedInv'
  <2> SUFFICES ASSUME NEW k \in 1..n + 1
               PROVE  Noted(k)'
    BY <1>5 DEF NotedInv
  <2>1. CASE k = n + 1
    BY <1>3, <1>5, <2>1 DEF Noted, Starting
  <2>2. CASE k \in 1..n
    <3>1. Noted(k)
      BY <1>2, <2>2 DEF NotedInv
    <3>2. blocks'[k] = blocks[k] /\ (k > 1 => blocks'[k - 1] = blocks[k - 1])
      BY <1>4, <1>5, <2>2
    <3>3. k > 1 => Rest(k - 1)' = Rest(k - 1) /\ (Overdue(k - 1)' <=> Overdue(k - 1))
      BY <1>4, <1>11, <1>12, <2>2
    <3> QED
      BY <1>1, <3>1, <3>2, <3>3 DEF Noted
  <2> QED
    BY <1>4, <2>1, <2>2
<1>14. n > 0 => Top.pc = "body" /\ blocks'[n] = Top /\ Typed(Top)
  BY <1>1, <1>4, <1>5, <1>8
<1>15. HandlerInv'
  BY <1>1, <1>2, <1>3, <1>4, <1>5, <1>6, <1>14 DEF HandlerInv, TypeInv
<1>16. AlarmInv'
  <2>1. itimer # Off => (n = 0 => clockSteps > 0) /\ handler # SIG_DFL
    BY <1>1, <1>2, <1>4 DEF AlarmInv, AlarmHasBlock, At, Idle
  <2> QED
    BY <1>1, <1>3, <1>4, <1>5, <1>6, <2>1 DEF AlarmInv, AlarmHasBlock
<1>17. RestInv'
  BY <1>1, <1>2, <1>3, <1>4, <1>5, <1>6, <1>11, <1>14 DEF RestInv
<1>18. CauseInv'
  <2>1. itimer # Off /\ clockSteps = 0 => n # 0
    BY <1>2, <1>4 DEF AlarmInv, AlarmHasBlock, TypeInv
  <2> QED
    BY <1>1, <1>2, <1>4, <1>5, <1>7, <1>11, <1>12, <2>1 DEF CauseInv
<1> QED
  BY <1>9, <1>10, <1>13, <1>15, <1>16, <1>17, <1>18 DEF IInv

\* A tick: the block whose alarm is armed has one less left, the others have what
\* they had.
LEMMA TickShape ==
  ASSUME TypeInv, Tick
  PROVE  /\ blocks' \in Seq(Block) /\ Len(blocks') = Len(blocks)
         /\ \A k \in 1..Len(blocks) :
              /\ blocks'[k].id = blocks[k].id /\ blocks'[k].pc = blocks[k].pc
              /\ blocks'[k].timeout = blocks[k].timeout
              /\ blocks'[k].prevHandler = blocks[k].prevHandler
              /\ blocks'[k].prevTimeout = blocks[k].prevTimeout
              /\ blocks'[k].run = IF k = Owner THEN UpTo(blocks[k].timeout, blocks[k].run + 1)
                                               ELSE blocks[k].run
<1> DEFINE After(k) ==
      [blocks[k] EXCEPT
         !.age = IF k <= Owner THEN UpTo(blocks[k].timeout + 1, @ + 1) ELSE @,
         !.run = IF k = Owner THEN UpTo(blocks[k].timeout, @ + 1) ELSE @]
<1> SUFFICES ASSUME NEW n, n = Len(blocks)
             PROVE  /\ blocks' \in Seq(Block) /\ Len(blocks') = n
                    /\ \A k \in 1..n :
                         /\ blocks'[k].id = blocks[k].id /\ blocks'[k].pc = blocks[k].pc
                         /\ blocks'[k].timeout = blocks[k].timeout
                         /\ blocks'[k].prevHandler = blocks[k].prevHandler
                         /\ blocks'[k].prevTimeout = blocks[k].prevTimeout
                         /\ blocks'[k].run =
                              IF k = Owner THEN UpTo(blocks[k].timeout, blocks[k].run + 1)
                                           ELSE blocks[k].run
  OBVIOUS
<1>1. /\ n \in Nat /\ DOMAIN blocks = 1..n
      /\ \A k \in 1..n : blocks[k] \in Block
  BY BlockFacts DEF TypeInv
<1>2. blocks' = [k \in 1..n |-> After(k)]
  BY <1>1 DEF Tick
<1>3. ASSUME NEW k \in 1..n
      PROVE  /\ After(k) \in Block
             /\ After(k).id = blocks[k].id /\ After(k).pc = blocks[k].pc
             /\ After(k).timeout = blocks[k].timeout
             /\ After(k).prevHandler = blocks[k].prevHandler
             /\ After(k).prevTimeout = blocks[k].prevTimeout
             /\ After(k).run = IF k = Owner THEN UpTo(blocks[k].timeout, blocks[k].run + 1)
                                            ELSE blocks[k].run
  <2>1. blocks[k] \in Block
    BY <1>1
  <2>2. /\ UpTo(blocks[k].timeout + 1, blocks[k].age + 1) \in Nat
        /\ UpTo(blocks[k].timeout, blocks[k].run + 1) \in Nat
    BY <2>1 DEF Block, UpTo
  <2> QED
    BY <2>1, <2>2 DEF Block
<1> HIDE DEF After
<1>4. blocks' \in [1..n -> Block]
  BY <1>2, <1>3
<1>5. blocks' \in Seq(Block) /\ Len(blocks') = n
  <2>1. blocks' \in Seq(Block)
    BY <1>1, <1>4, SeqDef
  <2>2. DOMAIN blocks' = 1..n /\ DOMAIN blocks' = 1..Len(blocks') /\ Len(blocks') \in Nat
    BY <1>4, <2>1, LenProperties
  <2> QED
    BY <1>1, <2>1, <2>2
<1> QED
  BY <1>2, <1>3, <1>5

\* A tick keeps the invariant: who is overdue stays so, and the alarm comes closer
\* as its owner uses up its time.
LEMMA KeepsTick ==
  ASSUME IInv, Tick
  PROVE  IInv'
<1> SUFFICES ASSUME NEW n, n = Len(blocks)
             PROVE  IInv'
  OBVIOUS
<1>1. TypeInv /\ StackInv /\ NotedInv /\ HandlerInv /\ AlarmInv /\ RestInv /\ CauseInv
  BY DEF IInv
<1>2. /\ itimer # 0 /\ (~Idle \/ itimer # Off) /\ ~tripped
      /\ itimer' = IF itimer = Off THEN Off ELSE itimer - 1
      /\ UNCHANGED <<handler, tripped, exc, killed, started, clockSteps>>
  BY DEF Tick, Running
<1>3. /\ n \in Nat /\ (Idle <=> n = 0) /\ Top = blocks[n]
      /\ \A k \in 1..n : blocks[k] \in Block
  BY <1>1, BlockFacts
<1>4. /\ blocks' \in Seq(Block) /\ Len(blocks') = n
      /\ \A k \in 1..n :
           /\ blocks'[k].id = blocks[k].id /\ blocks'[k].pc = blocks[k].pc
           /\ blocks'[k].timeout = blocks[k].timeout
           /\ blocks'[k].prevHandler = blocks[k].prevHandler
           /\ blocks'[k].prevTimeout = blocks[k].prevTimeout
           /\ blocks'[k].run = IF k = Owner THEN UpTo(blocks[k].timeout, blocks[k].run + 1)
                                            ELSE blocks[k].run
  BY <1>1, TickShape
<1>5. (Idle' <=> n = 0) /\ Top' = blocks'[n]
  BY <1>3, <1>4, EmptySeq DEF Idle, Top, Last
<1>6. /\ Owner = IF n > 0 /\ Top.pc \in Starting THEN n - 1 ELSE n
      /\ Owner' = Owner
  BY <1>3, <1>4, <1>5 DEF Owner, Idle, Starting
<1> HIDE DEF Top, Idle, Owner
<1>7. \A k \in 1..n : Typed(blocks[k])
  BY <1>3, FieldTypes
<1>8. \A k \in 1..n :
        /\ Rest(k)' = IF k = Owner /\ Rest(k) # 0 THEN Rest(k) - 1 ELSE Rest(k)
        /\ Rest(k) \in Nat
        /\ blocks'[k].run \in Nat /\ blocks'[k].run <= blocks'[k].timeout
        /\ blocks'[k].run >= blocks[k].run
  <2> SUFFICES ASSUME NEW k \in 1..n
               PROVE  /\ Rest(k)' = IF k = Owner /\ Rest(k) # 0 THEN Rest(k) - 1 ELSE Rest(k)
                      /\ Rest(k) \in Nat
                      /\ blocks'[k].run \in Nat /\ blocks'[k].run <= blocks'[k].timeout
                      /\ blocks'[k].run >= blocks[k].run
    OBVIOUS
  <2>1. blocks[k].run <= blocks[k].timeout
    BY <1>1 DEF StackInv
  <2>2. blocks[k].run \in Nat /\ blocks[k].timeout \in Nat
    BY <1>7 DEF Typed
  <2>3. /\ Rest(k) = blocks[k].timeout - blocks[k].run
        /\ Rest(k)' = blocks[k].timeout - blocks'[k].run
        /\ blocks'[k].timeout = blocks[k].timeout
    BY <1>4 DEF Rest
  <2>4. CASE k = Owner
    <3>1. blocks'[k].run = UpTo(blocks[k].timeout, blocks[k].run + 1)
      BY <1>4, <2>4
    <3>2. CASE blocks[k].run = blocks[k].timeout
      <4>1. blocks'[k].run = blocks[k].timeout
        BY <2>2, <3>1, <3>2 DEF UpTo
      <4> QED
        BY <2>2, <2>3, <2>4, <3>2, <4>1
    <3>3. CASE blocks[k].run < blocks[k].timeout
      <4>1. blocks'[k].run = blocks[k].run + 1
        BY <2>2, <3>1, <3>3 DEF UpTo
      <4> QED
        BY <2>2, <2>3, <2>4, <3>3, <4>1
    <3> QED
      BY <2>1, <2>2, <3>2, <3>3
  <2>5. CASE k # Owner
    <3>1. blocks'[k].run = blocks[k].run
      BY <1>4, <2>5
    <3> QED
      BY <2>1, <2>2, <2>3, <2>5, <3>1
  <2> QED
    BY <2>4, <2>5
<1>9. \A m \in 0..n : Overdue(m) => Overdue(m)'
  <2> SUFFICES ASSUME NEW m \in 0..n, Overdue(m)
               PROVE  Overdue(m)'
    OBVIOUS
  <2>1. PICK k \in 1..m : blocks[k].run >= blocks[k].timeout
    BY DEF Overdue
  <2>2. k \in 1..n
    BY <1>3
  <2>3. blocks[k].run \in Nat /\ blocks[k].timeout \in Nat
    BY <1>7, <2>2 DEF Typed
  <2>4. blocks'[k].run >= blocks'[k].timeout
    BY <1>4, <1>8, <2>1, <2>2, <2>3
  <2> QED
    BY <2>4 DEF Overdue
<1>10. itimer # Off =>
         itimer \in Nat \ {0} /\ itimer' = itimer - 1 /\ itimer' # Off
  BY <1>1, <1>2 DEF TypeInv, Off
<1>11. TypeInv'
  BY <1>1, <1>2, <1>4, <1>10 DEF TypeInv
<1>12. StackInv'
  <2>1. \A k \in 1..n : blocks'[k].pc \in Starting =>
          blocks'[k].run = 0 /\ blocks'[k].prevTimeout = Off
    <3> SUFFICES ASSUME NEW k \in 1..n, blocks[k].pc \in Starting
                 PROVE  blocks'[k].run = 0 /\ blocks'[k].prevTimeout = Off
      BY <1>4
    <3>1. k = n
      BY <1>1, <1>3 DEF StackInv, Starting
    <3>2. k # Owner
      BY <1>3, <1>6, <3>1
    <3> QED
      BY <1>1, <1>4, <3>2 DEF StackInv
  <2>2. \A k \in 1..n : blocks'[k].id <= started /\ blocks'[k].prevHandler <= started
    BY <1>1, <1>4 DEF StackInv
  <2>3. \A k \in 1..n - 1 : blocks'[k].pc = "body"
    <3> SUFFICES ASSUME NEW k \in 1..n - 1
                 PROVE  blocks'[k].pc = "body"
      OBVIOUS
    <3>1. k \in 1..n
      BY <1>3
    <3>2. blocks[k].pc = "body"
      BY <1>1 DEF StackInv
    <3> QED
      BY <1>4, <3>1, <3>2
  <2>4. \A k \in 2..n : blocks'[k - 1].id < blocks'[k].id
    BY <1>1, <1>3, <1>4 DEF StackInv
  <2> QED
    BY <1>2, <1>4, <1>8, <2>1, <2>2, <2>3, <2>4 DEF StackInv
<1>13. NotedInv'
  <2> SUFFICES ASSUME NEW k \in 1..n
               PROVE  Noted(k)'
    BY <1>4 DEF NotedInv
  <2>1. Noted(k)
    BY <1>1 DEF NotedInv
  <2>2. k > 1 => blocks'[k - 1].id = blocks[k - 1].id
    BY <1>3, <1>4
  <2>3. k > 1 /\ blocks[k].pc \notin Starting => Rest(k - 1)' = Rest(k - 1)
    BY <1>3, <1>6, <1>8
  <2>4. k > 1 => (Overdue(k - 1) => Overdue(k - 1)')
    BY <1>3, <1>9
  <2> QED
    BY <1>2, <1>4, <2>1, <2>2, <2>3, <2>4 DEF Noted
<1>14. n > 0 => /\ n \in 1..n /\ Top'.pc = Top.pc /\ Top'.id = Top.id
                /\ Top'.prevHandler = Top.prevHandler
  BY <1>3, <1>4, <1>5
<1>15. n > 1 => n - 1 \in 1..n /\ blocks'[n - 1].id = blocks[n - 1].id
  BY <1>3, <1>4
<1>16. HandlerInv'
  BY <1>1, <1>2, <1>3, <1>4, <1>5, <1>14, <1>15 DEF HandlerInv
<1>17. AlarmInv'
  BY <1>1, <1>2, <1>3, <1>4, <1>5, <1>10, <1>14 DEF AlarmInv, AlarmHasBlock, At, Idle
<1>18. RestInv'
  <2> SUFFICES ASSUME n > 0, itimer # Off
               PROVE  RestInv'
    BY <1>2, <1>3, <1>5 DEF RestInv
  <2>1. Top.pc \in {"entering", "body", "restore_handler"} => Owner = n
    BY <1>6 DEF Starting
  <2>2. Top.pc \in Starting => Owner = n - 1
    BY <1>6
  <2>3. \A k \in 1..n : k = Owner /\ itimer = Rest(k) => itimer' = Rest(k)'
    BY <1>8, <1>10
  <2> QED
    BY <1>1, <1>2, <1>3, <1>4, <1>5, <1>10, <1>14, <1>15, <2>1, <2>2, <2>3
    DEF RestInv, Starting
<1>19. CauseInv'
  <2> SUFFICES ASSUME clockSteps = 0, itimer # Off
               PROVE  itimer' = Rest(Owner)' \/ Overdue(Owner)'
    BY <1>2 DEF CauseInv
  <2>1. Owner \in 1..n
    BY <1>1, <1>3, <1>6 DEF AlarmInv, AlarmHasBlock
  <2>2. itimer = Rest(Owner) \/ Overdue(Owner)
    BY <1>1 DEF CauseInv
  <2>3. itimer = Rest(Owner) => itimer' = Rest(Owner)'
    <3> SUFFICES ASSUME NEW m \in 1..n, m = Owner, itimer = Rest(m)
                 PROVE  itimer' = Rest(m)'
      BY <1>6, <2>1 DEF Rest
    <3> QED
      BY <1>8, <1>10
  <2>4. Overdue(Owner) => Overdue(Owner)'
    <3> SUFFICES ASSUME NEW m \in 1..n, m = Owner, Overdue(m)
                 PROVE  Overdue(m)'
      BY <1>6, <2>1 DEF Overdue
    <3> QED
      BY <1>3, <1>9
  <2> QED
    BY <2>2, <2>3, <2>4
<1> QED
  BY <1>11, <1>12, <1>13, <1>16, <1>17, <1>18, <1>19 DEF IInv

-----------------------------------------------------------------------------
(* Types                                                                   *)

\* The times that are counted: timeouts, and what is left of them.
LEMMA TicksFacts ==
  /\ Ticks(0) \subseteq Nat /\ Ticks(1) \subseteq Nat /\ 0 \in Ticks(0) /\ 0 \in Ticks(1)
  /\ Timeouts \subseteq Ticks(0)
  /\ \A n \in Ticks(0) : n > 0 => n - 1 \in Ticks(0)
  /\ \A m \in Timeouts, n \in Nat : UpTo(m, n) \in Ticks(0) /\ UpTo(m + 1, n) \in Ticks(1)
<1>1. Timeouts \subseteq Nat \ {0} /\ Timeouts # {}
  BY TimerAssumption
<1>2. PICK m \in Timeouts : m \in Nat
  BY <1>1
<1>3. 0 \in Ticks(0) /\ 0 \in Ticks(1)
  BY <1>2 DEF Ticks
<1>4. \A t \in Timeouts, n \in Nat : UpTo(t, n) \in Ticks(0) /\ UpTo(t + 1, n) \in Ticks(1)
  BY <1>1 DEF Ticks, UpTo
<1>5. \A n \in Ticks(0) : n > 0 => n - 1 \in Ticks(0)
  BY <1>1 DEF Ticks
<1>6. Timeouts \subseteq Ticks(0)
  BY <1>1 DEF Ticks
<1> QED
  BY <1>3, <1>4, <1>5, <1>6 DEF Ticks

\* The blocks of TypeOK are those of TypeInv.
LEMMA TypeOKFacts ==
  ASSUME TypeOK
  PROVE  /\ TypeInv
         /\ \A k \in 1..Len(blocks) : blocks[k] \in Blocks
         /\ ~Idle => Top \in Blocks
         /\ Blocks \subseteq Block
<1>1. blocks \in Seq(Blocks)
  BY DEF TypeOK
<1>2. /\ Len(blocks) \in Nat /\ DOMAIN blocks = 1..Len(blocks)
      /\ \A k \in 1..Len(blocks) : blocks[k] \in Blocks
  BY <1>1, LenProperties, ElementOfSeq
<1>3. Timeouts \subseteq Nat \ {0} /\ MaxTimers \in Nat /\ MaxClockSteps \in Nat
  BY TimerAssumption
<1>4. Blocks \subseteq Block
  <2> SUFFICES ASSUME NEW b \in Blocks
               PROVE  b \in Block
    OBVIOUS
  <2>1. /\ b.run \in Nat /\ b.age \in Nat /\ b.prevTimeout \in Nat \cup {Off}
    BY TicksFacts DEF Blocks
  <2>2. b.id \in Nat \ {0} /\ b.timeout \in Nat \ {0} /\ b.pc \in PCs /\ b.prevHandler \in Nat
    <3>1. b.id \in 1..MaxTimers /\ b.timeout \in Timeouts /\ b.pc \in PCs
          /\ b.prevHandler \in 0..MaxTimers
      BY DEF Blocks
    <3>2. b.timeout \in Nat \ {0}
      BY <1>3, <3>1
    <3>3. b.id \in Nat \ {0} /\ b.prevHandler \in Nat
      BY <1>3, <3>1
    <3> QED
      BY <3>1, <3>2, <3>3
  <2> QED
    BY <2>1, <2>2 DEF Blocks, Block
<1>5. blocks \in Seq(Block)
  <2>1. blocks \in [1..Len(blocks) -> Blocks]
    BY <1>1, LenProperties
  <2>2. blocks \in [1..Len(blocks) -> Block]
    BY <1>4, <2>1
  <2> QED
    BY <1>2, <2>2, SeqDef
<1>6. handler \in Nat /\ started \in Nat /\ clockSteps \in Nat
  BY <1>3 DEF TypeOK
<1>7. itimer \in Nat \cup {Off}
  BY TicksFacts DEF TypeOK
<1>8. TypeInv
  BY <1>5, <1>6, <1>7 DEF TypeInv, TypeOK
<1> QED
  BY <1>2, <1>4, <1>8, BlockFacts

\* A sequence of blocks.
LEMMA BlocksSeq ==
  ASSUME NEW s \in Seq(Block), \A k \in 1..Len(s) : s[k] \in Blocks
  PROVE  s \in Seq(Blocks)
<1>1. Len(s) \in Nat /\ s \in [1..Len(s) -> Block]
  BY LenProperties
<1>2. s \in [1..Len(s) -> Blocks]
  BY <1>1
<1> QED
  BY <1>1, <1>2, SeqDef

\* The last block is left, or goes on to another step.
LEMMA TypedSteps ==
  ASSUME TypeOK, ~Idle
  PROVE  /\ Front(blocks) \in Seq(Blocks)
         /\ \A b \in Blocks : WithTop(b) \in Seq(Blocks)
<1>1. /\ TypeInv /\ Len(blocks) \in Nat
      /\ \A k \in 1..Len(blocks) : blocks[k] \in Blocks
  BY TypeOKFacts, BlockFacts
<1>2. Front(blocks) \in Seq(Blocks)
  <2>1. /\ Front(blocks) \in Seq(Block) /\ Len(Front(blocks)) = Len(blocks) - 1
        /\ \A k \in 1..Len(blocks) - 1 : Front(blocks)[k] = blocks[k]
    BY <1>1, PopShape
  <2>2. \A k \in 1..Len(Front(blocks)) : Front(blocks)[k] \in Blocks
    BY <1>1, <2>1
  <2> QED
    BY <2>1, <2>2, BlocksSeq
<1>3. ASSUME NEW b \in Blocks
      PROVE  WithTop(b) \in Seq(Blocks)
  <2>1. /\ WithTop(b) \in Seq(Block) /\ Len(WithTop(b)) = Len(blocks)
        /\ \A k \in 1..Len(blocks) :
             WithTop(b)[k] = IF k = Len(blocks) THEN b ELSE blocks[k]
    <3>1. b \in Block
      BY <1>3, TypeOKFacts
    <3> QED
      BY <1>1, <3>1, TopShape
  <2>2. \A k \in 1..Len(WithTop(b)) : WithTop(b)[k] \in Blocks
    BY <1>1, <1>3, <2>1
  <2> QED
    BY <2>1, <2>2, BlocksSeq
<1> QED
  BY <1>2, <1>3

\* A block that goes on, or notes the handler or the alarm that it replaces.
LEMMA TypedGoto ==
  ASSUME TypeOK, ~Idle, NEW p \in PCs
  PROVE  /\ Goto(p) \in Blocks
         /\ [Goto(p) EXCEPT !.prevHandler = handler] \in Blocks
         /\ \A t \in Ticks(0) \cup {Off} : [Goto(p) EXCEPT !.prevTimeout = t] \in Blocks
         /\ \A b \in Blocks : WithTop(b) \in Seq(Blocks)
<1>1. Top \in Blocks
  BY TypeOKFacts
<1>2. Goto(p) = [Top EXCEPT !.pc = p]
  BY DEF Goto
<1> HIDE DEF Top
<1>3. Goto(p) \in Blocks
  BY <1>1, <1>2 DEF Blocks
<1>4. handler \in 0..MaxTimers
  BY DEF TypeOK
<1> QED
  BY <1>3, <1>4, TypedSteps DEF Blocks

\* A tick: times are counted as far as they matter.
LEMMA TypedTick ==
  ASSUME TypeOK, Tick
  PROVE  blocks' \in Seq(Blocks)
<1> DEFINE After(k) ==
      [blocks[k] EXCEPT
         !.age = IF k <= Owner THEN UpTo(blocks[k].timeout + 1, @ + 1) ELSE @,
         !.run = IF k = Owner THEN UpTo(blocks[k].timeout, @ + 1) ELSE @]
<1>1. TypeInv /\ Len(blocks) \in Nat /\ DOMAIN blocks = 1..Len(blocks)
  BY TypeOKFacts, LenProperties DEF TypeInv
<1>2. blocks' = [k \in 1..Len(blocks) |-> After(k)]
  BY <1>1 DEF Tick
<1>3. ASSUME NEW k \in 1..Len(blocks)
      PROVE  After(k) \in Blocks
  <2>1. blocks[k] \in Blocks
    BY TypeOKFacts
  <2>2. /\ blocks[k].timeout \in Timeouts
        /\ blocks[k].age + 1 \in Nat /\ blocks[k].run + 1 \in Nat
    <3>1. blocks[k].timeout \in Timeouts /\ blocks[k].age \in Ticks(1)
          /\ blocks[k].run \in Ticks(0)
      BY <2>1 DEF Blocks
    <3>2. blocks[k].age \in Nat /\ blocks[k].run \in Nat
      BY <3>1, TicksFacts
    <3> QED
      BY <3>1, <3>2
  <2>3. /\ UpTo(blocks[k].timeout + 1, blocks[k].age + 1) \in Ticks(1)
        /\ UpTo(blocks[k].timeout, blocks[k].run + 1) \in Ticks(0)
    BY <2>2, TicksFacts
  <2> QED
    BY <2>1, <2>3 DEF Blocks
<1> HIDE DEF After
<1>4. blocks' \in [1..Len(blocks) -> Blocks]
  BY <1>2, <1>3
<1> QED
  BY <1>1, <1>4, SeqDef

-----------------------------------------------------------------------------
(* The theorems                                                            *)

\* No timer has been started.
LEMMA InitInv == Init => IInv
<1> SUFFICES ASSUME Init
             PROVE  IInv
  OBVIOUS
<1>1. /\ blocks = <<>> /\ handler = SIG_DFL /\ itimer = Off /\ ~tripped /\ ~exc /\ ~killed
      /\ tripped \in BOOLEAN /\ exc \in BOOLEAN /\ killed \in BOOLEAN
      /\ started = 0 /\ clockSteps = 0 /\ Idle /\ Len(blocks) = 0
  BY DEF Init, Idle
<1>2. TypeInv
  BY <1>1 DEF TypeInv, SIG_DFL, Off
<1>3. StackInv /\ NotedInv
  BY <1>1 DEF StackInv, NotedInv
<1>4. HandlerInv /\ AlarmInv /\ RestInv /\ CauseInv
  BY <1>1 DEF HandlerInv, AlarmInv, AlarmHasBlock, RestInv, CauseInv, SIG_DFL
<1> QED
  BY <1>2, <1>3, <1>4 DEF IInv

\* Every call, alarm and tick keeps the invariant.
LEMMA NextInv == IInv /\ [Next]_vars => IInv'
<1> SUFFICES ASSUME IInv, [Next]_vars
             PROVE  IInv'
  OBVIOUS
<1>1. TypeInv
  BY DEF IInv
<1>2. CASE Tick
  BY <1>2, KeepsTick
<1>3. CASE Fire
  BY <1>3, KeepsFire
<1>4. CASE Deliver
  <2>1. CASE handler = SIG_DFL \/ Idle
    BY <1>4, <2>1, KeepsDeliverNothing DEF Deliver, At, Idle
  <2>2. CASE handler # SIG_DFL /\ At("body")
    BY <1>4, <2>2, KeepsDeliverInBody
  <2>3. CASE handler # SIG_DFL /\ ~Idle /\ ~At("body")
    BY <1>4, <2>3, KeepsDeliverInCalls
  <2> QED
    BY <2>1, <2>2, <2>3
<1>5. CASE \E timeout \in Timeouts : Start(timeout)
  BY <1>5, KeepsStart
<1>6. CASE Calls
  BY <1>6, KeepsSetHandler, KeepsSetTimer, KeepsRestoreHandler, KeepsRestoreTimer,
     KeepsEnterBody
  DEF Calls
<1>7. CASE Leave
  BY <1>7, KeepsLeave
<1>8. CASE Catch
  BY <1>8, KeepsCatch DEF Catch
<1>9. CASE ClockWentBack
  BY <1>9, KeepsClockWentBack
<1>10. CASE UNCHANGED vars
  BY <1>1, <1>10, KeepsCatch DEF vars, TypeInv
<1> QED
  BY <1>2, <1>3, <1>4, <1>5, <1>6, <1>7, <1>8, <1>9, <1>10 DEF Next, Finished

\* The invariant holds always.
LEMMA Invariance == Spec => []IInv
BY InitInv, NextInv, PTL DEF Spec

\* However blocks are nested and whenever alarms cut start() and stop() short, no
\* alarm is armed that would kill the process, but in the outermost stop() between
\* its two calls; and none is left behind, unless the clock was set back.
THEOREM NoStrayAlarm == Spec => []AlarmHasBlock
<1>1. IInv => AlarmHasBlock
  BY DEF IInv, AlarmInv
<1> QED
  BY <1>1, Invariance, PTL

\* A body that has its own handler in place has no alarm, or one after exactly the
\* time it has left.
THEOREM ResumesWithRest == Spec => []ResumedWithRest
<1>1. IInv => ResumedWithRest
  <2> SUFFICES ASSUME IInv, At("body"), handler = Top.id, itimer # Off
               PROVE  itimer = Top.timeout - Top.run
    BY DEF ResumedWithRest
  <2>1. ~Idle /\ Top.pc = "body"
    BY DEF At, Idle
  <2>2. Top = blocks[Len(blocks)]
    BY BlockFacts DEF IInv
  <2>3. RestInv
    BY DEF IInv
  <2> HIDE DEF Top
  <2> QED
    BY <2>1, <2>2, <2>3 DEF RestInv, Rest
<1> QED
  BY <1>1, Invariance, PTL

\* PlanoTimeout is raised only when some block that is running has used up its time,
\* as long as the clock is not set back.
THEOREM TimeoutsHaveCause == Spec => TimeoutHasCause
<1> DEFINE Cause == \E k \in DOMAIN blocks : blocks[k].run >= blocks[k].timeout
<1>1. IInv /\ [Next]_vars => (Raises /\ clockSteps = 0 => Cause)
  <2> SUFFICES ASSUME IInv, Raises, clockSteps = 0
               PROVE  Cause
    OBVIOUS
  <2>1. TypeInv /\ AlarmInv /\ CauseInv /\ HandlerInv
    BY DEF IInv
  <2>2. Overdue(Len(blocks)) => Cause
    BY <2>1, LenProperties DEF TypeInv, Overdue
  <2>3. CASE Deliver
    BY <2>1, <2>2, <2>3 DEF Deliver, CauseInv
  <2>4. CASE RestoreTimer(TRUE)
    <3> SUFFICES ASSUME NEW n, n = Len(blocks)
                 PROVE  Overdue(n)
      BY <2>2
    <3>1. ~Idle /\ itimer = 0 /\ Top.pc = "restore_timer"
      BY <2>4 DEF RestoreTimer, MayFire, At, Idle
    <3>2. n \in Nat \ {0} /\ Owner = n
      BY <3>1, LastBlock DEF Starting
    <3>3. Rest(n) = 0 \/ Overdue(n)
      BY <2>1, <3>1, <3>2 DEF CauseInv, Off
    <3> QED
      BY <2>1, <3>2, <3>3, OverdueFacts
  <2> QED
    BY <2>3, <2>4 DEF Raises
<1> QED
  BY <1>1, Invariance, PTL DEF Spec, TimeoutHasCause

\* setitimer is never given a negative time, nor one longer than the longest timeout,
\* and no more timers than MaxTimers are in use.
THEOREM TypeCorrect == Spec => []TypeOK
<1>1. Init => TypeOK
  <2> SUFFICES ASSUME Init
               PROVE  TypeOK
    OBVIOUS
  <2>1. <<>> \in Seq(Blocks)
    OBVIOUS
  <2>2. 0 \in 0..MaxTimers /\ 0 \in 0..MaxClockSteps
    BY TimerAssumption
  <2> QED
    BY <2>1, <2>2 DEF Init, TypeOK, SIG_DFL
<1>2. TypeOK /\ [Next]_vars => TypeOK'
  <2> SUFFICES ASSUME TypeOK, [Next]_vars
               PROVE  TypeOK'
    OBVIOUS
  <2>1. /\ blocks \in Seq(Blocks) /\ handler \in 0..MaxTimers
        /\ itimer \in Ticks(0) \cup {Off} /\ started \in 0..MaxTimers
        /\ clockSteps \in 0..MaxClockSteps
        /\ tripped \in BOOLEAN /\ exc \in BOOLEAN /\ killed \in BOOLEAN
        /\ ~Idle => Top \in Blocks
    BY TypeOKFacts DEF TypeOK
  <2>2. /\ SIG_DFL \in 0..MaxTimers /\ MaxTimers \in Nat /\ MaxClockSteps \in Nat
        /\ Ticks(0) \subseteq Nat
    BY TimerAssumption, TicksFacts DEF SIG_DFL
  <2>3. CASE Tick
    <3>1. itimer' \in Ticks(0) \cup {Off}
      <4>1. itimer # 0 /\ itimer' = IF itimer = Off THEN Off ELSE itimer - 1
        BY <2>3 DEF Tick
      <4>2. itimer # Off => itimer > 0 /\ itimer \in Ticks(0)
        BY <2>1, <2>2, <4>1
      <4> QED
        BY <4>1, <4>2, TicksFacts
    <3>2. blocks' \in Seq(Blocks)
      BY <2>3, TypedTick
    <3> QED
      BY <2>1, <2>3, <3>1, <3>2 DEF Tick, TypeOK
  <2>4. CASE Fire
    BY <2>1, <2>4 DEF Fire, TypeOK
  <2>5. CASE Deliver
    <3>1. At("body") => ~Idle /\ "restore_handler" \in PCs
      BY DEF At, Idle, PCs
    <3>2. blocks' \in Seq(Blocks) /\ exc' \in BOOLEAN
      BY <2>1, <2>5, <3>1, TypedGoto, TypedSteps DEF Deliver, Pop
    <3> QED
      BY <2>1, <2>5, <3>2 DEF Deliver, TypeOK
  <2>6. ASSUME NEW timeout \in Timeouts, Start(timeout)
        PROVE  TypeOK'
    <3> DEFINE b == [id |-> started + 1, timeout |-> timeout,
                     pc |-> "set_handler", prevHandler |-> SIG_DFL,
                     prevTimeout |-> Off, run |-> 0, age |-> 0]
    <3>1. started + 1 \in 1..MaxTimers /\ started' = started + 1
      BY <2>1, <2>2, <2>6 DEF Start
    <3>2. b \in Blocks
      BY <2>2, <3>1, TicksFacts DEF Blocks, PCs
    <3>3. blocks' \in Seq(Blocks)
      <4>1. blocks' = Append(blocks, b)
        BY <2>6 DEF Start
      <4> HIDE DEF b
      <4> QED
        BY <2>1, <3>2, <4>1, AppendProperties
    <3> QED
      BY <2>1, <2>2, <2>6, <3>1, <3>3 DEF Start, TypeOK
  <2>7. ASSUME NEW fires \in BOOLEAN, SetHandler(fires)
        PROVE  TypeOK'
    <3>1. ~Idle /\ "set_timer" \in PCs
      BY <2>7 DEF SetHandler, At, Idle, PCs
    <3>2. blocks' \in Seq(Blocks)
      BY <2>7, <3>1, TypedGoto DEF SetHandler
    <3>3. handler' \in 0..MaxTimers
      BY <2>1, <2>2, <2>7, <3>1 DEF SetHandler, Blocks
    <3> QED
      BY <2>1, <2>7, <3>2, <3>3 DEF SetHandler, TypeOK
  <2>8. ASSUME NEW fires \in BOOLEAN, SetTimer(fires)
        PROVE  TypeOK'
    <3>1. ~Idle /\ "entering" \in PCs
      BY <2>8 DEF SetTimer, At, Idle, PCs
    <3>2. (IF fires THEN Off ELSE itimer) \in Ticks(0) \cup {Off}
      BY <2>1
    <3>3. blocks' \in Seq(Blocks)
      BY <2>8, <3>1, <3>2, TypedGoto DEF SetTimer
    <3>4. itimer' \in Ticks(0) \cup {Off}
      BY <2>1, <2>8, <3>1, TicksFacts DEF SetTimer, ArmTimer, Blocks
    <3> QED
      BY <2>1, <2>8, <3>3, <3>4 DEF SetTimer, TypeOK
  <2>9. CASE EnterBody
    <3>1. ~Idle /\ "body" \in PCs
      BY <2>9 DEF EnterBody, At, Idle, PCs
    <3>2. blocks' \in Seq(Blocks)
      BY <2>9, <3>1, TypedGoto DEF EnterBody
    <3> QED
      BY <2>1, <2>9, <3>2 DEF EnterBody, TypeOK
  <2>10. CASE Leave
    <3>1. ~Idle /\ "restore_handler" \in PCs
      BY <2>10 DEF Leave, At, Idle, PCs
    <3>2. blocks' \in Seq(Blocks)
      BY <2>10, <3>1, TypedGoto DEF Leave
    <3> QED
      BY <2>1, <2>10, <3>2 DEF Leave, TypeOK
  <2>11. CASE Catch
    BY <2>1, <2>11 DEF Catch, TypeOK
  <2>12. CASE ClockWentBack
    <3>1. ~Idle
      BY <2>12 DEF ClockWentBack, At, Idle
    <3>2. blocks' \in Seq(Blocks) /\ exc' \in BOOLEAN
      BY <2>12, <3>1, TypedSteps DEF ClockWentBack, Pop
    <3> QED
      BY <2>1, <2>2, <2>12, <3>2 DEF ClockWentBack, TypeOK
  <2>13. ASSUME NEW fires \in BOOLEAN, RestoreHandler(fires)
         PROVE  TypeOK'
    <3>1. ~Idle /\ "restore_timer" \in PCs
      BY <2>13 DEF RestoreHandler, At, Idle, PCs
    <3>2. blocks' \in Seq(Blocks)
      BY <2>13, <3>1, TypedGoto DEF RestoreHandler
    <3>3. handler' \in 0..MaxTimers
      BY <2>1, <2>13, <3>1 DEF RestoreHandler, PreviousHandler, Blocks
    <3> QED
      BY <2>1, <2>13, <3>2, <3>3 DEF RestoreHandler, TypeOK
  <2>14. ASSUME NEW fires \in BOOLEAN, RestoreTimer(fires)
         PROVE  TypeOK'
    <3>1. ~Idle
      BY <2>14 DEF RestoreTimer, At, Idle
    <3>2. blocks' \in Seq(Blocks) /\ exc' \in BOOLEAN
      BY <2>14, <3>1, TypedSteps DEF RestoreTimer, Pop
    <3>3. itimer' \in Ticks(0) \cup {Off}
      BY <2>1, <2>14, <3>1 DEF RestoreTimer, PreviousTimeout, Blocks
    <3> QED
      BY <2>1, <2>14, <3>2, <3>3 DEF RestoreTimer, TypeOK
  <2>15. CASE UNCHANGED vars
    BY <2>1, <2>15 DEF vars, TypeOK
  <2> QED
    BY <2>3, <2>4, <2>5, <2>6, <2>7, <2>8, <2>9, <2>10, <2>11, <2>12, <2>13, <2>14, <2>15
    DEF Next, Calls, Finished
<1> QED
  BY <1>1, <1>2, PTL DEF Spec

=============================================================================
