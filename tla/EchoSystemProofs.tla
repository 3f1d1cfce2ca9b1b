--------------------------- MODULE EchoSystemProofs ---------------------------
(***************************************************************************)
(* Proofs about EchoSystem, for any number of jobs, set of signals, size   *)
(* of the buffers and capacity of a connection.                            *)
(*                                                                         *)
(* What the properties need beyond themselves is that a connection stays   *)
(* intact while both processes run (IntactInv): only then can a worker not *)
(* meet the SIGPIPE, nor run_ the end of the client, that would cut off a  *)
(* report.  The lemmas take the actions in groups: steps of one thread and *)
(* its connection, the ends of the two processes, the handler, run_.       *)
(***************************************************************************)
EXTENDS EchoSystem, SequenceTheorems, TLAPS

(***************************************************************************)
(* The inductive invariant                                                 *)
(***************************************************************************)

\* What a worker holds, and when it injects: i passes 2 once, on its way there.
WorkersInv ==
  \A j \in Jobs :
    /\ worker[j].held + worker[j].sent <= Capacity
    /\ worker[j].pc \in {"inject", "send"} => worker[j].held > 0
    /\ worker[j].i = 3 /\ ~visited => worker[j].pc = "inject"
    /\ worker[j].pc = "none" => worker[j].i = 0
    /\ link[j].srv = "queued" => worker[j].pc = "none"

\* Connections, and the threads at their ends, are there for the jobs before job.
JobsInv ==
  /\ \A j \in Jobs :
       \/ j < job
       \/ /\ link[j] = NoLink /\ worker[j].pc = "none"
          /\ sender[j].pc = "none" /\ receiver[j] = "none"
  /\ server # "accept" \/ client = "none" => job = 1
  /\ visited => job > 1
  /\ \A s \in Signals : stage[s] \in {"running", "done"} => visited

\* While both processes run, no connection is closed or reset, by either end,
\* and no thread ends.
Intact(j) ==
  /\ link[j].cli = "open" /\ link[j].srv \in {"queued", "open"} /\ ~link[j].reset
  /\ worker[j].pc \notin {"egress", "ended"}
  /\ sender[j].pc = "send" /\ receiver[j] = "recv"
IntactInv == ClientRuns /\ ~dead => \A j \in Jobs : j < job => Intact(j)

\* A client that ends before the server does was killed, never connected, or
\* found no more sockets.
EarlyEndInv == ClientEnded /\ ~dead => client \in {"SIGTERM", "EMFILE"} \/ job = 1

\* The ways to end that run() takes for a failure.
Failures == {"errno", "EMFILE", "ECONNREFUSED"}

RunInv ==
  /\ run \in {"start", "sleep"} => client = "none"
  /\ run \in {"kill", "done"} => ClientEnded
  /\ terminating => run = "done"
  /\ verdict = "failed" => client \in Failures /\ run \in {"kill", "done"}
  /\ client \in {"ECONNREFUSED", "EMFILE"} => job <= NumJobs
  /\ client = "errno" => job > NumJobs

IInv == TypeOK /\ WorkersInv /\ JobsInv /\ IntactInv /\ EarlyEndInv /\ RunInv /\ ReportNotCut

\* The records of TypeOK by name.
WorkerStates == [pc : {"none", "recv", "inject", "send", "egress", "ended"},
                 i : 0..3, held : 0..Capacity, sent : 0..Capacity]
Links == [cli : Ends, srv : Ends, reset : BOOLEAN, up : 0..Capacity, down : 0..Capacity]
Senders == [pc : {"none", "send", "done"}, left : 1..BUFFER_SIZE]
Receivers == {"none", "recv", "done"}

-----------------------------------------------------------------------------
(* Closing the ends of a connection, and the states at rest                *)

LEMMA Numbers ==
  /\ NumJobs \in Nat /\ BUFFER_SIZE \in Nat /\ Capacity \in Nat
  /\ NumJobs > 0 /\ BUFFER_SIZE > 0 /\ Capacity > 0
  BY EchoAssumption

LEMMA NoLinkType == NoLink \in Links /\ Gone \in Links
<1>1. NoLink \in Links
  BY Numbers DEF NoLink, Links, Ends
<1>. QED
  BY <1>1 DEF Gone, Links, Ends

LEMMA ServerEndClosed ==
  ASSUME NEW l \in Links
  PROVE  /\ CloseServerEnd(l) \in Links
         /\ CloseServerEnd(NoLink) = NoLink
<1>1. CloseServerEnd(NoLink) = NoLink
  BY DEF CloseServerEnd, NoLink
<1>2. CASE l.srv \in {"queued", "open"} /\ l.cli # "closed"
  <2>. DEFINE b == l.reset \/ l.srv = "queued" \/ l.up > 0
  <2>1. CloseServerEnd(l) = [l EXCEPT !.srv = "closed", !.reset = b]
    BY <1>2 DEF CloseServerEnd
  <2>2. b \in BOOLEAN
    OBVIOUS
  <2>. HIDE DEF b
  <2>3. [l EXCEPT !.srv = "closed", !.reset = b] \in Links
    BY <2>2 DEF Links, Ends
  <2>. QED
    BY <1>1, <2>1, <2>3
<1>. QED
  BY <1>1, <1>2, NoLinkType DEF CloseServerEnd

LEMMA ClientEndClosed ==
  ASSUME NEW l \in Links
  PROVE  /\ CloseClientEnd(l) \in Links
         /\ CloseClientEnd(NoLink) = NoLink
         /\ CloseClientEnd(l).srv = "queued" => l.srv = "queued"
<1>1. CloseClientEnd(NoLink) = NoLink
  BY DEF CloseClientEnd, NoLink
<1>2. CASE l.cli = "open" /\ l.srv # "closed"
  <2>. DEFINE b == l.reset \/ l.down > 0
  <2>1. CloseClientEnd(l) = [l EXCEPT !.cli = "closed", !.reset = b]
    BY <1>2 DEF CloseClientEnd
  <2>2. b \in BOOLEAN
    OBVIOUS
  <2>. HIDE DEF b
  <2>3. /\ [l EXCEPT !.cli = "closed", !.reset = b] \in Links
        /\ [l EXCEPT !.cli = "closed", !.reset = b].srv = l.srv
    BY <2>2 DEF Links, Ends
  <2>. QED
    BY <1>1, <2>1, <2>3
<1>3. Gone.srv # "queued"
  BY DEF Gone, NoLink
<1>. QED
  BY <1>1, <1>2, <1>3, NoLinkType DEF CloseClientEnd

LEMMA NoThreads ==
  /\ NoWorkers \in [Jobs -> WorkerStates]
  /\ \A j \in Jobs : /\ NoWorkers[j].pc = "none" /\ NoWorkers[j].i = 0
                     /\ NoWorkers[j].held = 0 /\ NoWorkers[j].sent = 0
  /\ NoSenders \in [Jobs -> Senders]
  /\ NoReceivers \in [Jobs -> Receivers]
  /\ \A j \in Jobs : NoSenders[j].pc = "none" /\ NoReceivers[j] = "none"
  /\ NoFaults \in [Threads -> Seq(Signals)]
<1>1. <<>> \in Seq(Signals)
  OBVIOUS
<1>. QED
  BY <1>1, Numbers DEF NoWorkers, WorkerStates, NoSenders, Senders, NoReceivers,
                        Receivers, NoFaults

LEMMA Codes ==
  /\ DOMAIN ExitCode = Failures \cup {"0", "SIGPIPE", "SIGTERM"}
  /\ \A e \in DOMAIN ExitCode : CheckFails(ExitCode[e]) => e \in Failures
  BY DEF ExitCode, CheckFails, Failures

-----------------------------------------------------------------------------
(* Steps of one thread and its connection                                  *)

LEMMA Types ==
  ASSUME TypeOK
  PROVE  /\ worker \in [Jobs -> WorkerStates] /\ link \in [Jobs -> Links]
         /\ sender \in [Jobs -> Senders] /\ receiver \in [Jobs -> Receivers]
         /\ raised \in [Threads -> Seq(Signals)]
         /\ stage \in [Signals -> Crash!Stages] /\ dead \in BOOLEAN
         /\ job \in 1..NumJobs + 1 /\ visited \in BOOLEAN
         /\ client \in DOMAIN ExitCode \cup {"none", "running"}
  BY DEF TypeOK, WorkerStates, Links, Senders, Receivers, Crash!AbsTypeOK

LEMMA SetLinkType ==
  ASSUME TypeOK, NEW j \in Jobs, NEW l \in Links, SetLink(j, l)
  PROVE  /\ link' \in [Jobs -> Links] /\ link'[j] = l
         /\ \A k \in Jobs \ {j} : link'[k] = link[k]
  BY Types DEF SetLink

\* A worker makes a step and its connection changes.
LEMMA WorkerStepKeeps ==
  ASSUME IInv, NEW j \in Jobs, NEW w \in WorkerStates, NEW l \in Links,
         WorkerStep(j, w, l), worker[j].pc # "none", w.pc # "none",
         w.held + w.sent <= Capacity,
         w.pc \in {"inject", "send"} => w.held > 0,
         w.i = 3 /\ ~visited => w.pc = "inject",
         l.srv # "queued",
         ClientRuns /\ ~dead =>
           /\ l.cli = "open" /\ l.srv \in {"queued", "open"} /\ ~l.reset
           /\ w.pc \notin {"egress", "ended"}
  PROVE  IInv'
<1>1. /\ worker' \in [Jobs -> WorkerStates] /\ worker'[j] = w
      /\ \A k \in Jobs \ {j} : worker'[k] = worker[k]
  BY Types DEF WorkerStep, IInv
<1>2. /\ link' \in [Jobs -> Links] /\ link'[j] = l
      /\ \A k \in Jobs \ {j} : link'[k] = link[k]
  BY SetLinkType DEF WorkerStep, IInv
<1>3. /\ UNCHANGED <<run, verdict, terminating, server, visited, stage, raised, dead,
                     cause, client, job, sender, receiver>>
  BY DEF WorkerStep, runVars, reporter, clientVars
<1>4. j < job
  BY DEF IInv, JobsInv
<1>5. TypeOK'
  BY <1>1, <1>2, <1>3 DEF IInv, TypeOK, WorkerStates, Links, Crash!AbsTypeOK
<1>6. WorkersInv'
  BY <1>1, <1>2, <1>3 DEF IInv, WorkersInv
<1>7. JobsInv'
  BY <1>1, <1>2, <1>3, <1>4 DEF IInv, JobsInv
<1>8. IntactInv'
  BY <1>1, <1>2, <1>3 DEF IInv, IntactInv, Intact, ClientRuns
<1>9. EarlyEndInv' /\ RunInv' /\ ReportNotCut'
  BY <1>3 DEF IInv, EarlyEndInv, RunInv, ReportNotCut, ClientEnded
<1>. QED
  BY <1>5, <1>6, <1>7, <1>8, <1>9 DEF IInv

LEMMA SenderStepKeeps ==
  ASSUME IInv, NEW j \in Jobs, NEW s \in Senders, NEW l \in Links,
         SenderStep(j, s, l), sender[j].pc # "none", l.srv = link[j].srv,
         ClientRuns /\ ~dead =>
           /\ l.cli = "open" /\ l.srv \in {"queued", "open"} /\ ~l.reset
           /\ s.pc = "send"
  PROVE  IInv'
<1>1. /\ sender' \in [Jobs -> Senders] /\ sender'[j] = s
      /\ \A k \in Jobs \ {j} : sender'[k] = sender[k]
  BY Types DEF SenderStep, IInv
<1>2. /\ link' \in [Jobs -> Links] /\ link'[j] = l
      /\ \A k \in Jobs \ {j} : link'[k] = link[k]
  BY SetLinkType DEF SenderStep, IInv
<1>3. /\ UNCHANGED <<run, verdict, terminating, server, visited, stage, raised, dead,
                     cause, client, job, worker, receiver>>
  BY DEF SenderStep, runVars, reporter, serverVars
<1>4. j < job
  BY DEF IInv, JobsInv
<1>5. TypeOK'
  BY <1>1, <1>2, <1>3 DEF IInv, TypeOK, Senders, Links, Crash!AbsTypeOK
<1>6. WorkersInv'
  BY <1>2, <1>3 DEF IInv, WorkersInv
<1>7. JobsInv'
  BY <1>1, <1>2, <1>3, <1>4 DEF IInv, JobsInv
<1>8. IntactInv'
  BY <1>1, <1>2, <1>3 DEF IInv, IntactInv, Intact, ClientRuns
<1>9. EarlyEndInv' /\ RunInv' /\ ReportNotCut'
  BY <1>3 DEF IInv, EarlyEndInv, RunInv, ReportNotCut, ClientEnded
<1>. QED
  BY <1>5, <1>6, <1>7, <1>8, <1>9 DEF IInv

\* The server dies: a report that has begun stays as it is.
LEMMA ServerGoneKeeps ==
  ASSUME IInv, NEW why \in {"exit", "fault", "SIGPIPE", "SIGTERM"},
         ~dead, dead' = TRUE, UNCHANGED stage \/ \E s \in Signals : Crash!Die(s),
         ServerGone(why),
         \/ why = "fault" \/ client \in {"SIGTERM", "EMFILE"}
         \/ \A s \in Signals : stage[s] # "running" /\ stage'[s] # "running"
  PROVE  IInv'
<1>1. UNCHANGED <<run, verdict, terminating, server, visited, client, job, sender,
                  receiver>>
  BY DEF ServerGone, runVars, clientVars
<1>0. /\ stage' \in [Signals -> Crash!Stages]
      /\ \A s \in Signals : stage'[s] \in {stage[s], "killer"}
  BY Types DEF IInv, Crash!Die, Crash!Stages
<1>2. /\ worker' = NoWorkers /\ raised' = NoFaults /\ cause' = why
      /\ \A j \in Jobs : link'[j] = CloseServerEnd(link[j])
  BY DEF ServerGone
<1>3. link' \in [Jobs -> Links]
  BY ServerEndClosed, Types DEF ServerGone, IInv
<1>4. TypeOK'
  BY <1>0, <1>1, <1>2, <1>3, NoThreads
     DEF IInv, TypeOK, WorkerStates, Links, Crash!AbsTypeOK
<1>5. WorkersInv'
  BY <1>2, NoThreads, Numbers DEF WorkersInv
<1>6. JobsInv'
  <2>1. \A j \in Jobs : link[j] = NoLink => link'[j] = NoLink
    BY <1>2, ServerEndClosed, NoLinkType
  <2>. QED
    BY <1>0, <1>1, <1>2, <2>1, NoThreads DEF IInv, JobsInv
<1>7. IntactInv' /\ EarlyEndInv' /\ RunInv'
  BY <1>1 DEF IInv, IntactInv, EarlyEndInv, RunInv, ClientEnded
<1>8. ReportNotCut'
  BY <1>1, <1>2 DEF ReportNotCut
<1>. QED
  BY <1>4, <1>5, <1>6, <1>7, <1>8 DEF IInv

LEMMA ClientEndsKeeps ==
  ASSUME IInv, NEW how \in DOMAIN ExitCode, ClientRuns, ClientEnds(how),
         ~dead => how \in {"SIGTERM", "EMFILE"} \/ job = 1,
         how \in {"ECONNREFUSED", "EMFILE"} => job <= NumJobs,
         how = "errno" => job > NumJobs
  PROVE  IInv'
<1>0. client = "running"
  BY DEF ClientRuns
<1>1. UNCHANGED <<run, verdict, terminating, server, visited, worker, stage, raised, dead,
                  cause, job>>
  BY DEF ClientEnds, runVars, serverVars, reporter
<1>2. /\ sender' = NoSenders /\ receiver' = NoReceivers /\ client' = how
      /\ \A j \in Jobs : link'[j] = CloseClientEnd(link[j])
  BY DEF ClientEnds
<1>3. link' \in [Jobs -> Links]
  BY ClientEndClosed, Types DEF ClientEnds, IInv
<1>4. TypeOK'
  BY <1>1, <1>2, <1>3, NoThreads DEF IInv, TypeOK, Senders, Receivers, Links, Crash!AbsTypeOK
<1>5. WorkersInv'
  BY <1>1, <1>2, ClientEndClosed, Types DEF IInv, WorkersInv
<1>6. JobsInv'
  <2>1. \A j \in Jobs : link[j] = NoLink => link'[j] = NoLink
    BY <1>2, ClientEndClosed, NoLinkType
  <2>2. client' # "none"
    BY <1>2, Codes DEF Failures
  <2>. QED
    BY <1>1, <1>2, <2>1, <2>2, NoThreads DEF IInv, JobsInv
<1>7. IntactInv' /\ EarlyEndInv'
  BY <1>1, <1>2, Codes DEF IntactInv, EarlyEndInv, ClientRuns, Failures
<1>8. RunInv'
  BY <1>0, <1>1, <1>2, Codes DEF IInv, RunInv, ClientEnded, Failures
<1>9. ReportNotCut'
  BY <1>0, <1>1 DEF IInv, ReportNotCut
<1>. QED
  BY <1>4, <1>5, <1>6, <1>7, <1>8, <1>9 DEF IInv

-----------------------------------------------------------------------------
(* server.c                                                                *)

LEMMA ServerStarts ==
  ASSUME IInv, (\E s \in Signals : Install(s)) \/ Listen
  PROVE  IInv'
<1>1. ASSUME NEW s \in Signals, Install(s)
      PROVE  IInv'
  <2>1. /\ UNCHANGED <<run, verdict, terminating, server, visited, worker, raised, dead,
                       cause, link, client, job, sender, receiver>>
        /\ server = "install" /\ stage' = [stage EXCEPT ![s] = "armed"]
    BY <1>1 DEF Install, Crash!Arm, Crash!Move, runVars, serverVars, clientVars
  <2>2. /\ stage' \in [Signals -> Crash!Stages]
        /\ \A x \in Signals : stage'[x] = stage[x] \/ stage'[x] = "armed"
    BY <2>1, Types DEF IInv, Crash!Stages
  <2>3. TypeOK'
    BY <2>1, <2>2 DEF IInv, TypeOK, Crash!AbsTypeOK
  <2>4. WorkersInv' /\ IntactInv' /\ EarlyEndInv' /\ RunInv'
    BY <2>1 DEF IInv, WorkersInv, IntactInv, Intact, EarlyEndInv, RunInv, ClientRuns,
                ClientEnded
  <2>5. JobsInv' /\ ReportNotCut'
    BY <2>1, <2>2 DEF IInv, JobsInv, ReportNotCut
  <2>. QED
    BY <2>3, <2>4, <2>5 DEF IInv
<1>2. CASE Listen
  <2>1. CASE ServerDies("exit")
    <3>1. \A s \in Signals : stage[s] # "running"
      BY <1>2 DEF Listen
    <3>. QED
      BY <1>2, <2>1, <3>1, ServerGoneKeeps DEF Listen, ServerDies
  <2>2. CASE ~ServerDies("exit")
    <3>1. /\ UNCHANGED <<run, verdict, terminating, visited, worker, raised, stage, dead,
                         cause, link, client, job, sender, receiver>>
          /\ server' = "accept"
      BY <1>2, <2>2 DEF Listen, runVars, reporter, clientVars
    <3>2. TypeOK'
      BY <3>1 DEF IInv, TypeOK, Crash!AbsTypeOK
    <3>3. WorkersInv' /\ IntactInv' /\ EarlyEndInv' /\ RunInv'
      BY <3>1 DEF IInv, WorkersInv, IntactInv, Intact, EarlyEndInv, RunInv, ClientRuns,
                  ClientEnded
    <3>4. JobsInv' /\ ReportNotCut'
      BY <3>1 DEF IInv, JobsInv, ReportNotCut
    <3>. QED
      BY <3>2, <3>3, <3>4 DEF IInv
  <2>. QED
    BY <2>1, <2>2
<1>. QED
  BY <1>1, <1>2

LEMMA AcceptKeeps ==
  ASSUME IInv, Accept
  PROVE  IInv'
<1>1. PICK j \in Queue :
        /\ SetLink(j, [link[j] EXCEPT !.srv = "open"])
        /\ worker' = [worker EXCEPT ![j].pc = "recv"]
  BY DEF Accept
<1>2. UNCHANGED <<run, verdict, terminating, server, visited, stage, raised, dead,
                  cause, client, job, sender, receiver>>
  BY DEF Accept, runVars, reporter, clientVars
<1>. DEFINE w == [worker[j] EXCEPT !.pc = "recv"]
            l == [link[j] EXCEPT !.srv = "open"]
<1>3. j \in Jobs /\ link[j].srv = "queued"
  BY DEF Queue
<1>4. worker[j] \in WorkerStates /\ link[j] \in Links
  BY <1>3, Types DEF IInv
<1>5. /\ w \in WorkerStates /\ w.pc = "recv" /\ w.i = worker[j].i
      /\ w.held = worker[j].held /\ w.sent = worker[j].sent
  BY <1>4 DEF WorkerStates
<1>6. /\ l \in Links /\ l.srv = "open" /\ l.cli = link[j].cli /\ l.reset = link[j].reset
  BY <1>4 DEF Links, Ends
<1>7. j < job
  BY <1>3 DEF IInv, JobsInv, NoLink
<1>8. worker' = [worker EXCEPT ![j] = w] /\ SetLink(j, l)
  BY <1>1
<1>. HIDE DEF w, l
<1>9. /\ worker' \in [Jobs -> WorkerStates] /\ worker'[j] = w
      /\ \A k \in Jobs \ {j} : worker'[k] = worker[k]
  BY <1>3, <1>5, <1>8, Types DEF IInv
<1>10. /\ link' \in [Jobs -> Links] /\ link'[j] = l
       /\ \A k \in Jobs \ {j} : link'[k] = link[k]
  BY <1>3, <1>6, <1>8, SetLinkType DEF IInv
<1>11. TypeOK'
  BY <1>2, <1>9, <1>10 DEF IInv, TypeOK, WorkerStates, Links, Crash!AbsTypeOK
<1>12. WorkersInv'
  <2>. SUFFICES ASSUME NEW k \in Jobs
                PROVE  /\ worker'[k].held + worker'[k].sent <= Capacity
                       /\ worker'[k].pc \in {"inject", "send"} => worker'[k].held > 0
                       /\ worker'[k].i = 3 /\ ~visited => worker'[k].pc = "inject"
                       /\ worker'[k].pc = "none" => worker'[k].i = 0
                       /\ link'[k].srv = "queued" => worker'[k].pc = "none"
    BY <1>2 DEF WorkersInv
  <2>1. CASE k # j
    BY <1>9, <1>10, <2>1 DEF IInv, WorkersInv
  <2>2. CASE k = j
    BY <1>3, <1>5, <1>6, <1>9, <1>10, <2>2 DEF IInv, WorkersInv
  <2>. QED
    BY <2>1, <2>2
<1>13. JobsInv'
  BY <1>2, <1>7, <1>9, <1>10 DEF IInv, JobsInv
<1>14. IntactInv'
  BY <1>2, <1>5, <1>6, <1>9, <1>10 DEF IInv, IntactInv, Intact, ClientRuns
<1>15. EarlyEndInv' /\ RunInv' /\ ReportNotCut'
  BY <1>2 DEF IInv, EarlyEndInv, RunInv, ReportNotCut, ClientEnded
<1>. QED
  BY <1>11, <1>12, <1>13, <1>14, <1>15 DEF IInv

\* What is known of a worker that is not in the panic handler.
LEMMA WorkerFacts ==
  ASSUME IInv, NEW j \in Jobs, worker[j].pc \notin {"none", "ended"}
  PROVE  /\ worker[j] \in WorkerStates /\ link[j] \in Links
         /\ j < job /\ job > 1
         /\ link[j].srv # "queued"
         /\ ClientRuns /\ ~dead => Intact(j)
         /\ worker[j].held \in Nat /\ worker[j].sent \in Nat /\ worker[j].i \in 0..3
         /\ worker[j].held + worker[j].sent <= Capacity
         /\ worker[j].pc \in {"inject", "send"} => worker[j].held > 0
         /\ worker[j].i = 3 /\ ~visited => worker[j].pc = "inject"
<1>1. worker[j] \in WorkerStates /\ link[j] \in Links
  BY Types DEF IInv
<1>2. j < job
  BY DEF IInv, JobsInv
<1>3. job > 1
  BY <1>2, Types DEF IInv, Jobs
<1>. QED
  BY <1>1, <1>2, <1>3, Numbers DEF IInv, WorkersInv, IntactInv, WorkerStates

LEMMA ReceiveKeeps ==
  ASSUME IInv, NEW j \in Jobs, Receive(j)
  PROVE  IInv'
<1>. DEFINE v == worker[j]
            l == link[j]
<1>1. /\ v.pc = "recv" /\ ~dead
      /\ v \in WorkerStates /\ l \in Links /\ l.srv # "queued"
      /\ ClientRuns /\ ~dead => Intact(j)
      /\ v.i \in 0..3 /\ v.held + v.sent <= Capacity /\ (v.i = 3 => visited)
  BY WorkerFacts DEF Receive, WorkerAt, Runs
<1>2. ASSUME NEW n \in 1..l.up, WorkerStep(j, Received(v, n), [l EXCEPT !.up = @ - n])
      PROVE  IInv'
  <2>. DEFINE w == Received(v, n)
              m == [l EXCEPT !.up = @ - n]
  <2>1. /\ m \in Links /\ m.cli = l.cli /\ m.srv = l.srv /\ m.reset = l.reset
        /\ n \in 1..Capacity
    BY <1>1, Numbers DEF Links
  <2>2. /\ w \in WorkerStates /\ w.held = n /\ w.sent = 0
        /\ w.pc = IF ~visited /\ v.i = 2 THEN "inject" ELSE "send"
        /\ w.i = IF visited THEN v.i ELSE v.i + 1
    <3>. DEFINE i == IF visited THEN v.i ELSE v.i + 1
                pc == IF ~visited /\ v.i = 2 THEN "inject" ELSE "send"
    <3>1. i \in 0..3 /\ pc \in {"inject", "send"}
      BY <1>1
    <3>2. w = [v EXCEPT !.held = n, !.sent = 0, !.i = i, !.pc = pc]
      BY DEF Received
    <3>. HIDE DEF i, pc, w
    <3>3. w \in WorkerStates /\ w.held = n /\ w.sent = 0 /\ w.pc = pc /\ w.i = i
      <4>3. v \in WorkerStates
        BY <1>1
      <4>. HIDE DEF m, v, l
      <4>1. n \in 0..Capacity /\ 0 \in 0..Capacity
        BY <2>1, Numbers
      <4>2. pc \in {"recv", "inject", "send"}
        BY <3>1
      <4>. QED
        BY <3>1, <3>2, <4>1, <4>2, <4>3 DEF WorkerStates
    <3>. QED
      BY <3>3 DEF i, pc, w
  <2>3. WorkerStep(j, w, m)
    BY <1>2
  <2>. HIDE DEF w, m
  <2>4. /\ w.pc # "none" /\ w.held + w.sent <= Capacity /\ w.held > 0
        /\ w.i = 3 /\ ~visited => w.pc = "inject"
        /\ w.pc \notin {"egress", "ended"}
    BY <1>1, <2>1, <2>2, Numbers
  <2>. QED
    BY <1>1, <2>1, <2>2, <2>3, <2>4, WorkerStepKeeps DEF Intact
<1>3. CASE /\ l.reset \/ (l.cli = "closed" /\ l.up = 0)
           /\ WorkerStep(j, [v EXCEPT !.pc = "egress"], l)
  <2>. DEFINE w == [v EXCEPT !.pc = "egress"]
  <2>1. /\ w \in WorkerStates /\ w.pc = "egress" /\ w.i = v.i
        /\ w.held = v.held /\ w.sent = v.sent
    BY <1>1 DEF WorkerStates
  <2>2. WorkerStep(j, w, l)
    BY <1>3
  <2>3. ~(ClientRuns /\ ~dead)
    BY <1>1, <1>3 DEF Intact
  <2>. HIDE DEF w
  <2>. QED
    BY <1>1, <2>1, <2>2, <2>3, WorkerStepKeeps
<1>. QED
  BY <1>2, <1>3 DEF Receive

LEMMA SendKeeps ==
  ASSUME IInv, NEW j \in Jobs, Send(j)
  PROVE  IInv'
<1>. DEFINE v == worker[j]
            l == link[j]
<1>1. /\ v.pc = "send" /\ ~dead
      /\ v \in WorkerStates /\ l \in Links /\ l.srv # "queued" /\ job > 1
      /\ ClientRuns /\ ~dead => Intact(j)
      /\ v.i \in 0..3 /\ v.held + v.sent <= Capacity /\ (v.i = 3 => visited)
      /\ v.held \in Nat /\ v.sent \in Nat /\ v.held > 0
  BY WorkerFacts DEF Send, WorkerAt, Runs
<1>2. CASE /\ ~l.reset /\ l.cli = "open" /\ l.down < Capacity
           /\ WorkerStep(j, SentOne(v), [l EXCEPT !.down = @ + 1])
  <2>. DEFINE w == SentOne(v)
              m == [l EXCEPT !.down = @ + 1]
  <2>1. m \in Links /\ m.cli = l.cli /\ m.srv = l.srv /\ m.reset = l.reset
    BY <1>1, <1>2, Numbers DEF Links
  <2>2. /\ w \in WorkerStates /\ w.held = v.held - 1 /\ w.sent = v.sent + 1
        /\ w.pc = IF v.held = 1 THEN "recv" ELSE "send"
        /\ w.i = v.i
    <3>. DEFINE pc == IF v.held = 1 THEN "recv" ELSE "send"
    <3>1. w = [v EXCEPT !.held = v.held - 1, !.sent = v.sent + 1, !.pc = pc]
      BY <1>1 DEF SentOne
    <3>2. /\ pc \in {"recv", "send"}
          /\ v.held - 1 \in 0..Capacity /\ v.sent + 1 \in 0..Capacity
      BY <1>1, Numbers
    <3>. HIDE DEF pc, w
    <3>3. w \in WorkerStates /\ w.held = v.held - 1 /\ w.sent = v.sent + 1 /\ w.pc = pc
          /\ w.i = v.i
      BY <1>1, <3>1, <3>2 DEF WorkerStates
    <3>. QED
      BY <3>3 DEF pc, w
  <2>3. WorkerStep(j, w, m)
    BY <1>2
  <2>. HIDE DEF w, m
  <2>4. /\ w.pc # "none"
        /\ w.held + w.sent <= Capacity
        /\ w.pc \in {"inject", "send"} => w.held > 0
        /\ w.i = 3 /\ ~visited => w.pc = "inject"
        /\ m.srv # "queued" /\ v.pc # "none"
    BY <1>1, <2>1, <2>2, Numbers
  <2>5. ClientRuns /\ ~dead =>
          /\ m.cli = "open" /\ m.srv \in {"queued", "open"} /\ ~m.reset
          /\ w.pc \notin {"egress", "ended"}
    BY <1>1, <2>1, <2>2 DEF Intact
  <2>. QED
    BY <2>1, <2>2, <2>3, <2>4, <2>5, WorkerStepKeeps, Zenon
<1>3. ASSUME NEW m \in Links, WorkerStep(j, NextReceive(v), m), m.srv = l.srv,
             ~(ClientRuns /\ ~dead)
      PROVE  IInv'
  <2>. DEFINE w == NextReceive(v)
  <2>1. w \in WorkerStates /\ w.held = 0 /\ w.sent = 0 /\ w.pc = "recv" /\ w.i = v.i
    <3>1. v \in WorkerStates /\ 0 \in 0..Capacity
      BY <1>1, Numbers
    <3>. HIDE DEF v, l
    <3>. QED
      BY <3>1 DEF NextReceive, WorkerStates
  <2>2. WorkerStep(j, w, m)
    BY <1>3
  <2>. HIDE DEF w
  <2>3. w.held + w.sent <= Capacity
    BY <2>1, Numbers
  <2>. QED
    BY <1>1, <1>3, <2>1, <2>2, <2>3, WorkerStepKeeps
<1>4. CASE ~l.reset /\ l.cli = "closed" /\ WorkerStep(j, NextReceive(v), [l EXCEPT !.reset = TRUE])
  <2>. DEFINE m == [l EXCEPT !.reset = TRUE]
  <2>1. m \in Links /\ m.srv = l.srv
    BY <1>1 DEF Links
  <2>2. ~(ClientRuns /\ ~dead)
    BY <1>1, <1>4 DEF Intact
  <2>3. WorkerStep(j, NextReceive(v), m)
    BY <1>4
  <2>. HIDE DEF m
  <2>. QED
    BY <1>3, <2>1, <2>2, <2>3
<1>5. CASE l.reset /\ WorkerStep(j, NextReceive(v), l)
  BY <1>1, <1>3, <1>5 DEF Intact
<1>6. CASE l.reset /\ WorkerStep(j, [v EXCEPT !.pc = "egress"], l)
  <2>. DEFINE w == [v EXCEPT !.pc = "egress"]
  <2>1. /\ w \in WorkerStates /\ w.pc = "egress" /\ w.i = v.i
        /\ w.held = v.held /\ w.sent = v.sent
    BY <1>1 DEF WorkerStates
  <2>2. WorkerStep(j, w, l)
    BY <1>6
  <2>3. ~(ClientRuns /\ ~dead)
    BY <1>1, <1>6 DEF Intact
  <2>. HIDE DEF w
  <2>. QED
    BY <1>1, <2>1, <2>2, <2>3, WorkerStepKeeps
<1>7. CASE l.reset /\ ServerDies("SIGPIPE")
  <2>1. ~ClientRuns
    BY <1>1, <1>7 DEF Intact
  <2>2. client # "none"
    BY <1>1 DEF IInv, JobsInv
  <2>3. ClientEnded
    BY <2>1, <2>2, Types DEF IInv, ClientRuns, ClientEnded
  <2>4. client \in {"SIGTERM", "EMFILE"}
    BY <1>1, <2>3 DEF IInv, EarlyEndInv
  <2>. QED
    BY <1>1, <1>7, <2>4, ServerGoneKeeps DEF ServerDies
<1>. QED
  BY <1>2, <1>4, <1>5, <1>6, <1>7 DEF Send

LEMMA EgressKeeps ==
  ASSUME IInv, NEW j \in Jobs, Egress(j)
  PROVE  IInv'
<1>. DEFINE v == worker[j]
            w == [v EXCEPT !.pc = "ended"]
            l == CloseServerEnd(link[j])
<1>1. /\ v.pc = "egress" /\ ~dead /\ v \in WorkerStates /\ link[j] \in Links
      /\ link[j].srv # "queued"
      /\ ClientRuns /\ ~dead => Intact(j)
      /\ v.held + v.sent <= Capacity /\ (v.i = 3 => visited)
  BY WorkerFacts DEF Egress, WorkerAt, Runs
<1>2. /\ w \in WorkerStates /\ w.pc = "ended" /\ w.i = v.i
      /\ w.held = v.held /\ w.sent = v.sent
  BY <1>1 DEF WorkerStates
<1>3. l \in Links /\ l.srv # "queued"
  <2>1. Gone.srv # "queued"
    BY DEF Gone, NoLink
  <2>2. [link[j] EXCEPT !.srv = "closed",
             !.reset = @ \/ link[j].srv = "queued" \/ link[j].up > 0].srv = "closed"
    BY <1>1 DEF Links
  <2>. QED
    BY <1>1, <2>1, <2>2, ServerEndClosed DEF CloseServerEnd
<1>4. ~(ClientRuns /\ ~dead)
  BY <1>1 DEF Intact
<1>5. WorkerStep(j, w, l)
  BY DEF Egress
<1>. HIDE DEF w, l
<1>. QED
  BY <1>1, <1>2, <1>3, <1>4, <1>5, WorkerStepKeeps

LEMMA InjectKeeps ==
  ASSUME IInv, NEW j \in Jobs, Inject(j)
  PROVE  IInv'
<1>. DEFINE v == worker[j]
            w == [v EXCEPT !.pc = "send"]
<1>1. /\ v.pc = "inject" /\ ~dead /\ v \in WorkerStates /\ link[j] \in Links
      /\ link[j].srv # "queued" /\ j < job /\ job > 1
      /\ ClientRuns /\ ~dead => Intact(j)
      /\ v.held + v.sent <= Capacity /\ v.held > 0
  BY WorkerFacts DEF Inject, WorkerAt, Runs
<1>2. /\ w \in WorkerStates /\ w.pc = "send" /\ w.i = v.i
      /\ w.held = v.held /\ w.sent = v.sent
  BY <1>1 DEF WorkerStates
<1>3. worker' = [worker EXCEPT ![j] = w]
  BY DEF Inject
<1>4. /\ visited'
      /\ UNCHANGED <<run, verdict, terminating, server, stage, raised, dead, cause, link,
                     client, job, sender, receiver>>
  BY DEF Inject, runVars, reporter, clientVars
<1>. HIDE DEF w
<1>5. /\ worker' \in [Jobs -> WorkerStates] /\ worker'[j] = w
      /\ \A k \in Jobs \ {j} : worker'[k] = worker[k]
  BY <1>2, <1>3, Types DEF IInv
<1>6. TypeOK'
  BY <1>4, <1>5 DEF IInv, TypeOK, WorkerStates, Inject, Crash!AbsTypeOK
<1>7. WorkersInv'
  BY <1>1, <1>2, <1>4, <1>5 DEF IInv, WorkersInv
<1>8. JobsInv'
  BY <1>1, <1>2, <1>4, <1>5 DEF IInv, JobsInv
<1>9. IntactInv'
  BY <1>1, <1>2, <1>4, <1>5 DEF IInv, IntactInv, Intact, ClientRuns
<1>10. EarlyEndInv' /\ RunInv' /\ ReportNotCut'
  BY <1>4 DEF IInv, EarlyEndInv, RunInv, ReportNotCut, ClientEnded
<1>. QED
  BY <1>6, <1>7, <1>8, <1>9, <1>10 DEF IInv

-----------------------------------------------------------------------------
(* The smashed heap                                                        *)

\* A fault enters the handler for its signal, or kills the server.
LEMMA FaultKeeps ==
  ASSUME IInv, NEW t \in Threads, NEW s \in Signals,
         Fault(t, s) \/ Report(t, s) \/ Refault(t, s)
  PROVE  IInv'
<1>1. ASSUME NEW to \in {"running", "done"}, visited, raised' \in [Threads -> Seq(Signals)],
             ~dead, stage' = [stage EXCEPT ![s] = to],
             UNCHANGED <<run, verdict, terminating, server, visited, worker, dead, cause,
                         link, client, job, sender, receiver>>
      PROVE  IInv'
  <2>1. /\ stage' \in [Signals -> Crash!Stages]
        /\ \A x \in Signals \ {s} : stage'[x] = stage[x]
    BY <1>1, Types DEF IInv, Crash!Stages
  <2>2. TypeOK'
    BY <1>1, <2>1 DEF IInv, TypeOK, Crash!AbsTypeOK
  <2>3. WorkersInv' /\ IntactInv' /\ EarlyEndInv' /\ RunInv'
    BY <1>1 DEF IInv, WorkersInv, IntactInv, Intact, EarlyEndInv, RunInv, ClientRuns,
                ClientEnded
  <2>4. JobsInv'
    BY <1>1, <2>1 DEF IInv, JobsInv
  <2>5. ReportNotCut'
    BY <1>1 DEF ReportNotCut
  <2>. QED
    BY <2>2, <2>3, <2>4, <2>5 DEF IInv
<1>2. ASSUME Crash!Die(s), ServerGone("fault")
      PROVE  IInv'
  <2>1. ~dead /\ dead' = TRUE
    BY <1>2 DEF Crash!Die
  <2>. QED
    BY <1>2, <2>1, ServerGoneKeeps
<1>3. CASE Fault(t, s) /\ Crash!Enter(s)
  <2>1. CASE ServerGone("fault") /\ Crash!Die(s)
    BY <1>2, <2>1
  <2>2. CASE ~(ServerGone("fault") /\ Crash!Die(s))
    <3>1. /\ raised' = [raised EXCEPT ![t] = Append(@, s)]
          /\ UNCHANGED <<run, verdict, terminating, server, visited, worker, cause,
                         link, client, job, sender, receiver>>
      BY <1>3, <2>2 DEF Fault, runVars, serverVars, clientVars
    <3>2. raised[t] \in Seq(Signals)
      BY Types DEF IInv
    <3>3. Append(raised[t], s) \in Seq(Signals)
      BY <3>2, AppendProperties
    <3>4. raised' \in [Threads -> Seq(Signals)]
      BY <3>1, <3>3, Types DEF IInv
    <3>5. ~dead /\ dead' = dead /\ stage' = [stage EXCEPT ![s] = "running"] /\ visited
      BY <1>3 DEF Crash!Enter, Crash!Move, Fault, HeapSmashed
    <3>. QED
      BY <1>1, <3>1, <3>4, <3>5
  <2>. QED
    BY <2>1, <2>2
<1>4. CASE Fault(t, s) /\ ~Crash!Enter(s)
  BY <1>2, <1>4 DEF Fault
<1>5. CASE Report(t, s)
  <2>1. /\ UNCHANGED <<run, verdict, terminating, server, visited, worker, raised, cause,
                       link, client, job, sender, receiver>>
        /\ ~dead /\ dead' = dead /\ stage[s] = "running"
        /\ stage' = [stage EXCEPT ![s] = "done"]
    BY <1>5 DEF Report, Crash!Finish, Crash!Move, runVars, serverVars, clientVars
  <2>2. visited
    BY <2>1 DEF IInv, JobsInv
  <2>3. raised' \in [Threads -> Seq(Signals)]
    BY <2>1, Types DEF IInv
  <2>. QED
    BY <1>1, <2>1, <2>2, <2>3
<1>6. CASE Refault(t, s)
  BY <1>2, <1>6 DEF Refault
<1>. QED
  BY <1>3, <1>4, <1>5, <1>6

-----------------------------------------------------------------------------
(* client.c                                                                *)

LEMMA ConnectKeeps ==
  ASSUME IInv, Connect
  PROVE  IInv'
<1>. DEFINE l == [NoLink EXCEPT !.cli = "open", !.srv = "queued"]
            s == [sender[job] EXCEPT !.pc = "send"]
<1>1. /\ job \in Jobs /\ job \in Nat /\ ClientRuns /\ server = "accept" /\ ~dead
      /\ client = "running"
  BY Types, Numbers DEF Connect, IInv, Jobs, ClientRuns
<1>2. /\ l \in Links /\ l.cli = "open" /\ l.srv = "queued" /\ ~l.reset
  <2>1. NoLink \in Links /\ ~NoLink.reset
    BY NoLinkType DEF NoLink
  <2>. QED
    BY <2>1 DEF Links, Ends
<1>3. s \in Senders /\ s.pc = "send"
  <2>1. sender[job] \in Senders
    BY <1>1, Types DEF IInv
  <2>. QED
    BY <2>1 DEF Senders
<1>4. /\ SetLink(job, l)
      /\ sender' = [sender EXCEPT ![job] = s]
      /\ receiver' = [receiver EXCEPT ![job] = "recv"]
      /\ job' = job + 1
      /\ UNCHANGED <<run, verdict, terminating, server, visited, worker, stage, raised,
                     dead, cause, client>>
  BY DEF Connect, runVars, serverVars, reporter
<1>. HIDE DEF l, s
<1>5. /\ link' \in [Jobs -> Links] /\ link'[job] = l
      /\ \A k \in Jobs \ {job} : link'[k] = link[k]
  BY <1>1, <1>2, <1>4, SetLinkType DEF IInv
<1>6. /\ sender' \in [Jobs -> Senders] /\ sender'[job] = s
      /\ \A k \in Jobs \ {job} : sender'[k] = sender[k]
  BY <1>1, <1>3, <1>4, Types DEF IInv
<1>7. /\ receiver' \in [Jobs -> Receivers] /\ receiver'[job] = "recv"
      /\ \A k \in Jobs \ {job} : receiver'[k] = receiver[k]
  BY <1>1, <1>4, Types DEF IInv, Receivers
<1>8. job' \in 1..NumJobs + 1
  BY <1>1, <1>4, Numbers DEF Jobs
<1>9. TypeOK'
  BY <1>4, <1>5, <1>6, <1>7, <1>8 DEF IInv, TypeOK, Links, Senders, Receivers,
                                      Crash!AbsTypeOK
<1>10. worker[job].pc = "none"
  BY <1>1 DEF IInv, JobsInv
<1>11. WorkersInv'
  BY <1>2, <1>4, <1>5, <1>10 DEF IInv, WorkersInv
<1>12. JobsInv'
  <2>1. \A k \in Jobs : k < job' <=> k < job \/ k = job
    BY <1>1, <1>4 DEF Jobs
  <2>2. job > 1 => job' > 1
    BY <1>1, <1>4
  <2>3. \A k \in Jobs :
          \/ k < job'
          \/ /\ link'[k] = NoLink /\ worker'[k].pc = "none"
             /\ sender'[k].pc = "none" /\ receiver'[k] = "none"
    BY <1>4, <1>5, <1>6, <1>7, <2>1 DEF IInv, JobsInv
  <2>. QED
    BY <1>1, <1>4, <2>2, <2>3 DEF IInv, JobsInv
<1>13. IntactInv'
  <2>. SUFFICES ASSUME NEW k \in Jobs, k < job'
                PROVE  Intact(k)'
    BY DEF IntactInv
  <2>1. CASE k = job
    BY <1>2, <1>3, <1>4, <1>5, <1>6, <1>7, <1>10, <2>1 DEF Intact
  <2>2. CASE k # job
    <3>1. k < job
      BY <1>1, <1>4, <2>2 DEF Jobs
    <3>. QED
      BY <1>1, <1>4, <1>5, <1>6, <1>7, <2>2, <3>1 DEF IInv, IntactInv, Intact
  <2>. QED
    BY <2>1, <2>2
<1>14. EarlyEndInv' /\ RunInv' /\ ReportNotCut'
  BY <1>1, <1>4, Codes DEF IInv, EarlyEndInv, RunInv, ReportNotCut, ClientEnded,
                            ClientRuns, Failures
<1>. QED
  BY <1>9, <1>11, <1>12, <1>13, <1>14 DEF IInv

LEMMA NotConnectedKeeps ==
  ASSUME IInv, Refused \/ OutOfSockets
  PROVE  IInv'
<1>1. CASE Refused
  <2>1. ~dead => job = 1
    BY <1>1 DEF Refused, IInv, JobsInv
  <2>. QED
    BY <1>1, <2>1, Codes, ClientEndsKeeps DEF Refused, Failures
<1>2. CASE OutOfSockets
  BY <1>2, Codes, ClientEndsKeeps DEF OutOfSockets, Failures
<1>. QED
  BY <1>1, <1>2

LEMMA SendBufferKeeps ==
  ASSUME IInv, NEW j \in Jobs, SendBuffer(j)
  PROVE  IInv'
<1>. DEFINE l == link[j]
            s == sender[j]
<1>1. /\ ClientRuns /\ s.pc = "send" /\ l \in Links /\ s \in Senders /\ j < job
      /\ ClientRuns /\ ~dead => Intact(j)
  <2>1. s.pc = "send" /\ j < job
    BY DEF SendBuffer, IInv, JobsInv
  <2>. QED
    BY <2>1, Types DEF SendBuffer, IInv, IntactInv
<1>2. NextSend(s) \in Senders /\ NextSend(s).pc = "send"
  BY <1>1, Numbers DEF NextSend, Senders
<1>3. CASE /\ ~l.reset /\ l.srv # "closed" /\ l.up < Capacity
           /\ SenderStep(j, IF s.left = 1 THEN NextSend(s) ELSE [s EXCEPT !.left = @ - 1],
                         [l EXCEPT !.up = @ + 1])
  <2>. DEFINE u == IF s.left = 1 THEN NextSend(s) ELSE [s EXCEPT !.left = @ - 1]
              m == [l EXCEPT !.up = @ + 1]
  <2>1. m \in Links /\ m.cli = l.cli /\ m.srv = l.srv /\ m.reset = l.reset
    BY <1>1, <1>3, Numbers DEF Links
  <2>2. u \in Senders /\ u.pc = "send"
    <3>1. CASE s.left = 1
      BY <1>2, <3>1
    <3>2. CASE s.left # 1
      <4>1. s.left - 1 \in 1..BUFFER_SIZE
        BY <1>1, <3>2, Numbers DEF Senders
      <4>. QED
        BY <1>1, <3>2, <4>1 DEF Senders
    <3>. QED
      BY <3>1, <3>2
  <2>3. SenderStep(j, u, m)
    BY <1>3
  <2>4. ClientRuns /\ ~dead =>
          m.cli = "open" /\ m.srv \in {"queued", "open"} /\ ~m.reset /\ u.pc = "send"
    BY <1>1, <2>1, <2>2 DEF Intact
  <2>5. s.pc # "none"
    BY <1>1
  <2>. HIDE DEF u, m
  <2>. QED
    BY <2>1, <2>2, <2>3, <2>4, <2>5, SenderStepKeeps
<1>4. CASE l.reset \/ l.srv = "closed"
  <2>1. dead
    BY <1>1, <1>4, Types DEF Intact, IInv
  <2>2. ASSUME NEW u \in Senders, NEW m \in Links, SenderStep(j, u, m), m.srv = l.srv
        PROVE  IInv'
    BY <1>1, <2>1, <2>2, SenderStepKeeps
  <2>3. CASE SenderStep(j, NextSend(s), [l EXCEPT !.reset = TRUE])
    <3>1. [l EXCEPT !.reset = TRUE] \in Links /\ [l EXCEPT !.reset = TRUE].srv = l.srv
      BY <1>1 DEF Links
    <3>. QED
      BY <1>2, <2>2, <2>3, <3>1
  <2>4. CASE SenderStep(j, NextSend(s), l)
    BY <1>1, <1>2, <2>2, <2>4
  <2>5. CASE SenderStep(j, [s EXCEPT !.pc = "done"], l)
    <3>1. [s EXCEPT !.pc = "done"] \in Senders
      BY <1>1 DEF Senders
    <3>. QED
      BY <1>1, <2>2, <2>5, <3>1
  <2>6. CASE ClientEnds("SIGPIPE")
    BY <1>1, <2>1, <2>6, Codes, ClientEndsKeeps
  <2>. QED
    BY <1>4, <1>3, <2>3, <2>4, <2>5, <2>6 DEF SendBuffer
<1>. QED
  BY <1>3, <1>4 DEF SendBuffer

LEMMA ReceiveEchoKeeps ==
  ASSUME IInv, NEW j \in Jobs, ReceiveEcho(j)
  PROVE  IInv'
<1>. DEFINE l == link[j]
<1>1. /\ ClientRuns /\ receiver[j] = "recv" /\ l \in Links /\ j < job
      /\ ClientRuns /\ ~dead => Intact(j)
      /\ UNCHANGED <<run, verdict, terminating, server, visited, worker, stage, raised,
                     dead, cause, client, job, sender>>
  <2>1. receiver[j] = "recv" /\ j < job
    BY DEF ReceiveEcho, IInv, JobsInv
  <2>. QED
    BY <2>1, Types DEF ReceiveEcho, IInv, IntactInv, runVars, serverVars, reporter
<1>2. ASSUME NEW n \in Takes(l), SetLink(j, [l EXCEPT !.down = @ - n]), UNCHANGED receiver
      PROVE  IInv'
  <2>. DEFINE m == [l EXCEPT !.down = @ - n]
  <2>1. m \in Links /\ m.cli = l.cli /\ m.srv = l.srv /\ m.reset = l.reset
    BY <1>1, <1>2, Numbers DEF Links, Takes
  <2>2. SetLink(j, m)
    BY <1>2
  <2>. HIDE DEF m
  <2>3. /\ link' \in [Jobs -> Links] /\ link'[j] = m
        /\ \A k \in Jobs \ {j} : link'[k] = link[k]
    BY <2>1, <2>2, SetLinkType DEF IInv
  <2>4. TypeOK'
    BY <1>1, <1>2, <2>3 DEF IInv, TypeOK, Links, Crash!AbsTypeOK
  <2>5. WorkersInv'
    BY <1>1, <2>1, <2>3 DEF IInv, WorkersInv
  <2>6. JobsInv'
    BY <1>1, <1>2, <2>3 DEF IInv, JobsInv
  <2>7. IntactInv'
    BY <1>1, <1>2, <2>1, <2>3 DEF IInv, IntactInv, Intact, ClientRuns
  <2>8. EarlyEndInv' /\ RunInv' /\ ReportNotCut'
    BY <1>1 DEF IInv, EarlyEndInv, RunInv, ReportNotCut, ClientEnded
  <2>. QED
    BY <2>4, <2>5, <2>6, <2>7, <2>8 DEF IInv
<1>3. CASE /\ Disconnected(l) /\ receiver' = [receiver EXCEPT ![j] = "done"]
           /\ UNCHANGED link
  <2>1. dead
    BY <1>1, <1>3, Types DEF Intact, Disconnected, IInv
  <2>2. /\ receiver' \in [Jobs -> Receivers]
        /\ \A k \in Jobs \ {j} : receiver'[k] = receiver[k]
    BY <1>3, Types DEF IInv, Receivers
  <2>3. TypeOK'
    BY <1>1, <1>3, <2>2 DEF IInv, TypeOK, Receivers, Crash!AbsTypeOK
  <2>4. WorkersInv' /\ IntactInv' /\ EarlyEndInv' /\ RunInv' /\ ReportNotCut'
    BY <1>1, <1>3, <2>1 DEF IInv, WorkersInv, IntactInv, EarlyEndInv, RunInv, ReportNotCut,
                            ClientEnded
  <2>5. JobsInv'
    BY <1>1, <1>3, <2>2 DEF IInv, JobsInv
  <2>. QED
    BY <2>3, <2>4, <2>5 DEF IInv
<1>. QED
  BY <1>2, <1>3 DEF ReceiveEcho

LEMMA ClientExitKeeps ==
  ASSUME IInv, ExitClient \/ KillClient
  PROVE  IInv'
<1>1. CASE KillClient
  BY <1>1, Codes, ClientEndsKeeps DEF KillClient
<1>2. CASE ExitClient
  <2>1. 1 \in Jobs /\ 1 < job
    BY <1>2, Numbers, Types DEF ExitClient, Jobs, IInv
  <2>2. dead
    BY <1>2, <2>1, Types DEF ExitClient, IInv, IntactInv, Intact
  <2>. QED
    BY <1>2, <2>2, Codes, ClientEndsKeeps DEF ExitClient, Failures
<1>. QED
  BY <1>1, <1>2

-----------------------------------------------------------------------------
(* run_ of .plano.py, and the whole                                        *)

\* The steps of run_ change nothing but how far it, and what it starts, has come.
LEMMA RunKeeps ==
  ASSUME IInv, RunNext
  PROVE  IInv'
<1>1. UNCHANGED <<visited, worker, stage, raised, dead, cause, link, job, sender, receiver>>
  BY DEF RunNext, StartServer, StartClient, AwaitClient, Exit, UnchangedByRun, reporter,
         clientVars
<1>2. CASE StartServer
  <2>1. /\ run = "start" /\ run' = "sleep" /\ server' = "install"
        /\ UNCHANGED <<verdict, terminating, client>>
    BY <1>2 DEF StartServer
  <2>2. client = "none" /\ job = 1 /\ verdict # "failed" /\ ~terminating
    BY <2>1 DEF IInv, RunInv, JobsInv
  <2>3. TypeOK'
    BY <1>1, <2>1 DEF IInv, TypeOK, Crash!AbsTypeOK
  <2>4. WorkersInv' /\ JobsInv'
    BY <1>1, <2>1, <2>2 DEF IInv, WorkersInv, JobsInv
  <2>5. IntactInv' /\ EarlyEndInv' /\ RunInv' /\ ReportNotCut'
    BY <1>1, <2>1, <2>2, Codes DEF IInv, IntactInv, Intact, EarlyEndInv, RunInv,
                                   ReportNotCut, ClientRuns, ClientEnded
  <2>. QED
    BY <2>3, <2>4, <2>5 DEF IInv
<1>3. CASE StartClient
  <2>1. /\ run = "sleep" /\ run' = "client" /\ client' = "running"
        /\ UNCHANGED <<verdict, terminating, server>>
    BY <1>3 DEF StartClient
  <2>2. client = "none" /\ job = 1 /\ verdict # "failed" /\ ~terminating
    BY <2>1 DEF IInv, RunInv, JobsInv
  <2>3. TypeOK'
    BY <1>1, <2>1 DEF IInv, TypeOK, Crash!AbsTypeOK
  <2>4. WorkersInv' /\ JobsInv'
    BY <1>1, <2>1, <2>2 DEF IInv, WorkersInv, JobsInv
  <2>5. \A j \in Jobs : ~(j < job')
    BY <1>1, <2>2 DEF Jobs
  <2>6. \A s \in Signals : stage[s] # "running"
    BY <2>2 DEF IInv, JobsInv
  <2>7. IntactInv' /\ EarlyEndInv' /\ RunInv' /\ ReportNotCut'
    BY <1>1, <2>1, <2>2, <2>5, <2>6, Codes
       DEF IntactInv, EarlyEndInv, RunInv, ReportNotCut, ClientEnded
  <2>. QED
    BY <2>3, <2>4, <2>7 DEF IInv
<1>4. CASE AwaitClient
  <2>1. /\ run = "client" /\ run' = "kill" /\ ClientEnded
        /\ verdict' \in {"ok", "failed"}
        /\ verdict' = "failed" => client \in Failures
        /\ UNCHANGED <<terminating, server, client>>
    BY <1>4, Codes DEF AwaitClient
  <2>2. ~terminating
    BY <2>1 DEF IInv, RunInv
  <2>3. TypeOK'
    BY <1>1, <2>1 DEF IInv, TypeOK, Crash!AbsTypeOK
  <2>4. WorkersInv' /\ JobsInv' /\ IntactInv' /\ EarlyEndInv' /\ ReportNotCut'
    BY <1>1, <2>1 DEF IInv, WorkersInv, JobsInv, IntactInv, Intact, EarlyEndInv,
                      ReportNotCut, ClientRuns, ClientEnded
  <2>5. RunInv'
    BY <1>1, <2>1, <2>2 DEF IInv, RunInv, ClientEnded
  <2>. QED
    BY <2>3, <2>4, <2>5 DEF IInv
<1>5. CASE Exit
  <2>1. /\ run = "kill" /\ run' = "done" /\ terminating' \in BOOLEAN
        /\ UNCHANGED <<verdict, server, client>>
    BY <1>5 DEF Exit, KillServer, IInv, TypeOK, Crash!AbsTypeOK
  <2>2. TypeOK'
    BY <1>1, <2>1 DEF IInv, TypeOK, Crash!AbsTypeOK
  <2>3. WorkersInv' /\ JobsInv' /\ IntactInv' /\ EarlyEndInv' /\ ReportNotCut'
    BY <1>1, <2>1 DEF IInv, WorkersInv, JobsInv, IntactInv, Intact, EarlyEndInv,
                      ReportNotCut, ClientRuns, ClientEnded
  <2>4. RunInv'
    BY <1>1, <2>1 DEF IInv, RunInv, ClientEnded
  <2>. QED
    BY <2>2, <2>3, <2>4 DEF IInv
<1>. QED
  BY <1>2, <1>3, <1>4, <1>5 DEF RunNext

\* The server is killed after the client has ended.  With the server alive that
\* means that somebody killed the client, that it found no more sockets, or that
\* it never connected and then no report has begun.
LEMMA TerminatedKeeps ==
  ASSUME IInv, Terminated
  PROVE  IInv'
<1>1. ~dead /\ ClientEnded
  BY DEF Terminated, IInv, RunInv
<1>2. job = 1 => \A s \in Signals : stage[s] # "running"
  BY DEF IInv, JobsInv
<1>3. client \in {"SIGTERM", "EMFILE"} \/ job = 1
  BY <1>1 DEF IInv, EarlyEndInv
<1>. QED
  BY <1>1, <1>2, <1>3, ServerGoneKeeps DEF Terminated, ServerDies

LEMMA InitIInv == Init => IInv
<1>. SUFFICES ASSUME Init
              PROVE  IInv
  OBVIOUS
<1>1. /\ run = "start" /\ verdict = "none" /\ terminating = FALSE /\ server = "none"
      /\ visited = FALSE /\ dead = FALSE /\ client = "none" /\ job = 1 /\ cause = "none"
      /\ stage = [s \in Signals |-> "unarmed"]
      /\ raised = NoFaults /\ worker = NoWorkers /\ sender = NoSenders
      /\ receiver = NoReceivers /\ link = [j \in Jobs |-> NoLink]
  BY DEF Init, Crash!AbsInit
<1>2. link \in [Jobs -> Links] /\ \A j \in Jobs : link[j] = NoLink /\ link[j].srv = "none"
  BY <1>1, NoLinkType DEF NoLink
<1>3. TypeOK
  <2>1. /\ raised \in [Threads -> Seq(Signals)] /\ worker \in [Jobs -> WorkerStates]
        /\ sender \in [Jobs -> Senders] /\ receiver \in [Jobs -> Receivers]
    BY <1>1, NoThreads
  <2>2. Crash!AbsTypeOK
    BY <1>1 DEF Crash!AbsTypeOK, Crash!Stages
  <2>3. job \in 1..NumJobs + 1
    BY <1>1, Numbers
  <2>. QED
    BY <1>1, <1>2, <2>1, <2>2, <2>3 DEF TypeOK, WorkerStates, Links, Senders, Receivers
<1>4. WorkersInv
  BY <1>1, NoThreads, Numbers DEF WorkersInv
<1>5. JobsInv
  BY <1>1, <1>2, NoThreads DEF JobsInv
<1>6. IntactInv /\ EarlyEndInv /\ RunInv /\ ReportNotCut
  BY <1>1, Codes DEF IntactInv, EarlyEndInv, RunInv, ReportNotCut, ClientRuns, ClientEnded
<1>. QED
  BY <1>3, <1>4, <1>5, <1>6 DEF IInv

LEMMA NextIInv == IInv /\ [Next]_vars => IInv'
<1>. SUFFICES ASSUME IInv, [Next]_vars
              PROVE  IInv'
  OBVIOUS
<1>1. CASE UNCHANGED vars
  <2>1. UNCHANGED <<run, verdict, terminating, server, visited, worker, stage, raised, dead,
                    cause, link, client, job, sender, receiver>>
    BY <1>1 DEF vars, runVars, serverVars, reporter, clientVars
  <2>. QED
    BY <2>1 DEF IInv, TypeOK, Crash!AbsTypeOK, WorkersInv, JobsInv, IntactInv, Intact,
                EarlyEndInv, RunInv, ReportNotCut, ClientRuns, ClientEnded
<1>2. CASE ServerMain
  BY <1>2, ServerStarts, AcceptKeeps DEF ServerMain
<1>3. CASE \E j \in Jobs : WorkerNext(j) \/ SendBuffer(j) \/ ReceiveEcho(j)
  BY <1>3, ReceiveKeeps, InjectKeeps, SendKeeps, EgressKeeps, SendBufferKeeps,
     ReceiveEchoKeeps DEF WorkerNext
<1>4. CASE \E t \in Threads : Reporter(t) \/ (\E s \in Signals : Fault(t, s))
  BY <1>4, FaultKeeps DEF Reporter
<1>5. CASE ClientMain \/ OutOfSockets \/ KillClient
  BY <1>5, ConnectKeeps, NotConnectedKeeps, ClientExitKeeps DEF ClientMain
<1>6. CASE RunNext \/ Terminated
  BY <1>6, RunKeeps, TerminatedKeeps
<1>. QED
  BY <1>1, <1>2, <1>3, <1>4, <1>5, <1>6 DEF Next, Finished

-----------------------------------------------------------------------------
(* The theorems                                                            *)

\* The inductive invariant holds in every state of every run of the scenario.
THEOREM Invariance == Spec => []IInv
  BY InitIInv, NextIInv, PTL DEF Spec

\* The scenario keeps its type: among others a worker's counter i never passes
\* 3, and no connection carries or holds more than its capacity.
THEOREM TypeCorrect == Spec => []TypeOK
<1>1. IInv => TypeOK
  BY DEF IInv
<1>. QED
  BY <1>1, Invariance, PTL

\* A report that has begun is cut off by another fault only, never by the kill
\* of run_ or by SIGPIPE, unless somebody killed the client or it found no more
\* sockets.
THEOREM ReportsNotCut == Spec => []ReportNotCut
<1>1. IInv => ReportNotCut
  BY DEF IInv
<1>. QED
  BY <1>1, Invariance, PTL

\* run_ fails only if the client could not open a connection, or was left with
\* an errno after the death of the server: while the server lives and serves it,
\* a connected client does not fail, and no signal makes it fail.
THEOREM ServedRunsSucceed == Spec => []ServedRunSucceeds
<1>1. IInv => ServedRunSucceeds
  <2>. SUFFICES ASSUME IInv, verdict = "failed"
                PROVE  \/ /\ client \in {"ECONNREFUSED", "EMFILE"}
                          /\ \E j \in Jobs : link[j].cli = "none"
                       \/ client = "errno" /\ dead
    BY DEF ServedRunSucceeds
  <2>0. client \in Failures
    BY DEF IInv, RunInv
  <2>1. CASE client \in {"ECONNREFUSED", "EMFILE"}
    <3>1. job <= NumJobs
      BY <2>1 DEF IInv, RunInv
    <3>2. job \in Jobs /\ ~(job < job)
      BY <3>1, Numbers, Types DEF IInv, Jobs
    <3>3. link[job] = NoLink
      BY <3>2 DEF IInv, JobsInv
    <3>4. link[job].cli = "none"
      BY <3>3 DEF NoLink
    <3>. QED
      BY <2>1, <3>2, <3>4
  <2>2. CASE client = "errno"
    <3>1. ClientEnded /\ job > NumJobs
      BY <2>2, Codes DEF ClientEnded, Failures, IInv, RunInv
    <3>2. job # 1
      BY <3>1, Numbers
    <3>3. dead
      BY <2>2, <3>1, <3>2, Types DEF IInv, EarlyEndInv
    <3>. QED
      BY <2>2, <3>3
  <2>. QED
    BY <2>0, <2>1, <2>2 DEF Failures
<1>. QED
  BY <1>1, Invariance, PTL

=============================================================================
