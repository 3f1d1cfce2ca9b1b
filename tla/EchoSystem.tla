------------------------------ MODULE EchoSystem ------------------------------
(***************************************************************************)
(* The scenario of `./plano run`: run_ of src/.plano.py starts the server  *)
(* (src/server.c) and runs the client (src/client.c) against it until the  *)
(* server has smashed its own heap, reported that and died.                *)
(*                                                                         *)
(* The crash reporter inside the server is taken from its abstract         *)
(* specification, CrashReport, which module PanicHandler implements.  The  *)
(* kernel's sockets are external: each connection has a bounded number of  *)
(* units under way in each direction, its ends are closed in order (FIN)   *)
(* or by a reset (RST), and being on the loopback a reset arrives at once. *)
(***************************************************************************)
EXTENDS Integers, Sequences, FiniteSets

CONSTANTS
  NumJobs,         \* jobs of the client, each with one connection
  Signals,         \* signals the panic handler is installed for
  BUFFER_SIZE,     \* units that one send of the client takes
  Capacity,        \* bound: units under way in one direction
  Backlog          \* connections that may wait for accept()

ASSUME EchoAssumption ==
  /\ {NumJobs, BUFFER_SIZE, Capacity, Backlog} \subseteq Nat \ {0}
  /\ Signals # {}

Jobs == 1..NumJobs
Main == 0
Threads == Jobs \cup {Main}      \* of the server: main and the workers

VARIABLES
  run,             \* where run_ is
  verdict,         \* whether its run("client") has raised
  terminating,     \* the SIGTERM of its kill(server) is pending
  server,          \* where the server's main is
  visited,         \* the server's global of that name
  stage, dead,     \* its crash reports, see CrashReport
  raised,          \* signals each of its threads has raised, innermost last
  cause,           \* history: what ended the server
  worker,          \* the state of each run() thread of the server
  link,            \* the connections
  client,          \* how the client stands or ended
  job,             \* the job that the client's main connects next
  sender,          \* the run_sender threads of the client
  receiver         \* its run_receiver threads

reporter == <<stage, raised>>
serverVars == <<server, visited, worker>>
clientVars == <<job, sender, receiver>>
runVars == <<run, verdict, terminating>>
vars == <<runVars, serverVars, reporter, dead, cause, link, client, clientVars>>

Crash == INSTANCE CrashReport

NoFaults == [t \in Threads |-> <<>>]
NoWorkers == [j \in Jobs |-> [pc |-> "none", i |-> 0, held |-> 0, sent |-> 0]]
NoSenders == [j \in Jobs |-> [pc |-> "none", left |-> BUFFER_SIZE]]
NoReceivers == [j \in Jobs |-> "none"]
NoLink == [cli |-> "none", srv |-> "none", reset |-> FALSE, up |-> 0, down |-> 0]

Init ==
  /\ run = "start" /\ verdict = "none" /\ terminating = FALSE
  /\ server = "none" /\ visited = FALSE
  /\ Crash!AbsInit
  /\ raised = NoFaults
  /\ cause = "none"
  /\ worker = NoWorkers
  /\ link = [j \in Jobs |-> NoLink]
  /\ client = "none"
  /\ job = 1
  /\ sender = NoSenders
  /\ receiver = NoReceivers

-----------------------------------------------------------------------------
(* Sockets and the ends of the processes                                   *)

\* An end is closed; what it has not read makes that a reset, and so does a
\* connection that was never accepted.  With the other end closed too nothing
\* of the connection is left.
Gone == [NoLink EXCEPT !.cli = "closed", !.srv = "closed"]

CloseServerEnd(l) ==
  IF l.srv \notin {"queued", "open"} THEN l
  ELSE IF l.cli = "closed" THEN Gone
  ELSE [l EXCEPT !.srv = "closed", !.reset = @ \/ l.srv = "queued" \/ l.up > 0]

CloseClientEnd(l) ==
  IF l.cli # "open" THEN l
  ELSE IF l.srv = "closed" THEN Gone
  ELSE [l EXCEPT !.cli = "closed", !.reset = @ \/ l.down > 0]

\* The server is gone, with all its threads and sockets.
ServerGone(why) ==
  /\ cause' = why
  /\ link' = [j \in Jobs |-> CloseServerEnd(link[j])]
  /\ worker' = NoWorkers
  /\ raised' = NoFaults
  /\ UNCHANGED <<runVars, server, visited, client, clientVars>>

ServerDies(why) ==
  /\ dead' = TRUE
  /\ UNCHANGED stage
  /\ ServerGone(why)

ClientEnds(how) ==
  /\ client' = how
  /\ link' = [j \in Jobs |-> CloseClientEnd(link[j])]
  /\ sender' = NoSenders
  /\ receiver' = NoReceivers
  /\ UNCHANGED <<runVars, serverVars, reporter, dead, cause, job>>

SetLink(j, l) == link' = [link EXCEPT ![j] = l]

-----------------------------------------------------------------------------
(* server.c                                                                *)

\* Thread t of the server runs, and is not inside the panic handler.
Runs(t) == ~dead /\ raised[t] = <<>>

Install(s) ==
  /\ server = "install"
  /\ Crash!Arm(s)
  /\ UNCHANGED <<runVars, serverVars, raised, cause, link, client, clientVars>>

\* socket() to listen(), any of which may fail.
Listen ==
  /\ server = "install"
  /\ ~dead
  /\ \A s \in Signals : stage[s] = "armed"
  /\ \/ /\ server' = "accept"
        /\ UNCHANGED <<runVars, visited, worker, reporter, dead,
                       cause, link, client, clientVars>>
     \/ ServerDies("exit")

Queue == {j \in Jobs : link[j].srv = "queued"}

Accept ==
  /\ server = "accept"
  /\ Runs(Main)
  /\ \E j \in Queue :
       /\ \A k \in Queue : j <= k
       /\ SetLink(j, [link[j] EXCEPT !.srv = "open"])
       /\ worker' = [worker EXCEPT ![j].pc = "recv"]
  /\ UNCHANGED <<runVars, server, visited, reporter, dead, cause,
                 client, clientVars>>

WorkerAt(j, pc) == Runs(j) /\ worker[j].pc = pc

\* A step of worker j that changes only itself and its connection.
WorkerStep(j, w, l) ==
  /\ worker' = [worker EXCEPT ![j] = w]
  /\ SetLink(j, l)
  /\ UNCHANGED <<runVars, server, visited, reporter, dead, cause,
                 client, clientVars>>

\* recv() returned n units; i counts only while visited is FALSE.  Mutants: it
\* counts always; it starts again in every round.
CountAlways(w, n) ==
  [w EXCEPT !.held = n, !.sent = 0, !.i = @ + 1,
            !.pc = IF ~visited /\ w.i = 2 THEN "inject" ELSE "send"]
ResetCounter(w, n) ==
  [w EXCEPT !.held = n, !.sent = 0, !.i = 1, !.pc = "send"]
Received(w, n) ==
  [w EXCEPT !.held = n, !.sent = 0,
            !.i = IF visited THEN @ ELSE @ + 1,
            !.pc = IF ~visited /\ w.i = 2 THEN "inject" ELSE "send"]

Receive(j) ==
  LET l == link[j]
  IN /\ WorkerAt(j, "recv")
     /\ \/ \E n \in 1..l.up :
             WorkerStep(j, Received(worker[j], n), [l EXCEPT !.up = @ - n])
        \/ /\ l.reset \/ (l.cli = "closed" /\ l.up = 0)
           /\ WorkerStep(j, [worker[j] EXCEPT !.pc = "egress"], l)

\* Two workers that have both read visited as FALSE both get here.
Inject(j) ==
  /\ WorkerAt(j, "inject")
  /\ visited' = TRUE
  /\ worker' = [worker EXCEPT ![j].pc = "send"]
  /\ UNCHANGED <<runVars, server, reporter, dead, cause, link, client, clientVars>>

\* One more unit of what was received is sent.
SentOne(w) ==
  [w EXCEPT !.held = @ - 1, !.sent = @ + 1, !.pc = IF w.held = 1 THEN "recv" ELSE @]
NextReceive(w) == [w EXCEPT !.held = 0, !.sent = 0, !.pc = "recv"]

\* send() makes progress as the peer's side has room; the peer may be gone.
Send(j) ==
  LET l == link[j]
      w == worker[j]
  IN /\ WorkerAt(j, "send")
     /\ \/ /\ ~l.reset /\ l.cli = "open" /\ l.down < Capacity
           /\ WorkerStep(j, SentOne(w), [l EXCEPT !.down = @ + 1])
        \/ /\ ~l.reset /\ l.cli = "closed"
           /\ WorkerStep(j, NextReceive(w), [l EXCEPT !.reset = TRUE])
        \/ l.reset /\ w.sent > 0 /\ WorkerStep(j, NextReceive(w), l)
        \/ l.reset /\ w.sent = 0 /\ WorkerStep(j, [w EXCEPT !.pc = "egress"], l)
        \/ l.reset /\ w.sent = 0 /\ ServerDies("SIGPIPE")

Egress(j) ==
  /\ WorkerAt(j, "egress")
  /\ WorkerStep(j, [worker[j] EXCEPT !.pc = "ended"], CloseServerEnd(link[j]))

-----------------------------------------------------------------------------
(* The smashed heap and the panic handler                                  *)

\* visited is set right before the heap is smashed.
HeapSmashed == visited

Exists(t) ==
  IF t = Main THEN server = "accept" ELSE worker[t].pc \notin {"none", "ended"}

\* Any thread may trip over the heap, in its own code or in the handler.
Fault(t, s) ==
  /\ HeapSmashed
  /\ Exists(t)
  /\ \A n \in DOMAIN raised[t] : stage[raised[t][n]] = "running"
  /\ \/ /\ Crash!Enter(s)
        /\ raised' = [raised EXCEPT ![t] = Append(@, s)]
        /\ UNCHANGED <<runVars, serverVars, cause, link, client, clientVars>>
     \/ Crash!Die(s) /\ ServerGone("fault")

Innermost(t, s) == raised[t] # <<>> /\ raised[t][Len(raised[t])] = s

\* The handler comes to its end, and the faulting instruction is repeated.
Report(t, s) ==
  /\ Innermost(t, s)
  /\ Crash!Finish(s)
  /\ UNCHANGED <<runVars, serverVars, raised, cause, link, client, clientVars>>

Refault(t, s) ==
  /\ Innermost(t, s)
  /\ stage[s] = "done"
  /\ Crash!Die(s)
  /\ ServerGone("fault")

-----------------------------------------------------------------------------
(* client.c                                                                *)

ClientRuns == client = "running"

Connect ==
  /\ ClientRuns
  /\ job <= NumJobs
  /\ server = "accept"
  /\ ~dead
  /\ Cardinality(Queue) <= Backlog
  /\ SetLink(job, [NoLink EXCEPT !.cli = "open", !.srv = "queued"])
  /\ sender' = [sender EXCEPT ![job].pc = "send"]
  /\ receiver' = [receiver EXCEPT ![job] = "recv"]
  /\ job' = job + 1
  /\ UNCHANGED <<runVars, serverVars, reporter, dead, cause, client>>

\* Nobody listens: the client exits, under its running threads.  Mutant: it
\* tries again.
TryAgain ==
  /\ ClientRuns
  /\ job <= NumJobs
  /\ server # "accept" \/ dead
  /\ UNCHANGED vars
Refused ==
  /\ ClientRuns
  /\ job <= NumJobs
  /\ server # "accept" \/ dead
  /\ ClientEnds("ECONNREFUSED")

\* socket(), or connect() for another reason, fails for want of a descriptor, a
\* port or memory; that has nothing to do with the server.
OutOfSockets ==
  /\ ClientRuns
  /\ job <= NumJobs
  /\ ClientEnds("EMFILE")

SenderStep(j, s, l) ==
  /\ sender' = [sender EXCEPT ![j] = s]
  /\ SetLink(j, l)
  /\ UNCHANGED <<runVars, serverVars, reporter, dead, cause, client, job, receiver>>

NextSend(s) == [s EXCEPT !.left = BUFFER_SIZE]

\* send() of run_sender, and sleep(1) after it.
SendBuffer(j) ==
  LET l == link[j]
      s == sender[j]
  IN /\ ClientRuns
     /\ s.pc = "send"
     /\ \/ /\ ~l.reset /\ l.srv # "closed" /\ l.up < Capacity
           /\ SenderStep(j, IF s.left = 1 THEN NextSend(s) ELSE [s EXCEPT !.left = @ - 1],
                         [l EXCEPT !.up = @ + 1])
        \/ /\ ~l.reset /\ l.srv = "closed"
           /\ SenderStep(j, NextSend(s), [l EXCEPT !.reset = TRUE])
        \/ l.reset /\ s.left < BUFFER_SIZE /\ SenderStep(j, NextSend(s), l)
        \/ l.reset /\ s.left = BUFFER_SIZE /\ SenderStep(j, [s EXCEPT !.pc = "done"], l)
        \/ l.reset /\ s.left = BUFFER_SIZE /\ ClientEnds("SIGPIPE")

\* What recv(MSG_WAITALL) may take: it empties the socket while it waits for a
\* whole buffer.  Mutant: it takes nothing before a whole buffer is there.
TakeWhole(l) == {BUFFER_SIZE} \cap 1..l.down
Takes(l) == 1..l.down

\* recv() of run_receiver returns 0 or an error.
Disconnected(l) == l.reset \/ (l.srv = "closed" /\ l.down = 0)

ReceiveEcho(j) ==
  /\ ClientRuns
  /\ receiver[j] = "recv"
  /\ \/ \E n \in Takes(link[j]) :
          SetLink(j, [link[j] EXCEPT !.down = @ - n]) /\ UNCHANGED receiver
     \/ /\ Disconnected(link[j])
        /\ receiver' = [receiver EXCEPT ![j] = "done"]
        /\ UNCHANGED link
  /\ UNCHANGED <<runVars, serverVars, reporter, dead, cause, client, job, sender>>

\* main has joined all threads.  Its own errno is what its last call to set it
\* left there: 0, or that of a call which may set it though it succeeds.
ExitClient ==
  /\ ClientRuns
  /\ job > NumJobs
  /\ \A j \in Jobs : sender[j].pc = "done" /\ receiver[j] = "done"
  /\ ClientEnds("0") \/ ClientEnds("errno")

\* Somebody else ends the client.
KillClient == ClientRuns /\ ClientEnds("SIGTERM")

-----------------------------------------------------------------------------
(* run_ of .plano.py, with start, run, wait and PlanoProcess of plano      *)

\* What Popen makes of the way the client ended.
ExitCode == [e \in {"0", "errno", "EMFILE", "ECONNREFUSED", "SIGPIPE", "SIGTERM"} |->
               CASE e = "0" -> 0 [] e = "errno" -> 1
                 [] e = "EMFILE" -> 24 [] e = "ECONNREFUSED" -> 111
                 [] e = "SIGPIPE" -> -13 [] e = "SIGTERM" -> -15]

\* "if check and proc.exit_code > 0".  Mutant: any code but 0.
NotZero(code) == code # 0
CheckFails(code) == code > 0

UnchangedByRun ==
  UNCHANGED <<visited, worker, reporter, dead, cause, link, clientVars>>

StartServer ==
  /\ run = "start"
  /\ run' = "sleep"
  /\ server' = "install"
  /\ UNCHANGED <<verdict, terminating, client>>
  /\ UnchangedByRun

\* sleep(1) is over, however far the server has come.
StartClient ==
  /\ run = "sleep"
  /\ run' = "client"
  /\ client' = "running"
  /\ UNCHANGED <<verdict, terminating, server>>
  /\ UnchangedByRun

\* run() returns when the client has ended.  Mutant: as start() does, at once.
StartOnly == TRUE
ClientEnded == client \in DOMAIN ExitCode

AwaitClient ==
  /\ run = "client"
  /\ ClientEnded
  /\ run' = "kill"
  /\ verdict' = IF \E e \in DOMAIN ExitCode : e = client /\ CheckFails(ExitCode[e])
                THEN "failed" ELSE "ok"
  /\ UNCHANGED <<terminating, server, client>>
  /\ UnchangedByRun

\* __exit__ kills the server, whatever the block raised.  Mutant: only when
\* it raised nothing.
KillIfOk == verdict = "ok" /\ ~dead
KillServer == ~dead

Exit ==
  /\ run = "kill"
  /\ run' = "done"
  /\ terminating' = KillServer
  /\ UNCHANGED <<verdict, server, client>>
  /\ UnchangedByRun

\* SIGTERM, which the panic handler is not installed for, ends the server.
Terminated ==
  /\ terminating
  /\ ~dead
  /\ ServerDies("SIGTERM")

Finished ==
  /\ run = "done"
  /\ UNCHANGED vars

-----------------------------------------------------------------------------
WorkerNext(j) == Receive(j) \/ Inject(j) \/ Send(j) \/ Egress(j)
Reporter(t) == \E s \in Signals : Report(t, s) \/ Refault(t, s)
ServerMain == (\E s \in Signals : Install(s)) \/ Listen \/ Accept
ClientMain == Connect \/ Refused \/ ExitClient
RunNext == StartServer \/ StartClient \/ AwaitClient \/ Exit

Next ==
  \/ ServerMain
  \/ \E j \in Jobs : WorkerNext(j) \/ SendBuffer(j) \/ ReceiveEcho(j)
  \/ \E t \in Threads : Reporter(t) \/ (\E s \in Signals : Fault(t, s))
  \/ ClientMain \/ OutOfSockets
  \/ KillClient
  \/ RunNext
  \/ Terminated
  \/ Finished

Spec == Init /\ [][Next]_vars

\* Every thread that can make a step makes one; pending signals are delivered.
\* Nothing makes a smashed heap be noticed, or the sockets run out.
Fairness ==
  /\ WF_vars(ServerMain) /\ WF_vars(ClientMain) /\ WF_vars(RunNext)
  /\ WF_vars(Terminated)
  /\ \A t \in Threads : WF_vars(Reporter(t))
  /\ \A j \in Jobs :
       WF_vars(WorkerNext(j)) /\ WF_vars(SendBuffer(j)) /\ WF_vars(ReceiveEcho(j))

FairSpec == Spec /\ Fairness

-----------------------------------------------------------------------------
(* Properties                                                              *)

Ends == {"none", "queued", "open", "closed"}

TypeOK ==
  /\ run \in {"start", "sleep", "client", "kill", "done"}
  /\ verdict \in {"none", "ok", "failed"}
  /\ terminating \in BOOLEAN
  /\ server \in {"none", "install", "accept"}
  /\ visited \in BOOLEAN
  /\ Crash!AbsTypeOK
  /\ raised \in [Threads -> Seq(Signals)]
  /\ cause \in {"none", "exit", "fault", "SIGPIPE", "SIGTERM"}
  /\ worker \in [Jobs -> [pc : {"none", "recv", "inject", "send", "egress", "ended"},
                          i : 0..3, held : 0..Capacity, sent : 0..Capacity]]
  /\ link \in [Jobs -> [cli : Ends, srv : Ends, reset : BOOLEAN,
                        up : 0..Capacity, down : 0..Capacity]]
  /\ client \in DOMAIN ExitCode \cup {"none", "running"}
  /\ job \in 1..NumJobs + 1
  /\ sender \in [Jobs -> [pc : {"none", "send", "done"}, left : 1..BUFFER_SIZE]]
  /\ receiver \in [Jobs -> {"none", "recv", "done"}]

\* A report that has begun is cut off by another fault only: although run_ does
\* not wait for the server it kills (.plano.py:38-40), and a worker may die of
\* SIGPIPE, neither happens while a report is being written, unless somebody
\* killed the client or it found no more sockets.
ReportNotCut ==
  dead /\ (\E s \in Signals : stage[s] = "running") =>
    cause = "fault" \/ client \in {"SIGTERM", "EMFILE"}

\* A run that is served does not fail: run_ fails only if the client could not
\* open one of its connections, or if all its threads ended, which takes the
\* death of the server, and main was left with an errno.  However that death
\* reaches the threads, as an end of file, an error or SIGPIPE, it does not
\* fail the run by itself (main.py:1224).
ServedRunSucceeds ==
  verdict = "failed" =>
    \/ client \in {"ECONNREFUSED", "EMFILE"} /\ \E j \in Jobs : link[j].cli = "none"
    \/ client = "errno" /\ dead

\* The scenario reaches its crash: once all jobs are connected some worker
\* smashes the heap, unless server or client have ended.
InjectionHappens ==
  (ClientRuns /\ job > NumJobs) ~> (visited \/ dead \/ ~ClientRuns)

\* A buffer whose sending has begun is sent to the end or given up, although
\* client and server both send into full sockets: the echo never jams.
EchoFlows ==
  \A j \in Jobs :
    (ClientRuns /\ sender[j].left < BUFFER_SIZE) ~>
      (~ClientRuns \/ sender[j].left = BUFFER_SIZE)

\* The death of the server ends every thread of the client, and so the run.
CrashEndsRun == (dead /\ run = "client") ~> (run = "done")

\* A run that has ended, well or not, leaves no server behind.
NoOrphanServer == (run = "done") ~> dead

=============================================================================
