------------------------- MODULE ServiceControlProofs -------------------------
(***************************************************************************)
(* What the HTTP service owes to its requests, to the service manager and  *)
(* to the commands, for any number of connections, of stop requests and of *)
(* workers.                                                                *)
(***************************************************************************)
EXTENDS ServiceControl, TLAPS

Serving == {"loop", "accept", "drain"}                   \* there may be connections
Early   == {"start", "publish", "bind", "listen", "start_handler"}
Ending  == {"report", "leave", "exited", "crashed"}       \* the locals are gone
Told    == {"leave", "exited", "crashed"}                 \* the stop may have been reported
Mains   == Early \cup Serving \cup Ending \cup {"pool", "unpublish", "destroy"}

ConnStates == {"none", "queued", "open", "request", "inferring", "building", "closed"}
StopStates == {"none", "pending", "entered", "loaded", "checked", "taken", "done"}
ScmStates  == {"none", "START_PENDING", "RUNNING", "STOP_PENDING", "STOPPED"}

TypeOK ==
    /\ main \in Mains
    /\ engine \in {"none", "alive", "gone"}
    /\ server \in {"none", "alive", "gone"}
    /\ jobs \in Seq(Conns)
    /\ conn \in [Conns -> ConnStates]
    /\ held \subseteq Conns
    /\ stop \in [Stops -> StopStates]
    /\ scm \in ScmStates

\* The engine and the server are locals of RunHttpServer.
Locals ==
    /\ main = "start" => engine = "none"
    /\ main \notin Ending \cup {"start"} => engine = "alive"
    /\ main \in Ending => engine # "alive"
    /\ server = "gone" => main \in Ending

\* The queue holds connections that wait for a worker, each once.
Queue ==
    /\ \A i \in 1 .. Len(jobs) : conn[jobs[i]] = "queued"
    /\ \A i, j \in 1 .. Len(jobs) : jobs[i] = jobs[j] => i = j

\* Connections are served from the first turn of the loop until the workers are joined.
Connections ==
    /\ main \notin Serving => jobs = <<>> /\ \A c \in Conns : ~Owned(c)
    /\ held = {c \in Conns : conn[c] = "building"}

\* Nobody is told of a stop before the service may be stopped, or of its end before it.
Reports ==
    /\ main \in Early /\ ServiceMode => scm = "START_PENDING" /\ ~accepts_stop /\ \A s \in Stops : stop[s] = "none"
    /\ \A s \in Stops : stop[s] = "pending" => ServiceMode
    /\ scm = "STOPPED" => main \in Told

IInv == TypeOK /\ Locals /\ Queue /\ Connections /\ Reports

\* A service not started has done nothing; one to be deleted has ended or not started.
ControlInv ==
    /\ command # "idle" => ServiceMode
    /\ ~started => main = "start"
    /\ command = "delete" \/ outcome = "uninstalled" => ~started \/ main \in Told

USE DEF Serving, Early, Ending, Told, Mains, ConnStates, StopStates, ScmStates, ServiceMode, Ended, Owned

------------------------------------------------------------------------------
(* The thread in RunHttpServer.                                            *)

LEMMA InitIInv == Init => IInv
<1> SUFFICES ASSUME Init PROVE IInv
  OBVIOUS
<1>1. Queue
  BY DEF Init, Queue
<1>2. TypeOK /\ Locals
  BY DEF Init, TypeOK, Locals
<1>3. Connections
  BY DEF Init, Connections
<1>4. Reports
  BY DEF Init, Reports
<1>5. QED
  BY <1>1, <1>2, <1>3, <1>4 DEF IInv

\* Apart from its own place and what it reports, the thread moves the locals only.
LEMMA MainIInv ==
    ASSUME IInv, MainStep \/ AcceptFails
    PROVE  IInv'
<1> USE DEF IInv, TypeOK, Locals, Queue, Connections, Reports, conn_vars, scm_vars, server_vars
<1>1. CASE StartFails
  BY <1>1 DEF StartFails
<1>2. CASE StartEngine
  BY <1>2 DEF StartEngine
<1>3. CASE PageFails
  BY <1>3 DEF PageFails
<1>4. CASE Publish
  BY <1>4 DEF Publish
<1>5. CASE BindFails
  BY <1>5 DEF BindFails
<1>6. CASE Bind
  BY <1>6 DEF Bind
<1>7. CASE SetRunning
  BY <1>7 DEF SetRunning
<1>8. CASE StartHandler
  BY <1>8 DEF StartHandler
<1>9. CASE StartPool
  BY <1>9 DEF StartPool
<1>10. CASE Loop
  BY <1>10 DEF Loop
<1>11. CASE AcceptStopped
  BY <1>11 DEF AcceptStopped
<1>12. CASE Drain
  BY <1>12 DEF Drain
<1>13. CASE Unpublish
  BY <1>13 DEF Unpublish
<1>14. CASE Destroy
  BY <1>14 DEF Destroy
<1>15. CASE Report
  BY <1>15 DEF Report
<1>16. CASE Exit
  BY <1>16 DEF Exit
<1>17. CASE AcceptFails
  BY <1>17 DEF AcceptFails
<1>18. QED
  BY <1>1, <1>2, <1>3, <1>4, <1>5, <1>6, <1>7, <1>8, <1>9, <1>10, <1>11, <1>12, <1>13, <1>14, <1>15, <1>16, <1>17 DEF MainStep

\* A new connection waits behind the others.
LEMMA AcceptIInv ==
    ASSUME IInv, NEW c \in Conns, Accept(c)
    PROVE  IInv'
<1> USE DEF IInv
<1>1. /\ jobs \in Seq(Conns) /\ jobs' = Append(jobs, c)
      /\ conn[c] = "none" /\ conn'[c] = "queued" /\ \A d \in Conns \ {c} : conn'[d] = conn[d]
      /\ main = "accept" /\ main' = "loop" /\ held' = held
  BY DEF Accept, TypeOK
<1>2. TypeOK'
  BY <1>1 DEF Accept, TypeOK, server_vars, scm_vars
<1>3. Queue'
  <2>1. /\ Len(jobs') = Len(jobs) + 1 /\ jobs'[Len(jobs) + 1] = c
        /\ \A i \in 1 .. Len(jobs) : jobs'[i] = jobs[i] /\ jobs[i] \in Conns /\ jobs[i] # c
    BY <1>1 DEF Queue
  <2>2. QED
    BY <1>1, <2>1 DEF Queue
<1>4. Locals' /\ Reports'
  BY <1>1 DEF Accept, Locals, Reports, server_vars, scm_vars
<1>5. Connections'
  BY <1>1 DEF Connections
<1>6. QED
  BY <1>2, <1>3, <1>4, <1>5

------------------------------------------------------------------------------
(* The workers.                                                            *)

\* A worker takes the first connection of the queue.
LEMMA TakeIInv ==
    ASSUME IInv, NEW c \in Conns, Take(c)
    PROVE  IInv'
<1> USE DEF IInv
<1>1. /\ jobs \in Seq(Conns) /\ jobs # <<>> /\ jobs[1] = c /\ jobs' = Tail(jobs)
      /\ conn[c] = "queued" /\ conn'[c] = "open" /\ \A d \in Conns \ {c} : conn'[d] = conn[d]
      /\ held' = held /\ UnchangedByWorker
  BY DEF Take, TypeOK, Queue
<1>2. TypeOK'
  BY <1>1 DEF Take, TypeOK, UnchangedByWorker, server_vars, scm_vars
<1>3. Queue'
  <2>1. /\ Len(jobs') = Len(jobs) - 1
        /\ \A i \in 1 .. Len(jobs') : i + 1 \in 1 .. Len(jobs) /\ jobs'[i] = jobs[i + 1] /\ jobs[i + 1] \in Conns
    BY <1>1
  <2>2. \A i \in 1 .. Len(jobs') : jobs[i + 1] # c
    BY <1>1, <2>1 DEF Queue
  <2>3. \A i \in 1 .. Len(jobs') : conn'[jobs'[i]] = "queued"
    BY <1>1, <2>1, <2>2 DEF Queue
  <2>4. \A i, j \in 1 .. Len(jobs') : jobs'[i] = jobs'[j] => i = j
    BY <1>1, <2>1 DEF Queue
  <2>5. QED
    BY <2>3, <2>4 DEF Queue
<1>4. Locals' /\ Reports'
  BY <1>1 DEF UnchangedByWorker, Locals, Reports, server_vars, scm_vars
<1>5. Connections'
  BY <1>1 DEF Connections, UnchangedByWorker
<1>6. QED
  BY <1>2, <1>3, <1>4, <1>5

\* What a worker does with a connection that it owns.
LEMMA OwnedIInv ==
    ASSUME IInv, NEW c \in Conns, Owned(c), UnchangedByWorker, jobs' = jobs,
           NEW s \in {"open", "request", "inferring", "building", "closed"}, conn' = [conn EXCEPT ![c] = s],
           held' = IF s = "building" THEN held \cup {c} ELSE held \ {c}
    PROVE  IInv'
<1> USE DEF IInv
<1>1. /\ conn \in [Conns -> ConnStates]
      /\ conn'[c] = s /\ \A d \in Conns \ {c} : conn'[d] = conn[d]
  BY DEF TypeOK
<1>2. TypeOK'
  BY DEF UnchangedByWorker, TypeOK, server_vars, scm_vars
<1>3. Queue'
  <2>1. \A i \in 1 .. Len(jobs) : jobs[i] \in Conns /\ jobs[i] # c
    BY DEF Queue, TypeOK
  <2>2. QED
    BY <1>1, <2>1 DEF Queue
<1>4. Locals' /\ Reports'
  BY DEF UnchangedByWorker, Locals, Reports, server_vars, scm_vars
<1>5. Connections'
  BY <1>1 DEF Connections, UnchangedByWorker
<1>6. QED
  BY <1>2, <1>3, <1>4, <1>5

LEMMA WorkerIInv ==
    ASSUME IInv, NEW c \in Conns, ReadRequest(c) \/ WorkerStep(c)
    PROVE  IInv'
<1>0. held = {d \in Conns : conn[d] = "building"}
  BY DEF IInv, Connections
<1>a. ASSUME Respond(c)
      PROVE  \E s \in {"open", "closed"} : conn' = [conn EXCEPT ![c] = s]
  BY <1>a DEF Respond
<1>1. CASE ReadRequest(c) \/ HangUp(c) \/ AnswerDirectly(c) \/ Infer(c)
  <2>1. /\ Owned(c) /\ c \notin held /\ held' = held /\ jobs' = jobs /\ UnchangedByWorker
        /\ \E s \in {"open", "request", "inferring", "closed"} : conn' = [conn EXCEPT ![c] = s]
    BY <1>0, <1>1, <1>a DEF ReadRequest, HangUp, AnswerDirectly, Infer
  <2>2. QED
    BY <2>1, OwnedIInv
<1>2. CASE InferDone(c)
  <2>1. Owned(c) /\ c \notin held /\ jobs' = jobs /\ UnchangedByWorker
    BY <1>0, <1>2 DEF InferDone
  <2>2. \/ held' = held /\ \E s \in {"open", "closed"} : conn' = [conn EXCEPT ![c] = s]
        \/ held' = held \cup {c} /\ conn' = [conn EXCEPT ![c] = "building"]
    BY <1>2, <1>a DEF InferDone
  <2>3. QED
    BY <2>1, <2>2, OwnedIInv
<1>3. CASE Answer(c)
  <2>1. /\ Owned(c) /\ jobs' = jobs /\ held' = held \ {c} /\ UnchangedByWorker
        /\ \E s \in {"open", "closed"} : conn' = [conn EXCEPT ![c] = s]
    BY <1>3, <1>a DEF Answer
  <2>2. QED
    BY <2>1, OwnedIInv
<1>4. QED
  BY <1>1, <1>2, <1>3, TakeIInv DEF WorkerStep

------------------------------------------------------------------------------
(* The handlers of stop requests.                                          *)

\* They touch a server, dead or alive, and what the service reports; no more.
LEMMA StopIInv ==
    ASSUME IInv, NEW s \in Stops, StopStep(s) \/ Deliver(s)
    PROVE  IInv'
<1> USE DEF IInv
<1>1. Queue'
  BY DEF StopStep, Deliver, ReportPending, LoadServer, CheckRunning, TakeSocket, CloseSocket,
         TouchDeadServer, UnchangedByStop, conn_vars, Queue
<1>2. /\ UNCHANGED <<engine, server, jobs, conn, held>>
      /\ main' = main \/ (main' = "crashed" /\ main \in Ending)
  BY DEF StopStep, Deliver, ReportPending, LoadServer, CheckRunning, TakeSocket, CloseSocket,
         TouchDeadServer, UnchangedByStop, conn_vars, server_vars, Locals
<1>3. Locals' /\ Connections'
  BY <1>2 DEF Locals, Connections
<1>4. CASE Deliver(s)
  <2>1. TypeOK' /\ Reports'
    BY <1>2, <1>4 DEF Deliver, TypeOK, Reports, scm_vars
  <2>2. QED
    BY <1>1, <1>3, <2>1
<1>5. CASE ReportPending(s)
  <2>1. TypeOK' /\ Reports'
    BY <1>2, <1>5 DEF ReportPending, TypeOK, Reports
  <2>2. QED
    BY <1>1, <1>3, <2>1
<1>6. CASE StopStep(s) /\ ~ReportPending(s)
  <2>1. /\ stop[s] \notin {"none", "pending"} /\ UNCHANGED scm_vars
        /\ \E w \in StopStates \ {"none", "pending"} : stop' = [stop EXCEPT ![s] = w]
    BY <1>6 DEF StopStep, LoadServer, CheckRunning, TakeSocket, CloseSocket, TouchDeadServer
  <2>2. TypeOK' /\ Reports'
    BY <1>2, <2>1 DEF TypeOK, Reports, scm_vars
  <2>3. QED
    BY <1>1, <1>3, <2>2
<1>7. QED
  BY <1>4, <1>5, <1>6

LEMMA NextIInv ==
    ASSUME IInv, [Next]_vars
    PROVE  IInv'
<1>1. CASE UNCHANGED vars
  BY <1>1 DEF vars, conn_vars, scm_vars, server_vars, IInv, TypeOK, Locals, Queue, Connections, Reports
<1>2. QED
  BY <1>1, MainIInv, AcceptIInv, WorkerIInv, StopIInv DEF Next

\* IInv is an invariant of the service, whoever asks it to stop.
THEOREM ServiceInvariance == Spec => []IInv
BY InitIInv, NextIInv, PTL DEF Spec

\* A request captured the engine by reference and finds it alive: the workers are joined
\* before the thread leaves the scope in which both are.
THEOREM EngineIsThere == Spec => []EngineOutlivesRequests
<1>1. IInv => EngineOutlivesRequests
  BY DEF IInv, Locals, Connections, EngineOutlivesRequests, Handling
<1>2. QED
  BY ServiceInvariance, <1>1, PTL

\* A native result belongs to a handler in progress, and so to an engine that is alive.
THEOREM ResultsAreFreed == Spec => []ResultsReturned
<1>1. IInv => ResultsReturned
  BY DEF IInv, TypeOK, Locals, Connections, ResultsReturned
<1>2. QED
  BY ServiceInvariance, <1>1, PTL

\* The service manager is told of the end when it has come.
THEOREM StoppedIsReleased == Spec => []StoppedMeansReleased
<1>1. IInv => StoppedMeansReleased
  BY DEF IInv, Locals, Connections, Reports, StoppedMeansReleased
<1>2. QED
  BY ServiceInvariance, <1>1, PTL

\* Who is stopping does not run again: a stop is pending only after the start handler
\* has made its report, and the loop does not come back to it.
THEOREM StopIsFinal == Spec => StopNotRevoked
<1>1. ASSUME IInv, Next
      PROVE  scm = "STOP_PENDING" => scm' \in {"STOP_PENDING", "STOPPED"}
  <2>1. ASSUME scm = "STOP_PENDING"
        PROVE  ~StartHandler
    BY <1>1, <2>1 DEF IInv, Reports, StartHandler
  <2>2. ASSUME MainStep \/ AcceptFails, ~StartHandler
        PROVE  scm' = scm \/ scm' = "STOPPED"
    BY <2>2 DEF MainStep, AcceptFails, StartFails, StartEngine, PageFails, Publish, BindFails, Bind,
                SetRunning, StartPool, Loop, AcceptStopped, Drain, Unpublish, Destroy, Report, Exit, scm_vars
  <2>3. ASSUME NEW c \in Conns, Accept(c) \/ ReadRequest(c) \/ WorkerStep(c)
        PROVE  scm' = scm
    BY <2>3 DEF Accept, ReadRequest, WorkerStep, Take, HangUp, AnswerDirectly, Infer, InferDone, Answer,
                UnchangedByWorker, scm_vars
  <2>4. ASSUME NEW s \in Stops, StopStep(s) \/ Deliver(s)
        PROVE  scm' = scm \/ scm' = "STOP_PENDING"
    BY <2>4 DEF StopStep, Deliver, ReportPending, LoadServer, CheckRunning, TakeSocket, CloseSocket,
                TouchDeadServer, scm_vars
  <2>5. QED
    BY <1>1, <2>1, <2>2, <2>3, <2>4 DEF Next
<1>2. IInv /\ [Next]_vars => [scm = "STOP_PENDING" => scm' \in {"STOP_PENDING", "STOPPED"}]_scm
  BY <1>1 DEF vars, scm_vars
<1>3. QED
  BY ServiceInvariance, <1>2, PTL DEF Spec, StopNotRevoked

------------------------------------------------------------------------------
(* The commands.                                                           *)

\* For the service a command is nothing but a stop request the manager delivers.
LEMMA ControlIsService == [ControlNext]_control_all => [Next]_vars
BY DEF ControlNext, control_all, CreateService, OpenService, ControlStep, StartService, QueryStatus,
       SendStop, SendStopFails, StopSent, Poll, DeleteService, Next

\* With the commands at work the service is still the one described by Spec.
THEOREM CommandsAreClients == ControlSpec => Spec
<1>1. ControlInit => Init
  BY DEF ControlInit
<1>2. QED
  BY <1>1, ControlIsService, PTL DEF ControlSpec, Spec

\* Once at its end the service stays there, and it stays what it was started as.
LEMMA NextIsFinal ==
    ASSUME IInv, [Next]_vars
    PROVE  /\ main \in Told => main' \in Told
           /\ ServiceMode <=> ServiceMode'
<1>1. ASSUME MainStep \/ AcceptFails
      PROVE  /\ main \in Told => main' \in Told
             /\ ServiceMode <=> ServiceMode'
  BY <1>1 DEF MainStep, AcceptFails, StartFails, StartEngine, PageFails, Publish, BindFails, Bind, SetRunning,
              StartHandler, StartPool, Loop, AcceptStopped, Drain, Unpublish, Destroy, Report, Exit, scm_vars
<1>2. ASSUME NEW c \in Conns, Accept(c) \/ ReadRequest(c) \/ WorkerStep(c)
      PROVE  /\ main \in Told => main' \in Told
             /\ scm' = scm
  BY <1>2 DEF Accept, ReadRequest, WorkerStep, Take, HangUp, AnswerDirectly, Infer, InferDone, Answer,
              UnchangedByWorker, scm_vars
<1>3. ASSUME NEW s \in Stops, StopStep(s) \/ Deliver(s)
      PROVE  /\ main \in Told => main' \in Told
             /\ ServiceMode <=> ServiceMode'
  BY <1>3 DEF StopStep, Deliver, ReportPending, LoadServer, CheckRunning, TakeSocket, CloseSocket,
              TouchDeadServer, scm_vars, IInv, Reports
<1>4. QED
  BY <1>1, <1>2, <1>3 DEF Next, vars, scm_vars

LEMMA ControlStepInv ==
    ASSUME IInv, ControlInv, [ControlNext]_control_all
    PROVE  ControlInv'
<1> USE DEF ControlInv
<1>0. /\ main \in Told => main' \in Told
      /\ ServiceMode <=> ServiceMode'
  BY ControlIsService, NextIsFinal
<1> HIDE DEF ServiceMode
<1>1. CASE started /\ Next /\ UNCHANGED control_vars
  BY <1>0, <1>1 DEF control_vars
<1>2. CASE CreateService
  BY <1>0, <1>2 DEF CreateService, Return, vars
<1>3. CASE OpenService
  BY <1>0, <1>3 DEF OpenService, Return, vars
<1>4. CASE StartService
  BY <1>0, <1>4 DEF StartService, Return, vars
<1>5. ASSUME StatusStopped, command # "idle"
      PROVE  ~started \/ main \in Told
  BY <1>5 DEF StatusStopped, IInv, Reports
<1>6. CASE QueryStatus
  BY <1>0, <1>5, <1>6 DEF QueryStatus, vars
<1>7. CASE SendStop
  <2>1. main' = main
    BY <1>7 DEF SendStop, Deliver
  <2>2. QED
    BY <1>0, <1>7, <2>1 DEF SendStop
<1>8. CASE SendStopFails
  BY <1>0, <1>8 DEF SendStopFails, Return, vars
<1>9. CASE StopSent
  BY <1>0, <1>9 DEF StopSent, vars
<1>10. CASE Poll
  BY <1>0, <1>5, <1>10 DEF Poll, Return, vars
<1>11. CASE DeleteService
  BY <1>0, <1>11 DEF DeleteService, Return, vars
<1>12. CASE UNCHANGED control_all
  BY <1>0, <1>12 DEF control_all, control_vars, vars
<1>13. QED
  BY <1>1, <1>2, <1>3, <1>4, <1>6, <1>7, <1>8, <1>9, <1>10, <1>11, <1>12 DEF ControlNext, ControlStep

THEOREM ControlInvariance == ControlSpec => [](IInv /\ ControlInv)
<1>1. ControlInit => ControlInv
  BY DEF ControlInit, Init, ControlInv
<1>2. ControlSpec => []IInv
  BY CommandsAreClients, ServiceInvariance
<1>3. QED
  BY <1>1, <1>2, ControlStepInv, PTL DEF ControlSpec

\* "Uninstalled" is said of a service that never started, or whose process has let
\* everything go.
THEOREM UninstalledIsReleased == ControlSpec => []UninstalledMeansReleased
<1>1. IInv /\ ControlInv => UninstalledMeansReleased
  BY DEF IInv, Locals, Connections, ControlInv, UninstalledMeansReleased
<1>2. QED
  BY ControlInvariance, <1>1, PTL
==============================================================================
