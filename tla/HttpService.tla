----------------------------- MODULE HttpService -----------------------------
(***************************************************************************)
(* The HTTP service: the thread in RunHttpServer, the pool of workers that *)
(* answer connections with the one OCR engine, and the handlers that ask   *)
(* the server to stop (signals, console events, or the controls of the     *)
(* Windows service manager).                                               *)
(*                                                                         *)
(* The engine and the server are locals of RunHttpServer: requests use the *)
(* first, and stop handlers reach the second through g_active_server with  *)
(* no lock.  The server itself is cpp-httplib; of it the model keeps what  *)
(* the service depends on: is_running_, the listening socket, the job      *)
(* queue, keep-alive, and the wait for the workers before listen returns.  *)
(***************************************************************************)
EXTENDS Integers, Sequences, FiniteSets

CONSTANTS
    Conns,         \* connections clients may open
    Stops,         \* requests to stop, each handled by a call of the handler
    WorkerThreads, \* config.worker_threads
    MaxRequests    \* bound: requests on one kept-alive connection (100 in cpp-httplib)

ASSUME ServiceAssumption ==
    /\ WorkerThreads \in Nat \ {0}
    /\ MaxRequests \in Nat \ {0}

VARIABLES
    main,            \* where the thread in RunHttpServer is
    engine,          \* the local OcrEngine: "none", "alive" or "gone"
    server,          \* the local httplib::Server: likewise
    g_active_server, \* does the global point to it?
    is_running,      \* is_running_
    svr_sock,        \* is svr_sock_ a socket, and not INVALID_SOCKET?
    listening,       \* does the system accept connections on the socket?
    jobs,            \* the pool's queue of connections
    conn,            \* [Conns -> state of a connection]
    left,            \* [Conns -> requests its keep-alive count still allows]
    held,            \* connections whose handler holds a native result
    stop,            \* [Stops -> where the handler of a stop request is]
    scm,             \* the state last reported to the service manager; "none" in a console
    accepts_stop     \* may a stop request be delivered?

server_vars == <<server, g_active_server, is_running, svr_sock, listening>>
conn_vars   == <<jobs, conn, left, held>>
scm_vars    == <<scm, accepts_stop>>
vars        == <<main, engine, server_vars, conn_vars, stop, scm_vars>>

Init ==
    /\ main = "start"
    /\ engine = "none"
    /\ server = "none"
    /\ g_active_server = FALSE
    /\ is_running = FALSE
    /\ svr_sock = FALSE
    /\ listening = FALSE
    /\ jobs = <<>>
    /\ conn = [c \in Conns |-> "none"]
    /\ left = [c \in Conns |-> MaxRequests]
    /\ held = {}
    /\ stop = [s \in Stops |-> "none"]
    /\ scm \in {"none", "START_PENDING"}
    /\ accepts_stop = (scm = "none")

\* service_mode: run by the service manager rather than in a console.
ServiceMode == scm # "none"

Ended == main \in {"exited", "crashed"}

\* A worker thread owns the connection; a handler is answering a request on it.
Owned(c) == conn[c] \in {"open", "request", "inferring", "building"}
Handling(c) == conn[c] \in {"request", "inferring", "building"}

------------------------------------------------------------------------------
(* The thread in RunHttpServer.                                            *)

\* LoadConfig, the engine or its capabilities fail: nothing is left behind.
StartFails ==
    /\ main = "start"
    /\ main' = "report"
    /\ UNCHANGED <<engine, server_vars, conn_vars, stop, scm_vars>>

\* Mutant: the stop control is accepted as soon as the service starts.
StartEngineStoppable ==
    /\ main = "start"
    /\ engine' = "alive"
    /\ main' = "publish"
    /\ accepts_stop' = TRUE
    /\ UNCHANGED <<server_vars, conn_vars, stop, scm>>

StartEngine ==
    /\ main = "start"
    /\ engine' = "alive"
    /\ main' = "publish"
    /\ UNCHANGED <<server_vars, conn_vars, stop, scm_vars>>

\* The page cannot be read: only the engine is to be destroyed.
PageFails ==
    /\ main = "publish"
    /\ main' = "destroy"
    /\ UNCHANGED <<engine, server_vars, conn_vars, stop, scm_vars>>

Publish ==
    /\ main = "publish"
    /\ server' = "alive"
    /\ g_active_server' = TRUE
    /\ main' = "bind"
    /\ UNCHANGED <<engine, is_running, svr_sock, listening, conn_vars, stop, scm_vars>>

BindFails ==
    /\ main = "bind"
    /\ main' = "unpublish"
    /\ UNCHANGED <<engine, server_vars, conn_vars, stop, scm_vars>>

Bind ==
    /\ main = "bind"
    /\ svr_sock' = TRUE
    /\ listening' = TRUE
    /\ main' = "listen"
    /\ UNCHANGED <<engine, server, g_active_server, is_running, conn_vars, stop, scm_vars>>

SetRunning ==
    /\ main = "listen"
    /\ is_running' = TRUE
    /\ main' = "start_handler"
    /\ UNCHANGED <<engine, server, g_active_server, svr_sock, listening, conn_vars, stop, scm_vars>>

\* The start handler tells the service manager that the service runs and may be stopped.
StartHandler ==
    /\ main = "start_handler"
    /\ IF ServiceMode THEN scm' = "RUNNING" /\ accepts_stop' = TRUE ELSE UNCHANGED scm_vars
    /\ main' = "pool"
    /\ UNCHANGED <<engine, server_vars, conn_vars, stop>>

\* new_task_queue: the threads are created, or one cannot be; then the exception
\* passes over g_active_server.store(nullptr).
StartPool ==
    /\ main = "pool"
    /\ \/ main' = "loop" /\ UNCHANGED is_running
       \/ main' = "destroy" /\ is_running' = FALSE
    /\ UNCHANGED <<engine, server, g_active_server, svr_sock, listening, conn_vars, stop, scm_vars>>

\* The loop reads svr_sock_ before it waits for a connection.
Loop ==
    /\ main = "loop"
    /\ main' = IF svr_sock THEN "accept" ELSE "drain"
    /\ UNCHANGED <<engine, server_vars, conn_vars, stop, scm_vars>>

Accept(c) ==
    /\ main = "accept"
    /\ listening
    /\ conn[c] = "none"
    /\ conn' = [conn EXCEPT ![c] = "queued"]
    /\ jobs' = Append(jobs, c)
    /\ main' = "loop"
    /\ UNCHANGED <<engine, server_vars, left, held, stop, scm_vars>>

\* accept fails because a handler has taken the socket away.
AcceptStopped ==
    /\ main = "accept"
    /\ ~svr_sock
    /\ main' = "drain"
    /\ UNCHANGED <<engine, server_vars, conn_vars, stop, scm_vars>>

\* accept fails by itself: the socket is closed, svr_sock_ keeps its number.
AcceptFails ==
    /\ main = "accept"
    /\ svr_sock
    /\ listening' = FALSE
    /\ main' = "drain"
    /\ UNCHANGED <<engine, server, g_active_server, is_running, svr_sock, conn_vars, stop, scm_vars>>

\* Mutant: the workers are not waited for.
DrainWithoutJoin ==
    /\ main = "drain"
    /\ is_running' = FALSE
    /\ main' = "unpublish"
    /\ UNCHANGED <<engine, server, g_active_server, svr_sock, listening, conn_vars, stop, scm_vars>>

\* task_queue->shutdown() joins the workers, who leave when the queue is empty.
Drain ==
    /\ main = "drain"
    /\ jobs = <<>>
    /\ \A c \in Conns : ~Owned(c)
    /\ is_running' = FALSE
    /\ main' = "unpublish"
    /\ UNCHANGED <<engine, server, g_active_server, svr_sock, listening, conn_vars, stop, scm_vars>>

\* Mutant: the stop is reported when the loop has ended.
UnpublishReports ==
    /\ main = "unpublish"
    /\ g_active_server' = FALSE
    /\ scm' = IF ServiceMode THEN "STOPPED" ELSE scm
    /\ main' = "destroy"
    /\ UNCHANGED <<engine, server, is_running, svr_sock, listening, conn_vars, stop, accepts_stop>>

Unpublish ==
    /\ main = "unpublish"
    /\ g_active_server' = FALSE
    /\ main' = "destroy"
    /\ UNCHANGED <<engine, server, is_running, svr_sock, listening, conn_vars, stop, scm_vars>>

\* Locals die in reverse order: the server, then the engine.
Destroy ==
    /\ main = "destroy"
    /\ server' = IF server = "alive" THEN "gone" ELSE server
    /\ engine' = "gone"
    /\ main' = "report"
    /\ UNCHANGED <<g_active_server, is_running, svr_sock, listening, conn_vars, stop, scm_vars>>

\* ReportServiceStopped.
Report ==
    /\ main = "report"
    /\ IF ServiceMode THEN scm' = "STOPPED" /\ accepts_stop' = FALSE ELSE UNCHANGED scm_vars
    /\ main' = "leave"
    /\ UNCHANGED <<engine, server_vars, conn_vars, stop>>

Exit ==
    /\ main = "leave"
    /\ main' = "exited"
    /\ UNCHANGED <<engine, server_vars, conn_vars, stop, scm_vars>>

MainStep ==
    \/ StartFails \/ StartEngine \/ PageFails \/ Publish \/ BindFails \/ Bind \/ SetRunning
    \/ StartHandler \/ StartPool \/ Loop \/ AcceptStopped \/ Drain \/ Unpublish \/ Destroy \/ Report
    \/ Exit

------------------------------------------------------------------------------
(* The workers: process_and_close_socket and the handlers of a request.    *)

UnchangedByWorker == UNCHANGED <<main, engine, server_vars, stop, scm_vars>>

Take(c) ==
    /\ jobs # <<>> /\ Head(jobs) = c
    /\ Cardinality({d \in Conns : Owned(d)}) < WorkerThreads
    /\ jobs' = Tail(jobs)
    /\ conn' = [conn EXCEPT ![c] = "open"]
    /\ UNCHANGED <<left, held>>
    /\ UnchangedByWorker

\* A request arrives on the connection; one that is there already is read even if
\* the server is stopping.
ReadRequest(c) ==
    /\ ~Ended
    /\ conn[c] = "open"
    /\ conn' = [conn EXCEPT ![c] = "request"]
    /\ UNCHANGED <<jobs, left, held>>
    /\ UnchangedByWorker

\* Mutant: a silent client is waited for until the server stops.
HangUpOnStop(c) ==
    /\ conn[c] = "open"
    /\ ~svr_sock
    /\ conn' = [conn EXCEPT ![c] = "closed"]
    /\ UNCHANGED <<jobs, left, held>>
    /\ UnchangedByWorker

\* The client goes, is silent for too long, or the server is stopping.
HangUp(c) ==
    /\ conn[c] = "open"
    /\ conn' = [conn EXCEPT ![c] = "closed"]
    /\ UNCHANGED <<jobs, left, held>>
    /\ UnchangedByWorker

\* Mutant: the keep-alive count is not used up.
RespondForever(c) == conn' = [conn EXCEPT ![c] = "open"] /\ UNCHANGED left

\* The response is written, and the connection kept while its count allows it.
Respond(c) ==
    /\ left' = [left EXCEPT ![c] = @ - 1]
    /\ conn' = [conn EXCEPT ![c] = IF left[c] = 1 THEN "closed" ELSE "open"]

\* No inference: the page, /health, 401, a malformed body or image, or too many images.
AnswerDirectly(c) ==
    /\ conn[c] = "request"
    /\ Respond(c)
    /\ UNCHANGED <<jobs, held>>
    /\ UnchangedByWorker

\* The image is decoded: OcrEngine::Run or RecognizeBatch calls the engine.
Infer(c) ==
    /\ conn[c] = "request"
    /\ conn' = [conn EXCEPT ![c] = "inferring"]
    /\ UNCHANGED <<jobs, left, held>>
    /\ UnchangedByWorker

\* The call fails and throws, which is answered with status 500; or it returns a result.
InferDone(c) ==
    /\ conn[c] = "inferring"
    /\ \/ Respond(c) /\ UNCHANGED held
       \/ /\ held' = held \cup {c}
          /\ conn' = [conn EXCEPT ![c] = "building"]
          /\ UNCHANGED left
    /\ UNCHANGED jobs
    /\ UnchangedByWorker

\* Mutant: the result is freed on the normal path only.
AnswerLeaks(c) ==
    /\ conn[c] = "building"
    /\ \E thrown \in BOOLEAN : held' = IF thrown THEN held ELSE held \ {c}
    /\ Respond(c)
    /\ UNCHANGED jobs
    /\ UnchangedByWorker

\* The JSON is built or an exception stops it; both paths free the result.
Answer(c) ==
    /\ conn[c] = "building"
    /\ held' = held \ {c}
    /\ Respond(c)
    /\ UNCHANGED jobs
    /\ UnchangedByWorker

WorkerStep(c) ==
    /\ ~Ended
    /\ \/ Take(c) \/ HangUp(c) \/ AnswerDirectly(c) \/ Infer(c) \/ InferDone(c) \/ Answer(c)

------------------------------------------------------------------------------
(* Stop handlers: SignalHandler, ConsoleControlHandler, ServiceControlHandler *)
(* and the httplib::Server::stop they call.                                *)

UnchangedByStop == UNCHANGED <<engine, conn_vars>>

\* A handler is entered.  The service manager delivers one control at a time, and
\* only those the service said it accepts.
Deliver(s) ==
    /\ stop[s] = "none"
    /\ accepts_stop
    /\ ServiceMode => \A r \in Stops : stop[r] \in {"none", "done"}
    /\ stop' = [stop EXCEPT ![s] = IF ServiceMode THEN "pending" ELSE "entered"]
    /\ UNCHANGED <<main, server_vars, scm_vars>>
    /\ UnchangedByStop

ReportPending(s) ==
    /\ stop[s] = "pending"
    /\ scm' = "STOP_PENDING"
    /\ accepts_stop' = FALSE
    /\ stop' = [stop EXCEPT ![s] = "entered"]
    /\ UNCHANGED <<main, server_vars>>
    /\ UnchangedByStop

\* Without a server the request is swallowed: the handler returns and nothing remembers it.
LoadServer(s) ==
    /\ stop[s] = "entered"
    /\ stop' = [stop EXCEPT ![s] = IF g_active_server THEN "loaded" ELSE "done"]
    /\ UNCHANGED <<main, server_vars, scm_vars>>
    /\ UnchangedByStop

\* stop() does nothing to a server that is not running yet, or no more.
CheckRunning(s) ==
    /\ stop[s] = "loaded"
    /\ server = "alive"
    /\ stop' = [stop EXCEPT ![s] = IF is_running THEN "checked" ELSE "done"]
    /\ UNCHANGED <<main, server_vars, scm_vars>>
    /\ UnchangedByStop

TakeSocket(s) ==
    /\ stop[s] = "checked"
    /\ server = "alive"
    /\ svr_sock' = FALSE
    /\ stop' = [stop EXCEPT ![s] = IF svr_sock THEN "taken" ELSE "done"]
    /\ UNCHANGED <<main, server, g_active_server, is_running, listening, scm_vars>>
    /\ UnchangedByStop

CloseSocket(s) ==
    /\ stop[s] = "taken"
    /\ listening' = FALSE
    /\ stop' = [stop EXCEPT ![s] = "done"]
    /\ UNCHANGED <<main, server, g_active_server, is_running, svr_sock, scm_vars>>
    /\ UnchangedByStop

\* The server died after its address was loaded: undefined behaviour.  The handler
\* returns whatever it reads there, or the process dies.
TouchDeadServer(s) ==
    /\ stop[s] \in {"loaded", "checked"}
    /\ server = "gone"
    /\ stop' = [stop EXCEPT ![s] = "done"]
    /\ main' \in {main, "crashed"}
    /\ UNCHANGED <<server_vars, scm_vars>>
    /\ UnchangedByStop

StopStep(s) ==
    /\ ~Ended
    /\ \/ ReportPending(s) \/ LoadServer(s) \/ CheckRunning(s) \/ TakeSocket(s)
       \/ CloseSocket(s) \/ TouchDeadServer(s)

------------------------------------------------------------------------------
Next ==
    \/ MainStep
    \/ AcceptFails
    \/ \E c \in Conns : Accept(c) \/ ReadRequest(c) \/ WorkerStep(c)
    \/ \E s \in Stops : StopStep(s) \/ (~Ended /\ Deliver(s))

Spec == Init /\ [][Next]_vars

(***************************************************************************)
(* Threads that can run do run; engine calls return; a silent client runs  *)
(* into a timeout.  Clients need not connect or send, accept need not fail *)
(* and nobody needs to ask for a stop.                                     *)
(***************************************************************************)
Fairness ==
    /\ WF_vars(MainStep)
    /\ \A c \in Conns : WF_vars(WorkerStep(c))
    /\ \A s \in Stops : WF_vars(StopStep(s))

FairSpec == Spec /\ Fairness

------------------------------------------------------------------------------
(* The request handlers capture the engine by reference: however the service   *)
(* comes to an end, none is still running when the engine is destroyed.        *)
EngineOutlivesRequests == \A c \in Conns : Handling(c) => engine = "alive"

(* A native result is freed by the handler that obtained it, whether or not    *)
(* the response can be built, and so never later than the engine.              *)
ResultsReturned == \A c \in held : conn[c] = "building" /\ engine = "alive"

(* "Stopped" is reported when there is nothing left: no request in progress    *)
(* and no engine whose models still occupy a device.                           *)
StoppedMeansReleased ==
    scm = "STOPPED" => engine # "alive" /\ \A c \in Conns : ~Owned(c)

(* A service that has announced its stop never claims to be running again.     *)
StopNotRevoked == [][scm = "STOP_PENDING" => scm' \in {"STOP_PENDING", "STOPPED"}]_scm

(* A stop that found the server running ends the process, however many         *)
(* requests it has queued and whatever else happens.                           *)
RunningServerStops == \A s \in Stops : stop[s] = "checked" ~> Ended

(* A connection accepted gets its worker: kept-alive connections do not occupy *)
(* the pool for ever, and a stop does not drop the queue.                      *)
QueuedServed == \A c \in Conns : conn[c] = "queued" ~> conn[c] # "queued"

(* "When it runs in the foreground, press Ctrl+C to stop it."                  *)
StopObeyed == \A s \in Stops : ~ServiceMode /\ stop[s] = "entered" ~> Ended
==============================================================================
