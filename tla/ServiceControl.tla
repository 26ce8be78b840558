---------------------------- MODULE ServiceControl ----------------------------
(***************************************************************************)
(* The commands --install and --uninstall against the Windows service they *)
(* start and stop.  Each is a process of its own that talks to the service *)
(* manager; HttpService is the service at the other end, in service mode,  *)
(* or, started in a console, a server the commands know nothing of.        *)
(*                                                                         *)
(* One command runs at a time, and only --install starts the service.      *)
(***************************************************************************)
EXTENDS HttpService

CONSTANT MaxPolls \* 120 polls, 250 ms apart

ASSUME PollAssumption == MaxPolls \in Nat

VARIABLES
    registered, \* is the service in the manager's database?
    started,    \* has its process been started?
    command,    \* what the running command does next, or "idle"
    sent,       \* the stop control the command waits for
    polls,      \* polls made
    outcome     \* how the last command ended

control_vars == <<registered, started, command, sent, polls, outcome>>

ControlInit ==
    /\ Init
    /\ registered = FALSE
    /\ started = ~ServiceMode
    /\ command = "idle"
    /\ sent \in Stops
    /\ polls = 0
    /\ outcome = "none"

\* QueryServiceStatusEx: the last report of a process that lives.
StatusStopped == ServiceMode => ~started \/ Ended \/ scm = "STOPPED"

Return(result) == command' = "idle" /\ outcome' = result

------------------------------------------------------------------------------
(* InstallService                                                          *)

CreateService ==
    /\ command = "idle"
    /\ ServiceMode /\ ~started
    /\ registered' = TRUE
    /\ IF registered THEN Return("already exists") ELSE command' = "start" /\ UNCHANGED outcome
    /\ UNCHANGED <<vars, started, sent, polls>>

\* A service that cannot be started stays installed.
StartService ==
    /\ command = "start"
    /\ \/ started' = TRUE /\ Return("installed")
       \/ UNCHANGED started /\ Return("not started")
    /\ UNCHANGED <<vars, registered, sent, polls>>

------------------------------------------------------------------------------
(* UninstallService and StopServiceIfRunning                               *)

OpenService ==
    /\ command = "idle"
    /\ ServiceMode
    /\ IF registered THEN command' = "query" /\ UNCHANGED outcome ELSE Return("not installed")
    /\ polls' = 0
    /\ UNCHANGED <<vars, registered, started, sent>>

QueryStatus ==
    /\ command = "query"
    /\ command' = IF StatusStopped THEN "delete" ELSE "control"
    /\ UNCHANGED <<vars, registered, started, sent, polls, outcome>>

\* ControlService: the manager delivers the control if the service accepts it; while it
\* starts or stops it does not.
SendStop ==
    /\ command = "control"
    /\ ~Ended
    /\ accepts_stop
    /\ \E s \in Stops : Deliver(s) /\ sent' = s
    /\ command' = "sent"
    /\ UNCHANGED <<registered, started, polls, outcome>>

SendStopFails ==
    /\ command = "control"
    /\ IF StatusStopped
       THEN command' = "poll" /\ UNCHANGED outcome      \* ERROR_SERVICE_NOT_ACTIVE
       ELSE ~accepts_stop /\ Return("not accepted")
    /\ UNCHANGED <<vars, registered, started, sent, polls>>

\* It returns when the service's handler has.
StopSent ==
    /\ command = "sent"
    /\ stop[sent] = "done" \/ Ended
    /\ command' = "poll"
    /\ UNCHANGED <<vars, registered, started, sent, polls, outcome>>

\* Mutant: the service is deleted when the time is up.
PollGivesUp ==
    /\ command = "poll"
    /\ polls' = IF polls < MaxPolls THEN polls + 1 ELSE polls
    /\ command' = IF StatusStopped \/ polls = MaxPolls THEN "delete" ELSE command
    /\ UNCHANGED <<vars, registered, started, sent, outcome>>

Poll ==
    /\ command = "poll"
    /\ polls' = IF polls < MaxPolls THEN polls + 1 ELSE polls
    /\ IF polls = MaxPolls THEN Return("timed out")
       ELSE command' = (IF StatusStopped THEN "delete" ELSE command) /\ UNCHANGED outcome
    /\ UNCHANGED <<vars, registered, started, sent>>

DeleteService ==
    /\ command = "delete"
    /\ registered' = FALSE
    /\ Return("uninstalled")
    /\ UNCHANGED <<vars, started, sent, polls>>

------------------------------------------------------------------------------
ControlStep ==
    \/ StartService \/ QueryStatus \/ SendStop \/ SendStopFails \/ StopSent \/ Poll \/ DeleteService

ControlNext ==
    \/ started /\ Next /\ UNCHANGED control_vars
    \/ CreateService \/ OpenService
    \/ ControlStep

control_all == <<vars, control_vars>>

ControlSpec ==
    /\ ControlInit
    /\ [][ControlNext]_control_all
    /\ WF_control_all(started /\ MainStep /\ UNCHANGED control_vars)
    /\ \A c \in Conns : WF_control_all(started /\ WorkerStep(c) /\ UNCHANGED control_vars)
    /\ \A s \in Stops : WF_control_all(started /\ StopStep(s) /\ UNCHANGED control_vars)
    /\ WF_control_all(ControlStep)

------------------------------------------------------------------------------
(* "Uninstalled service" means that it is gone: no request is in progress, and *)
(* no engine still has its models on a device or its files open.               *)
UninstalledMeansReleased ==
    outcome = "uninstalled" => engine # "alive" /\ \A c \in Conns : ~Owned(c)

(* An uninstallation that timed out was early, not lost: the service it told   *)
(* to stop comes to its end, and can be uninstalled then.                      *)
TimedOutStillStops == outcome = "timed out" ~> StatusStopped
==============================================================================
