---------------------------- MODULE DiagServer -----------------------------
(***************************************************************************)
(* The life of the diagnostics web server (main/diag_webserver.cpp).  A    *)
(* first-start task waits for an address and starts the server; each later *)
(* GOT_IP event, on the event-loop task, has it stopped and started again  *)
(* by a restart task.  The three share s_server, s_server_started_once,    *)
(* s_restart_task_running and s_restart_again without any lock: every read *)
(* and write of them is a step of its own here.                            *)
(*                                                                         *)
(* esp_http_server is external: `instances' counts the servers that hold   *)
(* the port, and a start fails while another one does.                     *)
(***************************************************************************)
EXTENDS Naturals, FiniteSets

CONSTANTS
  RestartTasks,  \* slots for restart tasks: enough to see a second one
  MayFail,       \* may httpd_start, a registration or xTaskCreate fail?
  MaxEvents      \* bound on GOT_IP events

ASSUME SwitchAssumption == MayFail \in BOOLEAN
ASSUME BoundsAssumption == RestartTasks # {} /\ MaxEvents \in Nat

VARIABLES
  s_server,      \* is the handle set?
  registered,    \* are all URI handlers registered with it?
  instances,     \* external: servers that hold the port
  half,          \* external: the one that does was left half-registered
  s_server_started_once, s_restart_task_running, s_restart_again,
  have_ip,       \* external: the station has an address
  first,         \* pc of wait_for_network_and_start_task
  handler,       \* pc of diag_webserver_restart on the event-loop task
  task,          \* pc of each diag_restart_task
  events,        \* events so far
  raced,         \* history: a restart task was created before the first start was over
  promised       \* history: a pass is to begin for an event that was handled

serverVars == <<s_server, registered, instances, half>>
historyVars == <<raced, promised>>
flagVars   == <<s_restart_task_running, s_restart_again>>
vars == <<serverVars, s_server_started_once, flagVars, have_ip, first, handler,
          task, events, historyVars>>

FirstPCs   == { "wait", "start", "register", "flag", "done" }
HandlerPCs == { "idle", "started", "running", "again", "claim", "create" }
TaskPCs    == { "none", "begin", "stop", "start", "register", "test", "clear" }

Init ==
  /\ s_server = FALSE /\ registered = FALSE /\ instances = 0 /\ half = FALSE
  /\ s_server_started_once = FALSE
  /\ s_restart_task_running = FALSE /\ s_restart_again = FALSE
  /\ have_ip = FALSE
  /\ first = "wait" /\ handler = "idle"
  /\ task = [t \in RestartTasks |-> "none"]
  /\ events = 0 /\ raced = FALSE /\ promised = FALSE

Outcomes == IF MayFail THEN BOOLEAN ELSE {TRUE}

-----------------------------------------------------------------------------
(* start_httpd_server() in two steps, and httpd_stop().                    *)

\* httpd_start() writes s_server when it returns; `started' is its outcome.
HttpdStart(started) ==
  /\ started => instances = 0
  /\ s_server' = started
  /\ instances' = IF started THEN instances + 1 ELSE instances
  /\ registered' = FALSE /\ UNCHANGED half

HttpdStop_Always ==                           \* MUTANT: without if (s_server)
  /\ s_server' = FALSE /\ registered' = FALSE
  /\ instances' = instances - 1 /\ half' = FALSE
HttpdStop ==
  /\ s_server' = FALSE /\ registered' = FALSE
  /\ instances' = IF s_server THEN instances - 1 ELSE instances
  /\ half' = (half /\ ~s_server)

\* A registration that fails stops the server again, that of pre_close_buzzer
\* excepted: it leaves the server running, with the handle and half of the URIs.
AllRegistered == registered' = TRUE /\ UNCHANGED <<s_server, instances, half>>
LeftHalf == registered' = FALSE /\ half' = TRUE /\ UNCHANGED <<s_server, instances>>

HttpdRegister_NoStop(outcome) ==              \* MUTANT: forgets httpd_stop()
  \/ outcome = "all" /\ AllRegistered
  \/ outcome = "left" /\ LeftHalf
  \/ /\ outcome = "stopped" /\ s_server' = FALSE /\ registered' = FALSE
     /\ UNCHANGED <<instances, half>>
HttpdRegister_Keep(outcome) ==                \* MUTANT: no failure stops the server
  \/ outcome = "all" /\ AllRegistered
  \/ outcome = "left" /\ LeftHalf
  \/ outcome = "stopped" /\ registered' = FALSE /\ UNCHANGED <<s_server, instances, half>>
HttpdRegister(outcome) ==
  \/ outcome = "all" /\ AllRegistered
  \/ outcome = "left" /\ LeftHalf
  \/ outcome = "stopped" /\ HttpdStop

\* esp_http_server registers nothing with a handle that is gone.
RegisterOutcomes ==
  IF ~s_server THEN {"stopped"}
  ELSE IF MayFail THEN {"all", "left", "stopped"} ELSE {"all"}

\* A start can succeed only while nobody holds the port.
StartOutcomes == IF instances = 0 THEN Outcomes ELSE {FALSE}

-----------------------------------------------------------------------------
(* The network, and the event-loop task: diag_webserver_restart().         *)

GotIp ==
  /\ handler = "idle" /\ events < MaxEvents
  /\ have_ip' = TRUE
  /\ events' = events + 1
  /\ handler' = "started"
  /\ UNCHANGED <<serverVars, s_server_started_once, flagVars, first, task, historyVars>>

LostIp ==
  /\ have_ip /\ have_ip' = FALSE
  /\ UNCHANGED <<serverVars, s_server_started_once, flagVars, first, handler,
                 task, events, historyVars>>

\* if (!s_server && !s_server_started_once) return;
IsStarted ==
  /\ handler = "started"
  /\ handler' = IF s_server \/ s_server_started_once THEN "running" ELSE "idle"
  /\ UNCHANGED <<serverVars, s_server_started_once, flagVars, have_ip, first,
                 task, events, historyVars>>

\* if (s_restart_task_running)
IsRestarting ==
  /\ handler = "running"
  /\ handler' = IF s_restart_task_running THEN "again" ELSE "claim"
  /\ UNCHANGED <<serverVars, s_server_started_once, flagVars, have_ip, first,
                 task, events, historyVars>>

\* Where the restart task has just left its loop, nobody looks any more.
InLoop(t) == task[t] \notin {"none", "clear"}

AskAgain ==
  /\ handler = "again" /\ handler' = "idle"
  /\ s_restart_again' = TRUE
  /\ promised' = (promised \/ \E t \in RestartTasks : InLoop(t))
  /\ UNCHANGED <<serverVars, s_server_started_once, s_restart_task_running,
                 have_ip, first, task, events, raced>>

Claim ==
  /\ handler = "claim" /\ handler' = "create"
  /\ s_restart_task_running' = TRUE
  /\ UNCHANGED <<serverVars, s_server_started_once, s_restart_again, have_ip,
                 first, task, events, historyVars>>

\* The guard of IsStarted lets through what comes between httpd_start() and its end.
FirstIsStarting == first \in {"start", "register"}

CreateRestartTask ==
  /\ handler = "create" /\ handler' = "idle"
  /\ \/ \E t \in RestartTasks :
          /\ task[t] = "none"
          /\ task' = [task EXCEPT ![t] = "begin"]
          /\ raced' = (raced \/ FirstIsStarting) /\ promised' = TRUE
          /\ UNCHANGED s_restart_task_running
     \/ /\ FALSE \in Outcomes
        /\ s_restart_task_running' = FALSE
        /\ UNCHANGED <<task, historyVars>>
  /\ UNCHANGED <<serverVars, s_server_started_once, s_restart_again, have_ip,
                 first, events>>

-----------------------------------------------------------------------------
(* wait_for_network_and_start_task()                                       *)

FirstUnchanged == UNCHANGED <<flagVars, have_ip, handler, task, events, historyVars>>

\* The poll sees the address within 500 ms, before or after the event is handled.
FirstHasIp ==
  /\ first = "wait" /\ have_ip
  /\ first' = "start"
  /\ UNCHANGED <<serverVars, s_server_started_once>> /\ FirstUnchanged

\* Bad credentials or a failed start are tried again after five seconds, with no
\* httpd_stop() first: a server that was left half-registered keeps the port.
FirstStarts ==
  /\ first = "start"
  /\ \E started \in StartOutcomes :
       /\ HttpdStart(started)
       /\ first' = IF started THEN "register" ELSE "start"
  /\ UNCHANGED s_server_started_once /\ FirstUnchanged

FirstRegisters ==
  /\ first = "register"
  /\ \E outcome \in RegisterOutcomes :
       /\ HttpdRegister(outcome)
       /\ first' = IF outcome = "all" THEN "flag" ELSE "start"
  /\ UNCHANGED s_server_started_once /\ FirstUnchanged

FirstFlags ==
  /\ first = "flag" /\ first' = "done"
  /\ s_server_started_once' = TRUE
  /\ UNCHANGED serverVars /\ FirstUnchanged

-----------------------------------------------------------------------------
(* diag_restart_task()                                                     *)

TaskGoes(t, from, to) == task[t] = from /\ task' = [task EXCEPT ![t] = to]
TaskUnchanged ==
  UNCHANGED <<s_server_started_once, have_ip, first, handler, events, raced>>

\* s_restart_again = false: a pass begins.
PassBegins(t) ==
  /\ TaskGoes(t, "begin", "stop")
  /\ s_restart_again' = FALSE
  /\ UNCHANGED <<serverVars, s_restart_task_running>> /\ TaskUnchanged /\ promised' = FALSE

PassStops(t) ==
  /\ TaskGoes(t, "stop", "start")
  /\ HttpdStop
  /\ UNCHANGED flagVars /\ TaskUnchanged /\ UNCHANGED promised

PassStarts(t) ==
  /\ \E started \in StartOutcomes :
       /\ HttpdStart(started)
       /\ TaskGoes(t, "start", IF started THEN "register" ELSE "test")
  /\ UNCHANGED flagVars /\ TaskUnchanged /\ UNCHANGED promised

PassRegisters(t) ==
  /\ TaskGoes(t, "register", "test")
  /\ \E outcome \in RegisterOutcomes : HttpdRegister(outcome)
  /\ UNCHANGED flagVars /\ TaskUnchanged /\ UNCHANGED promised

\* while (s_restart_again)
PassTest_Once(t) ==                           \* MUTANT: no further pass
  /\ TaskGoes(t, "test", "clear")
  /\ UNCHANGED <<serverVars, flagVars>> /\ TaskUnchanged /\ UNCHANGED promised
PassTest_Release(t) ==                        \* MUTANT: gives the claim back too early
  /\ TaskGoes(t, "test", IF s_restart_again THEN "begin" ELSE "clear")
  /\ s_restart_task_running' = FALSE
  /\ UNCHANGED <<serverVars, s_restart_again>> /\ TaskUnchanged /\ UNCHANGED promised
PassTest(t) ==
  /\ TaskGoes(t, "test", IF s_restart_again THEN "begin" ELSE "clear")
  /\ UNCHANGED <<serverVars, flagVars>> /\ TaskUnchanged /\ UNCHANGED promised

TaskEnds(t) ==
  /\ TaskGoes(t, "clear", "none")
  /\ s_restart_task_running' = FALSE
  /\ UNCHANGED <<serverVars, s_restart_again>> /\ TaskUnchanged /\ UNCHANGED promised

-----------------------------------------------------------------------------
NetworkStep == GotIp \/ LostIp
HandlerStep == IsStarted \/ IsRestarting \/ AskAgain \/ Claim \/ CreateRestartTask
FirstStep == FirstHasIp \/ FirstStarts \/ FirstRegisters \/ FirstFlags
RestartStep ==
  \E t \in RestartTasks :
    \/ PassBegins(t) \/ PassStops(t) \/ PassStarts(t) \/ PassRegisters(t)
    \/ PassTest(t) \/ TaskEnds(t)

Next == NetworkStep \/ HandlerStep \/ FirstStep \/ RestartStep

Spec == Init /\ [][Next]_vars

-----------------------------------------------------------------------------
\* Every variable keeps its type; `instances' is never counted below zero.
TypeOK ==
  /\ s_server \in BOOLEAN /\ registered \in BOOLEAN /\ instances \in Nat
  /\ half \in BOOLEAN
  /\ s_server_started_once \in BOOLEAN
  /\ s_restart_task_running \in BOOLEAN /\ s_restart_again \in BOOLEAN
  /\ have_ip \in BOOLEAN
  /\ first \in FirstPCs /\ handler \in HandlerPCs
  /\ task \in [RestartTasks -> TaskPCs] /\ events \in 0..MaxEvents
  /\ raced \in BOOLEAN /\ promised \in BOOLEAN

Restarting(t) == task[t] # "none"

(***************************************************************************)
(* There are never two restart tasks, although s_restart_task_running is   *)
(* tested and set without a lock: only the event-loop task claims it, and  *)
(* a restart task gives it back as its very last act.                      *)
(***************************************************************************)
OneRestartTask ==
  \A t, u \in RestartTasks : Restarting(t) /\ Restarting(u) => t = u

(***************************************************************************)
(* s_server is set exactly when a server holds the port, through every     *)
(* failed start and every other failed registration: a handle that is lost *)
(* keeps the port taken and every later start failing.  Two exceptions:    *)
(* the first start that leaves its server half-registered starts another   *)
(* five seconds later, fails, and clears the handle for good; and a        *)
(* restart task that was created while the first start was under way.      *)
(***************************************************************************)
HandleIsTheServer ==
  ~raced /\ ~(half /\ FirstIsStarting) => instances = (IF s_server THEN 1 ELSE 0)

(***************************************************************************)
(* Outside a start a set handle has every URI registered, whichever        *)
(* registration failed on the way: pre_close_buzzer's is the only failure  *)
(* that leaves half of the pages served, and only until that server is     *)
(* stopped, as the next network event does.  Not covered: a restart task   *)
(* that was created while the first start was under way.                   *)
(***************************************************************************)
IdleServerIsComplete ==
  ~raced /\ first # "register" /\ (\A t \in RestartTasks : task[t] # "register")
    => (s_server => registered \/ half)

(***************************************************************************)
(* "A network event that arrived mid-restart gets one more pass": as long  *)
(* as no pass has begun for an event that was handled while a restart task *)
(* was in its loop, or made one, there is a task in its loop to begin it,  *)
(* wherever the event comes between its reads and writes of the two flags. *)
(***************************************************************************)
EventGetsItsPass == promised => \E t \in RestartTasks : InLoop(t)

-----------------------------------------------------------------------------
(* The inductive invariant behind the theorems of DiagServerProofs.        *)

\* The claim is held from Claim to the last act of the task it is for.
ClaimIsHeld ==
  /\ handler \in {"claim", "create"} => \A t \in RestartTasks : ~Restarting(t)
  /\ s_restart_task_running <=>
       handler = "create" \/ \E t \in RestartTasks : Restarting(t)

\* No restart is thought of before the first start has begun.
FirstComesFirst ==
  /\ first = "wait" =>
       /\ ~s_server /\ handler \in {"idle", "started"}
       /\ \A t \in RestartTasks : ~Restarting(t)
  /\ first \in {"wait", "start", "register"} => ~s_server_started_once

\* While nothing has raced, only the first start can find the handle set, of the
\* server it left half-registered itself.
StartsFromNothing ==
  ~raced =>
    /\ FirstIsStarting => \A t \in RestartTasks : ~Restarting(t)
    /\ first = "start" => ~s_server \/ half
    /\ first = "register" => ~half
    /\ \A t \in RestartTasks : task[t] = "start" => ~s_server

\* One server at a time holds the port, whoever lost its handle.
PortIsHeldOnce == instances <= 1 /\ (s_server \/ half => instances = 1)

\* An event is noted in the flag, or a pass is just about to begin.
EventIsNoted ==
  promised => s_restart_again \/ \E t \in RestartTasks : task[t] = "begin"

IInv ==
  /\ TypeOK /\ OneRestartTask /\ ClaimIsHeld
  /\ FirstComesFirst /\ StartsFromNothing /\ PortIsHeldOnce /\ HandleIsTheServer
  /\ IdleServerIsComplete /\ EventIsNoted /\ EventGetsItsPass
=============================================================================
