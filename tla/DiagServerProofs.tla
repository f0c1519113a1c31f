-------------------------- MODULE DiagServerProofs --------------------------
(***************************************************************************)
(* Proofs, for any number of restart tasks and events, of the safety       *)
(* properties of DiagServer.                                               *)
(*                                                                         *)
(* Three tasks share four flags without a lock, so what has to be shown is *)
(* that their steps leave each other's assumptions alone: the claim on the *)
(* restart task is only made by the event-loop task and only given back by *)
(* the restart task itself (ClaimIsHeld), no restart comes before the      *)
(* first start (FirstComesFirst), and, while no restart task was created   *)
(* during the first start, every start finds the handle empty, but that of *)
(* a first start that left its own server half-registered                  *)
(* (StartsFromNothing).                                                    *)
(***************************************************************************)
EXTENDS DiagServer, TLAPS

Handle == instances = IF s_server THEN 1 ELSE 0
ServerTypeOK == /\ s_server \in BOOLEAN /\ registered \in BOOLEAN
                /\ instances \in Nat /\ half \in BOOLEAN

-----------------------------------------------------------------------------
(* start_httpd_server() and httpd_stop().                                  *)

LEMMA StartWrites ==
  ASSUME TypeOK, PortIsHeldOnce, NEW started \in StartOutcomes, HttpdStart(started)
  PROVE  /\ ServerTypeOK' /\ PortIsHeldOnce' /\ (s_server' <=> started) /\ ~registered'
         /\ half' = half /\ ~(started /\ half)
         /\ Handle /\ ~s_server => Handle'
<1>1. started \in BOOLEAN /\ s_server' \in BOOLEAN /\ registered' \in BOOLEAN
      /\ (s_server' <=> started) /\ ~registered' /\ half' = half /\ half \in BOOLEAN
  BY DEF StartOutcomes, Outcomes, HttpdStart, TypeOK
<1>2. CASE started
  <2>1. instances' = 1 /\ ~half
    BY <1>2 DEF HttpdStart, PortIsHeldOnce
  <2> QED
    BY <1>1, <1>2, <2>1 DEF ServerTypeOK, PortIsHeldOnce, Handle
<1>3. CASE ~started
  <2>1. instances' = instances
    BY <1>3 DEF HttpdStart
  <2> QED
    BY <1>1, <1>3, <2>1 DEF TypeOK, ServerTypeOK, PortIsHeldOnce, Handle
<1> QED
  BY <1>1, <1>2, <1>3

LEMMA StopWrites ==
  ASSUME TypeOK, PortIsHeldOnce, HttpdStop
  PROVE  /\ ServerTypeOK' /\ PortIsHeldOnce' /\ ~s_server' /\ (half' => half /\ ~s_server)
         /\ Handle => Handle'
<1>1. s_server' \in BOOLEAN /\ registered' \in BOOLEAN /\ ~s_server' /\ half' \in BOOLEAN
      /\ (half' => half /\ ~s_server)
  BY DEF HttpdStop, TypeOK
<1>2. CASE s_server
  <2>1. instances = 1 /\ instances' = 0
    BY <1>2 DEF HttpdStop, PortIsHeldOnce
  <2> QED
    BY <1>1, <1>2, <2>1 DEF ServerTypeOK, PortIsHeldOnce, Handle
<1>3. CASE ~s_server
  <2>1. instances' = instances
    BY <1>3 DEF HttpdStop
  <2> QED
    BY <1>1, <1>3, <2>1 DEF TypeOK, ServerTypeOK, PortIsHeldOnce, Handle
<1> QED
  BY <1>2, <1>3

\* A registration leaves the handle set with every URI registered, or says that
\* it has left half of them.
LEMMA RegisterWrites ==
  ASSUME TypeOK, PortIsHeldOnce, NEW outcome \in RegisterOutcomes, HttpdRegister(outcome)
  PROVE  /\ ServerTypeOK' /\ PortIsHeldOnce' /\ (s_server' => registered' \/ half')
         /\ outcome # "all" /\ s_server' => half'
         /\ outcome = "all" => s_server' /\ half' = half
         /\ Handle => Handle'
<1>1. CASE outcome = "all"
  <2>1. AllRegistered /\ s_server
    BY <1>1 DEF RegisterOutcomes, HttpdRegister
  <2> QED
    BY <1>1, <2>1 DEF TypeOK, ServerTypeOK, PortIsHeldOnce, AllRegistered, Handle
<1>2. CASE outcome = "left"
  <2>1. LeftHalf /\ s_server
    BY <1>2 DEF RegisterOutcomes, HttpdRegister
  <2> QED
    BY <1>2, <2>1 DEF TypeOK, ServerTypeOK, PortIsHeldOnce, LeftHalf, Handle
<1>3. CASE outcome = "stopped"
  <2>1. HttpdStop
    BY <1>3 DEF HttpdRegister
  <2> QED
    BY <1>3, <2>1, StopWrites
<1> QED
  BY <1>1, <1>2, <1>3 DEF HttpdRegister

-----------------------------------------------------------------------------
LEMMA InitIInv == Init => IInv
<1> SUFFICES ASSUME Init PROVE IInv
  OBVIOUS
<1>1. TypeOK
  <2>1. events \in 0..MaxEvents /\ instances \in Nat
    BY BoundsAssumption DEF Init
  <2>2. task \in [RestartTasks -> TaskPCs]
    BY DEF Init, TaskPCs
  <2> QED
    BY <2>1, <2>2 DEF Init, TypeOK, FirstPCs, HandlerPCs
<1>2. \A t \in RestartTasks : ~Restarting(t)
  BY DEF Init, Restarting
<1> QED
  BY <1>1, <1>2 DEF Init, IInv, OneRestartTask, ClaimIsHeld, FirstComesFirst,
     StartsFromNothing, PortIsHeldOnce, HandleIsTheServer, IdleServerIsComplete,
     EventIsNoted, EventGetsItsPass, FirstIsStarting

-----------------------------------------------------------------------------
(* The network and the event-loop task.                                    *)

LEMMA NetworkKeeps == IInv /\ NetworkStep => IInv'
<1> SUFFICES ASSUME IInv, NetworkStep PROVE IInv'
  OBVIOUS
<1> USE DEF NetworkStep, GotIp, LostIp, serverVars, flagVars, historyVars
<1>1. TypeOK'
  <2>1. events' \in 0..MaxEvents
    BY BoundsAssumption DEF IInv, TypeOK
  <2>2. handler' \in HandlerPCs /\ have_ip' \in BOOLEAN
    BY DEF IInv, TypeOK, HandlerPCs
  <2> QED
    BY <2>1, <2>2 DEF IInv, TypeOK
<1>2. UNCHANGED <<serverVars, s_server_started_once, flagVars, first, task, historyVars>>
      /\ handler' \in {handler, "started"} /\ (handler' # handler => handler = "idle")
  OBVIOUS
<1> QED
  BY <1>1, <1>2 DEF IInv, OneRestartTask, ClaimIsHeld, FirstComesFirst, Restarting,
     StartsFromNothing, PortIsHeldOnce, HandleIsTheServer, IdleServerIsComplete,
     EventIsNoted, EventGetsItsPass, FirstIsStarting, InLoop

\* diag_webserver_restart() up to the creation of the task.
LEMMA HandlerLooks == IInv /\ (IsStarted \/ IsRestarting \/ AskAgain \/ Claim) => IInv'
<1> SUFFICES ASSUME IInv, IsStarted \/ IsRestarting \/ AskAgain \/ Claim PROVE IInv'
  OBVIOUS
<1> USE DEF IInv, serverVars, flagVars, historyVars
<1>1. UNCHANGED <<serverVars, s_server_started_once, first, task, raced>>
  BY DEF IsStarted, IsRestarting, AskAgain, Claim
<1>2. TypeOK'
  BY DEF IsStarted, IsRestarting, AskAgain, Claim, TypeOK, HandlerPCs
<1>3. OneRestartTask' /\ StartsFromNothing' /\ PortIsHeldOnce' /\ HandleIsTheServer'
      /\ IdleServerIsComplete'
  BY <1>1 DEF OneRestartTask, Restarting, StartsFromNothing, PortIsHeldOnce,
     HandleIsTheServer, IdleServerIsComplete, FirstIsStarting
<1>4. ClaimIsHeld' /\ FirstComesFirst'
  BY <1>1 DEF ClaimIsHeld, FirstComesFirst, Restarting, IsStarted, IsRestarting,
     AskAgain, Claim
<1>5. EventIsNoted' /\ EventGetsItsPass'
  <2>1. /\ promised' => promised \/ \E t \in RestartTasks : InLoop(t)
        /\ s_restart_again' \/ ((promised' => promised) /\ s_restart_again' = s_restart_again)
    <3>1. CASE AskAgain
      BY <3>1 DEF AskAgain, TypeOK
    <3>2. CASE IsStarted \/ IsRestarting \/ Claim
      BY <3>2 DEF IsStarted, IsRestarting, Claim
    <3> QED
      BY <3>1, <3>2
  <2>2. (\A t \in RestartTasks : task'[t] = task[t])
    BY <1>1
  <2> QED
    BY <2>1, <2>2 DEF EventIsNoted, EventGetsItsPass, InLoop
<1> QED
  BY <1>2, <1>3, <1>4, <1>5

LEMMA CreateKeeps == IInv /\ CreateRestartTask => IInv'
<1> SUFFICES ASSUME IInv, CreateRestartTask PROVE IInv'
  OBVIOUS
<1> USE DEF IInv, serverVars, flagVars, historyVars
<1>1. /\ UNCHANGED <<serverVars, s_server_started_once, s_restart_again, have_ip, first,
                     events>>
      /\ handler = "create" /\ handler' = "idle"
      /\ \A t \in RestartTasks : ~Restarting(t) /\ task[t] = "none"
  BY DEF CreateRestartTask, ClaimIsHeld, Restarting
<1>2. CASE s_restart_task_running' = FALSE /\ UNCHANGED <<task, historyVars>>
  <2>1. TypeOK'
    BY <1>1, <1>2 DEF TypeOK, HandlerPCs
  <2> QED
    BY <1>1, <1>2, <2>1 DEF OneRestartTask, ClaimIsHeld, FirstComesFirst, Restarting,
       StartsFromNothing, PortIsHeldOnce, HandleIsTheServer, IdleServerIsComplete,
       EventIsNoted, EventGetsItsPass, FirstIsStarting, InLoop
<1>3. ASSUME NEW t \in RestartTasks, task' = [task EXCEPT ![t] = "begin"],
             raced' = (raced \/ FirstIsStarting), promised' = TRUE,
             UNCHANGED s_restart_task_running
      PROVE  IInv'
  <2>1. \A u \in RestartTasks : task'[u] = IF u = t THEN "begin" ELSE "none"
    BY <1>1, <1>3 DEF TypeOK
  <2>2. TypeOK'
    BY <1>1, <1>3 DEF TypeOK, HandlerPCs, TaskPCs, FirstIsStarting
  <2>3. OneRestartTask' /\ ClaimIsHeld' /\ FirstComesFirst'
    BY <1>1, <1>3, <2>1 DEF OneRestartTask, ClaimIsHeld, FirstComesFirst, Restarting
  <2>4. StartsFromNothing' /\ HandleIsTheServer' /\ IdleServerIsComplete'
    <3>1. ~raced' => ~raced /\ ~FirstIsStarting
      BY <1>3 DEF TypeOK
    <3> QED
      BY <1>1, <2>1, <3>1 DEF StartsFromNothing, HandleIsTheServer, FirstIsStarting,
         IdleServerIsComplete
  <2>6. PortIsHeldOnce'
    BY <1>1 DEF PortIsHeldOnce
  <2>5. EventIsNoted' /\ EventGetsItsPass'
    BY <1>3, <2>1 DEF EventIsNoted, EventGetsItsPass, InLoop
  <2> QED
    BY <2>2, <2>3, <2>4, <2>5, <2>6
<1> QED
  BY <1>2, <1>3 DEF CreateRestartTask

-----------------------------------------------------------------------------
(* wait_for_network_and_start_task()                                       *)

\* No step of the first start touches what the other two tasks rely on.
LEMMA FirstKeeps == IInv /\ FirstStep => IInv'
<1> SUFFICES ASSUME IInv, FirstStep PROVE IInv'
  OBVIOUS
<1> USE DEF IInv, FirstUnchanged, serverVars, flagVars, historyVars
<1>1. UNCHANGED <<flagVars, have_ip, handler, task, events, historyVars>>
  BY DEF FirstStep, FirstHasIp, FirstStarts, FirstRegisters, FirstFlags
<1>2. OneRestartTask' /\ ClaimIsHeld' /\ EventIsNoted' /\ EventGetsItsPass'
  BY <1>1 DEF OneRestartTask, ClaimIsHeld, Restarting, EventIsNoted, EventGetsItsPass,
     InLoop
<1>3. CASE FirstHasIp
  <2>1. first' = "start" /\ UNCHANGED <<serverVars, s_server_started_once>>
    BY <1>3 DEF FirstHasIp
  <2>2. ~s_server /\ ~s_server_started_once /\ \A t \in RestartTasks : ~Restarting(t)
    BY <1>3 DEF FirstHasIp, FirstComesFirst
  <2>3. TypeOK'
    BY <1>1, <2>1 DEF TypeOK, FirstPCs
  <2> QED
    BY <1>1, <1>2, <2>1, <2>2, <2>3 DEF FirstComesFirst, StartsFromNothing, Restarting,
       FirstIsStarting, PortIsHeldOnce, HandleIsTheServer, IdleServerIsComplete
<1>4. CASE FirstStarts
  <2>1. PICK started \in StartOutcomes :
          HttpdStart(started) /\ first' = IF started THEN "register" ELSE "start"
    BY <1>4 DEF FirstStarts
  <2>2. /\ ServerTypeOK' /\ PortIsHeldOnce' /\ (s_server' <=> started)
        /\ half' = half /\ ~(started /\ half)
        /\ Handle /\ ~s_server => Handle'
    BY <2>1, StartWrites
  <2>3. /\ first = "start" /\ first' \in {"register", "start"}
        /\ first' = "start" => ~s_server'
        /\ first' = "register" => ~half'
        /\ s_server_started_once' = s_server_started_once
    BY <1>4, <2>1, <2>2 DEF FirstStarts
  <2>4. TypeOK'
    BY <1>1, <2>2, <2>3 DEF TypeOK, ServerTypeOK, FirstPCs
  <2>5. StartsFromNothing' /\ FirstComesFirst'
    BY <1>1, <2>3 DEF StartsFromNothing, FirstComesFirst, Restarting, FirstIsStarting
  <2>6. HandleIsTheServer'
    BY <1>1, <2>2, <2>3 DEF HandleIsTheServer, Handle, StartsFromNothing, FirstIsStarting
  <2>7. IdleServerIsComplete'
    BY <2>2, <2>3 DEF IdleServerIsComplete
  <2> QED
    BY <1>2, <2>2, <2>4, <2>5, <2>6, <2>7
<1>5. CASE FirstRegisters
  <2>1. PICK outcome \in RegisterOutcomes :
          /\ HttpdRegister(outcome)
          /\ first' = IF outcome = "all" THEN "flag" ELSE "start"
    BY <1>5 DEF FirstRegisters
  <2>2. /\ ServerTypeOK' /\ PortIsHeldOnce' /\ (s_server' => registered' \/ half')
        /\ outcome # "all" /\ s_server' => half'
        /\ outcome = "all" => s_server' /\ half' = half
        /\ Handle => Handle'
    BY <2>1, RegisterWrites
  <2>3. /\ first = "register" /\ first' \in {"flag", "start"}
        /\ first' = "start" => ~s_server' \/ half'
        /\ s_server_started_once' = s_server_started_once
    BY <1>5, <2>1, <2>2 DEF FirstRegisters
  <2>4. TypeOK'
    BY <1>1, <2>2, <2>3 DEF TypeOK, ServerTypeOK, FirstPCs
  <2>5. StartsFromNothing' /\ FirstComesFirst'
    BY <1>1, <2>3 DEF StartsFromNothing, FirstComesFirst, Restarting, FirstIsStarting
  <2>6. HandleIsTheServer' /\ IdleServerIsComplete'
    BY <1>1, <2>2, <2>3 DEF HandleIsTheServer, Handle, IdleServerIsComplete,
       StartsFromNothing, FirstIsStarting
  <2> QED
    BY <1>2, <2>2, <2>4, <2>5, <2>6
<1>6. CASE FirstFlags
  <2>1. first = "flag" /\ first' = "done" /\ s_server_started_once' = TRUE
        /\ UNCHANGED serverVars
    BY <1>6 DEF FirstFlags
  <2>2. TypeOK'
    BY <1>1, <2>1 DEF TypeOK, FirstPCs
  <2> QED
    BY <1>1, <1>2, <2>1, <2>2 DEF FirstComesFirst, StartsFromNothing, Restarting,
       FirstIsStarting, PortIsHeldOnce, HandleIsTheServer, IdleServerIsComplete
<1> QED
  BY <1>3, <1>4, <1>5, <1>6 DEF FirstStep

-----------------------------------------------------------------------------
(* diag_restart_task()                                                     *)

\* While a restart task runs, it is the only one, and it holds the claim.
LEMMA TaskIsAlone ==
  ASSUME IInv, NEW t \in RestartTasks, NEW from \in TaskPCs \ {"none"}, NEW to \in TaskPCs,
         TaskGoes(t, from, to)
  PROVE  /\ task[t] = from /\ task' \in [RestartTasks -> TaskPCs] /\ task'[t] = to
         /\ \A u \in RestartTasks \ {t} : task[u] = "none" /\ task'[u] = "none"
         /\ OneRestartTask' /\ handler \notin {"claim", "create"} /\ s_restart_task_running
         /\ first # "wait" /\ (~raced => ~FirstIsStarting)
<1> USE DEF IInv
<1>1. task[t] = from /\ Restarting(t)
  BY DEF TaskGoes, Restarting
<1>2. task' \in [RestartTasks -> TaskPCs] /\ task'[t] = to
      /\ \A u \in RestartTasks \ {t} : task'[u] = task[u]
  BY DEF TaskGoes, TypeOK
<1>3. \A u \in RestartTasks \ {t} : task[u] = "none" /\ task'[u] = "none"
  BY <1>1, <1>2 DEF OneRestartTask, Restarting
<1>4. OneRestartTask'
  BY <1>3 DEF OneRestartTask, Restarting
<1>5. /\ handler \notin {"claim", "create"} /\ s_restart_task_running
      /\ first # "wait" /\ (~raced => ~FirstIsStarting)
  BY <1>1 DEF ClaimIsHeld, FirstComesFirst, StartsFromNothing
<1> QED
  BY <1>1, <1>2, <1>3, <1>4, <1>5

(***************************************************************************)
(* A step of the restart task that does not end it keeps the invariant if  *)
(* it leaves the server in order and forgets no event.                     *)
(***************************************************************************)
LEMMA TaskStepKeeps ==
  ASSUME IInv, NEW t \in RestartTasks, NEW from \in TaskPCs \ {"none"},
         NEW to \in TaskPCs \ {"none"}, TaskGoes(t, from, to), TaskUnchanged,
         UNCHANGED s_restart_task_running,
         s_restart_again' \in BOOLEAN, promised' \in BOOLEAN,
         promised' => promised /\ to # "clear" /\ (s_restart_again' \/ to = "begin"),
         ServerTypeOK', PortIsHeldOnce', Handle => Handle' \/ (from = "start" /\ s_server),
         to = "start" => ~s_server',
         to # "register" /\ s_server' => registered' \/ half' \/ raced \/ first = "register"
  PROVE  IInv'
<1> USE DEF IInv, TaskUnchanged
<1>1. /\ task[t] = from /\ task' \in [RestartTasks -> TaskPCs] /\ task'[t] = to
      /\ \A u \in RestartTasks \ {t} : task[u] = "none" /\ task'[u] = "none"
      /\ OneRestartTask' /\ handler \notin {"claim", "create"} /\ s_restart_task_running
      /\ first # "wait" /\ (~raced => ~FirstIsStarting)
  BY TaskIsAlone
<1>2. TypeOK'
  BY <1>1 DEF TypeOK, ServerTypeOK
<1>3. ClaimIsHeld'
  BY <1>1 DEF ClaimIsHeld, Restarting
<1>4. FirstComesFirst'
  BY <1>1 DEF FirstComesFirst
<1>5. StartsFromNothing' /\ HandleIsTheServer'
  BY <1>1 DEF StartsFromNothing, FirstIsStarting, HandleIsTheServer, Handle
<1>6. IdleServerIsComplete'
  BY <1>1 DEF IdleServerIsComplete
<1>7. EventIsNoted' /\ EventGetsItsPass'
  BY <1>1 DEF EventIsNoted, EventGetsItsPass, InLoop
<1> QED
  BY <1>1, <1>2, <1>3, <1>4, <1>5, <1>6, <1>7

\* A pass: what it leaves of the server is in order at every step.
LEMMA PassKeeps ==
  ASSUME IInv, NEW t \in RestartTasks,
         PassBegins(t) \/ PassStops(t) \/ PassStarts(t) \/ PassRegisters(t) \/ PassTest(t)
  PROVE  IInv'
<1> USE DEF IInv, serverVars, flagVars
<1>1. CASE PassBegins(t)
  <2>1. /\ TaskGoes(t, "begin", "stop") /\ TaskUnchanged /\ UNCHANGED s_restart_task_running
        /\ s_restart_again' = FALSE /\ promised' = FALSE /\ UNCHANGED serverVars
    BY <1>1 DEF PassBegins
  <2>2. ServerTypeOK' /\ PortIsHeldOnce' /\ (Handle => Handle')
    BY <2>1 DEF TypeOK, ServerTypeOK, PortIsHeldOnce, Handle
  <2>3. "begin" \in TaskPCs \ {"none"} /\ "stop" \in TaskPCs \ {"none"}
    BY DEF TaskPCs
  <2>4. s_server' => registered' \/ half' \/ raced \/ first = "register"
    BY <2>1, <2>3, TaskIsAlone DEF IdleServerIsComplete
  <2> QED
    BY <2>1, <2>2, <2>3, <2>4, TaskStepKeeps
<1>2. CASE PassStops(t)
  <2>1. /\ TaskGoes(t, "stop", "start") /\ TaskUnchanged /\ UNCHANGED <<flagVars, promised>>
        /\ HttpdStop
    BY <1>2 DEF PassStops
  <2>2. ServerTypeOK' /\ PortIsHeldOnce' /\ ~s_server' /\ (Handle => Handle')
    BY <2>1, StopWrites
  <2>3. "stop" \in TaskPCs \ {"none"} /\ "start" \in TaskPCs \ {"none"}
    BY DEF TaskPCs
  <2>4. promised' => s_restart_again'
    BY <2>1, <2>3, TaskIsAlone DEF EventIsNoted
  <2> QED
    BY <2>1, <2>2, <2>3, <2>4, TaskStepKeeps DEF TypeOK
<1>3. CASE PassStarts(t)
  <2>1. PICK started \in StartOutcomes :
          /\ HttpdStart(started)
          /\ TaskGoes(t, "start", IF started THEN "register" ELSE "test")
    BY <1>3 DEF PassStarts
  <2> DEFINE to == IF started THEN "register" ELSE "test"
  <2>2. TaskUnchanged /\ UNCHANGED <<flagVars, promised>>
    BY <1>3 DEF PassStarts
  <2>3. /\ ServerTypeOK' /\ PortIsHeldOnce' /\ (s_server' <=> started)
        /\ (Handle => Handle' \/ s_server)
    BY <2>1, StartWrites
  <2>4. "start" \in TaskPCs \ {"none"} /\ to \in TaskPCs \ {"none"}
        /\ to \notin {"clear", "start"} /\ (to # "register" => ~s_server')
    BY <2>3 DEF TaskPCs
  <2>5. TaskGoes(t, "start", to)
    BY <2>1
  <2> HIDE DEF to
  <2>6. promised' => s_restart_again'
    BY <2>2, <2>4, <2>5, TaskIsAlone DEF EventIsNoted
  <2> QED
    BY <2>2, <2>3, <2>4, <2>5, <2>6, TaskStepKeeps DEF TypeOK
<1>4. CASE PassRegisters(t)
  <2>1. PICK outcome \in RegisterOutcomes : HttpdRegister(outcome)
    BY <1>4 DEF PassRegisters
  <2>2. TaskGoes(t, "register", "test") /\ TaskUnchanged /\ UNCHANGED <<flagVars, promised>>
    BY <1>4 DEF PassRegisters
  <2>3. ServerTypeOK' /\ PortIsHeldOnce' /\ (Handle => Handle')
        /\ (s_server' => registered' \/ half')
    BY <2>1, RegisterWrites
  <2>4. "register" \in TaskPCs \ {"none"} /\ "test" \in TaskPCs \ {"none"}
    BY DEF TaskPCs
  <2>5. promised' => s_restart_again'
    BY <2>2, <2>4, TaskIsAlone DEF EventIsNoted
  <2> QED
    BY <2>2, <2>3, <2>4, <2>5, TaskStepKeeps DEF TypeOK
<1>5. CASE PassTest(t)
  <2> DEFINE to == IF s_restart_again THEN "begin" ELSE "clear"
  <2>1. /\ TaskGoes(t, "test", to) /\ TaskUnchanged
        /\ UNCHANGED <<serverVars, flagVars, promised>>
    BY <1>5 DEF PassTest
  <2>2. ServerTypeOK' /\ PortIsHeldOnce' /\ (Handle => Handle')
    BY <2>1 DEF TypeOK, ServerTypeOK, PortIsHeldOnce, Handle
  <2>3. "test" \in TaskPCs \ {"none"} /\ to \in TaskPCs \ {"none"} /\ to # "start"
        /\ (s_restart_again => to = "begin")
    BY DEF TaskPCs
  <2> HIDE DEF to
  <2>4. (promised => s_restart_again) /\ (s_server' => registered' \/ half' \/ raced \/ first = "register")
    BY <2>1, <2>3, TaskIsAlone DEF EventIsNoted, IdleServerIsComplete
  <2> QED
    BY <2>1, <2>2, <2>3, <2>4, TaskStepKeeps DEF TypeOK
<1> QED
  BY <1>1, <1>2, <1>3, <1>4, <1>5

\* The very last act gives the claim back: no task is left that could hold it.
LEMMA TaskEndKeeps ==
  ASSUME IInv, NEW t \in RestartTasks, TaskEnds(t)
  PROVE  IInv'
<1> USE DEF IInv, serverVars, TaskUnchanged
<1>1. /\ TaskGoes(t, "clear", "none") /\ TaskUnchanged
      /\ s_restart_task_running' = FALSE
      /\ UNCHANGED <<serverVars, s_restart_again, promised>>
  BY DEF TaskEnds
<1>2. "clear" \in TaskPCs \ {"none"} /\ "none" \in TaskPCs
  BY DEF TaskPCs
<1>3. /\ task[t] = "clear" /\ task' \in [RestartTasks -> TaskPCs] /\ task'[t] = "none"
      /\ \A u \in RestartTasks \ {t} : task[u] = "none" /\ task'[u] = "none"
      /\ OneRestartTask' /\ handler \notin {"claim", "create"}
      /\ first # "wait" /\ (~raced => ~FirstIsStarting)
  BY <1>1, <1>2, TaskIsAlone
<1>4. ~promised
  BY <1>3 DEF EventGetsItsPass, InLoop
<1>5. TypeOK'
  BY <1>1, <1>3 DEF TypeOK
<1>6. ClaimIsHeld' /\ FirstComesFirst'
  BY <1>1, <1>3 DEF ClaimIsHeld, FirstComesFirst, Restarting
<1>7. StartsFromNothing' /\ PortIsHeldOnce' /\ HandleIsTheServer'
  BY <1>1, <1>3 DEF StartsFromNothing, FirstIsStarting, PortIsHeldOnce, HandleIsTheServer
<1>8. IdleServerIsComplete'
  BY <1>1, <1>3 DEF IdleServerIsComplete
<1>9. EventIsNoted' /\ EventGetsItsPass'
  BY <1>1, <1>4 DEF EventIsNoted, EventGetsItsPass
<1> QED
  BY <1>3, <1>5, <1>6, <1>7, <1>8, <1>9

-----------------------------------------------------------------------------
LEMMA NextKeeps == IInv /\ [Next]_vars => IInv'
<1> SUFFICES ASSUME IInv, [Next]_vars PROVE IInv'
  OBVIOUS
<1>1. CASE NetworkStep
  BY <1>1, NetworkKeeps
<1>2. CASE HandlerStep
  BY <1>2, HandlerLooks, CreateKeeps DEF HandlerStep
<1>3. CASE FirstStep
  BY <1>3, FirstKeeps
<1>4. CASE RestartStep
  BY <1>4, PassKeeps, TaskEndKeeps DEF RestartStep
<1>5. CASE UNCHANGED vars
  BY <1>5 DEF vars, serverVars, flagVars, historyVars, IInv, TypeOK, OneRestartTask,
     ClaimIsHeld, Restarting, FirstComesFirst, StartsFromNothing, FirstIsStarting,
     PortIsHeldOnce, HandleIsTheServer, IdleServerIsComplete, EventIsNoted,
     EventGetsItsPass, InLoop
<1> QED
  BY <1>1, <1>2, <1>3, <1>4, <1>5 DEF Next

(***************************************************************************)
(* The invariant holds in every reachable state, for any number of restart *)
(* tasks that could exist and any number of events.                        *)
(***************************************************************************)
THEOREM Invariance == Spec => []IInv
  BY InitIInv, NextKeeps, PTL DEF Spec

\* Every variable keeps its type: httpd_stop() never counts below zero.
THEOREM TypeCorrect == Spec => []TypeOK
<1>1. IInv => TypeOK
  BY DEF IInv
<1> QED
  BY <1>1, Invariance, PTL

\* The unlocked test-and-set of s_restart_task_running never lets two tasks in.
THEOREM RestartIsAlone == Spec => []OneRestartTask
<1>1. IInv => OneRestartTask
  BY DEF IInv
<1> QED
  BY <1>1, Invariance, PTL

\* The handle is never lost while the server keeps the port, unless the first
\* start left a half-registered server or was overtaken by a restart task.
THEOREM HandleIsExact == Spec => []HandleIsTheServer
<1>1. IInv => HandleIsTheServer
  BY DEF IInv
<1> QED
  BY <1>1, Invariance, PTL

\* No server is left with half of its URIs registered, but by the one failure
\* that does not stop it.
THEOREM ServerIsComplete == Spec => []IdleServerIsComplete
<1>1. IInv => IdleServerIsComplete
  BY DEF IInv
<1> QED
  BY <1>1, Invariance, PTL

\* An event that meets a restart task in its loop is not forgotten.
THEOREM EventsGetPasses == Spec => []EventGetsItsPass
<1>1. IInv => EventGetsItsPass
  BY DEF IInv
<1> QED
  BY <1>1, Invariance, PTL
=============================================================================
