---------------------------- MODULE DoorControl ----------------------------
(***************************************************************************)
(* The control core of main/gdo-blaq-homekit.cpp: who may move the door,   *)
(* and when.  Four tasks arbitrate through a generation counter and a      *)
(* command id, both protected by one recursive mutex (ControlGuard):       *)
(*   - the HomeKit request thread (gdo_control_open, gdo_control_close);   *)
(*   - one task per audible pre-close warning (user, auto, scheduled);     *)
(*   - gdolib's callback task, which reports what the opener does;         *)
(*   - the watchdog: stuck transitions, retry, auto-close, schedule.       *)
(* A warning runs outside the mutex for about five seconds; when it ends   *)
(* the task decides, under the mutex, whether the close still stands.      *)
(*                                                                         *)
(* Time is counted in ticks and kept as ages, not as absolute stamps.      *)
(* Steps take no time; Tick passes only while the watchdog sleeps or runs  *)
(* a warning.  gdolib is external: `opener' is the status it would return  *)
(* at this moment.  HomeKit notifications are outputs no control decision  *)
(* reads; they are not part of this module.                                *)
(***************************************************************************)
EXTENDS Integers, FiniteSets, RetryBudget

CONSTANTS
  ToggleOnly,   \* TRUE on a Security+ 1.0 opener: Open and Close are one TOGGLE
  WarnTicks,    \* PRE_CLOSE_WARNING_DURATION_MS: shortest length of a warning
  WarnMax,      \* longest time from arming to the end of a warning's task
  EngageTicks,  \* GDO_MOTOR_ENGAGE_TIMEOUT_MS
  Timeouts,     \* auto-close timeouts the setter accepts
  Inputs,       \* what the outside does in this instance, see InputKinds
  MaxGen,       \* bound on close_generation
  MaxCmd        \* bound on door_command_id

InputKinds == { "open", "close", "motion", "obstruction", "button", "link",
                "settings", "window", "failure", "ignored" }

ASSUME ToggleOnlyAssumption == ToggleOnly \in BOOLEAN
ASSUME InputsAssumption == Inputs \subseteq InputKinds
ASSUME BoundAssumption == MaxGen \in Nat /\ MaxCmd \in Nat
\* The setter refuses less than a minute, and a warning lasts five seconds.
ASSUME TimingAssumption ==
  /\ WarnTicks \in Nat \ {0} /\ WarnMax \in Nat /\ EngageTicks \in Nat
  /\ WarnTicks <= WarnMax
  /\ Timeouts # {} /\ Timeouts \subseteq Nat
  /\ \A t \in Timeouts : WarnMax < t

Doors == { "MAX", "OPEN", "CLOSED", "PARTWAY" } \* PARTWAY: opening, closing, stopped
Targets == { "NONE", "OPEN", "CLOSED" }         \* gdolib's door_target: -1, 0, 10000
Beams == { "CLEAR", "BLOCKED" }                 \* BLOCKED: obstructed or not known
NotOpen == -1                                   \* s_door_open_since_ms = 0

VARIABLES
  opener,            \* external: what gdo_get_status() returns
  last_door, last_obstruction, in_transit,
  close_generation, door_command_id,
  user_pending, user_pending_generation,
  auto_enabled, auto_timeout, auto_triggered, auto_generation, auto_command_id,
  open_for,          \* age of s_door_open_since_ms, or NotOpen
  sched_enabled, sched_pending, sched_generation, sched_command_id,
  sched_window,      \* "none", "due" or "fired": see CloseSchedule
  warnings,          \* warning tasks in flight
  pc,                \* watchdog: its next step
  slept,             \* watchdog: a tick has passed since it went to sleep
  lag,               \* watchdog: ticks since this pass read `now'
  snapshot,          \* watchdog: what it read before its warning or verdict
  wd_quiet,          \* history: nothing has disturbed the watchdog's own warning
  budget,            \* the watchdog's retry budget
  resends,           \* history: times the latest command was sent again
  last_close         \* history: the circumstances of the latest close sent

settingVars == <<auto_enabled, auto_timeout, sched_enabled>>
userVars    == <<user_pending, user_pending_generation>>
autoVars    == <<auto_triggered, auto_generation, auto_command_id, open_for>>
schedVars   == <<sched_pending, sched_generation, sched_command_id, sched_window>>
trackVars   == <<last_door, last_obstruction, in_transit>>
sendVars    == <<door_command_id, resends, last_close>>
wdVars      == <<pc, slept, lag, snapshot>>
controlVars == <<trackVars, close_generation, sendVars, userVars, settingVars,
                 autoVars, schedVars, warnings, wd_quiet, budget>>
vars == <<opener, trackVars, close_generation, sendVars, userVars, settingVars,
          autoVars, schedVars, warnings, wdVars, wd_quiet, budget>>

(***************************************************************************)
(* `quiet' is a history field: nothing has disturbed the warning since it  *)
(* was armed.  gen and cmd of an auto or scheduled warning are history     *)
(* too: the code keeps them in globals.                                    *)
(***************************************************************************)
Warning == [by : {"user", "auto", "sched"}, gen : Nat, cmd : Nat,
            age : 0..WarnMax, quiet : BOOLEAN]
WatchdogPCs ==
  { "sleep", "transit", "resolve", "retry", "resend", "auto", "arm", "sched" }
Snapshot == [gen : Nat, door : Doors, target : Targets]

\* The age of the open clock saturates where no comparison can see it.
LongestTimeout == CHOOSE t \in Timeouts : \A u \in Timeouts : u <= t
OpenCap == LongestTimeout + WarnMax + 1

Init ==
  /\ opener = [synced |-> FALSE, door |-> "MAX", target |-> "NONE", beam |-> "BLOCKED"]
  /\ last_door = "MAX" /\ last_obstruction = "BLOCKED" /\ in_transit = FALSE
  /\ close_generation = 0 /\ door_command_id = 0
  /\ user_pending = FALSE /\ user_pending_generation = 0
  /\ auto_enabled \in BOOLEAN /\ auto_timeout \in Timeouts
  /\ auto_triggered = FALSE /\ auto_generation = 0 /\ auto_command_id = 0
  /\ open_for = NotOpen
  /\ sched_enabled \in BOOLEAN /\ sched_pending = FALSE
  /\ sched_generation = 0 /\ sched_command_id = 0 /\ sched_window = "none"
  /\ warnings = {}
  /\ pc = "sleep" /\ slept = FALSE /\ lag = 0
  /\ snapshot = [gen |-> 0, door |-> "MAX", target |-> "NONE"]
  /\ wd_quiet = FALSE
  /\ budget = EmptyBudget
  /\ resends = 0
  /\ last_close = [quiet |-> TRUE, warned |-> TRUE, clear |-> TRUE, count |-> 0]

-----------------------------------------------------------------------------
(* Shared pieces of the handlers.                                          *)

\* Outcomes of a call that may fail: gdolib's queue, xTaskCreate, NVS.
Outcomes == IF "failure" \in Inputs THEN BOOLEAN ELSE {TRUE}

\* ++s_close_generation.  The bound is on the model only.
BumpGeneration ==
  /\ close_generation < MaxGen
  /\ close_generation' = close_generation + 1

\* History: every warning in flight, the watchdog's included, is disturbed.
Disturbed(ws) == { [w EXCEPT !.quiet = FALSE] : w \in ws }
DisturbAll ==
  /\ warnings' = Disturbed(warnings)
  /\ wd_quiet' = FALSE

\* Every armed warning may send one command; keep ids within the bound.
RoomToSend == door_command_id + Cardinality(warnings) < MaxCmd

(***************************************************************************)
(* send_door_request(): a new id even when gdolib refuses the request.     *)
(* gdolib ignores a request for where the door already is; whether it then *)
(* updates door_target is not known from this repository ("ignored").      *)
(***************************************************************************)
SendDoorRequest(target, ok) ==
  LET accepted == [opener EXCEPT !.target = target]
  IN  /\ door_command_id' = door_command_id + 1
      /\ resends' = 0
      /\ opener' \in IF ~ok THEN {opener}
                     ELSE IF opener.door = target /\ "ignored" \in Inputs
                          THEN {opener, accepted}
                     ELSE {accepted}

\* What last_close records of a close sent at the end of warning w.
Circumstances(w) ==
  [quiet |-> w.quiet, warned |-> w.age >= WarnTicks,
   clear |-> opener.synced /\ opener.beam = "CLEAR",
   count |-> last_close.count + 1]

\* A change of last_door cancels what was armed before it.
DoorStateChanged_Endpoints(new, other) ==     \* MUTANT: only Open and Closed count
  new # last_door /\ new # "PARTWAY"
DoorStateChanged(new, other) ==
  new # last_door \/ (other /\ new = "PARTWAY")

\* s_door_open_since_ms: starts at every arrival at OPEN, stops at every departure.
OpenClock_UntilClosed(new) ==                 \* MUTANT: only CLOSED stops the clock
  IF new = "OPEN" THEN (IF open_for = NotOpen THEN 0 ELSE open_for)
  ELSE IF new = "CLOSED" THEN NotOpen ELSE open_for
OpenClock(new) ==
  IF new # "OPEN" THEN NotOpen
  ELSE IF last_door = "OPEN" THEN open_for ELSE 0

(***************************************************************************)
(* set_last_door_state(): the only writer of last_door and of the open     *)
(* clock's start.  A change between two PARTWAY states (Opening, Closing,  *)
(* Stopped) bumps the generation too; `other' says that one happens.       *)
(***************************************************************************)
SetLastDoorState(new, other) ==
  /\ IF DoorStateChanged(new, other) THEN BumpGeneration
     ELSE UNCHANGED close_generation
  /\ IF new # last_door \/ (other /\ new = "PARTWAY") THEN DisturbAll
     ELSE UNCHANGED <<warnings, wd_quiet>>
  /\ open_for' = OpenClock(new)
  /\ auto_triggered' = (auto_triggered /\ (new = "OPEN" <=> last_door = "OPEN"))
  /\ last_door' = new

-----------------------------------------------------------------------------
(* The opener (external): its own movements, its beam, its serial link.    *)

OpenerMoves ==
  /\ "motion" \in Inputs \/ opener.door = "MAX"
  /\ \E d \in Doors \ {"MAX", opener.door}, t \in {"OPEN", "CLOSED", opener.target} :
       /\ d \in {"OPEN", "CLOSED"} => t = opener.target
       /\ opener' = [synced |-> opener.synced, door |-> d, target |-> t,
                     beam |-> opener.beam]
  /\ UNCHANGED <<controlVars, wdVars>>

OpenerBeam ==
  /\ \E b \in Beams \ {opener.beam} :
       /\ b = "BLOCKED" => "obstruction" \in Inputs
       /\ opener' = [opener EXCEPT !.beam = b]
  /\ UNCHANGED <<controlVars, wdVars>>

OpenerLink ==
  /\ opener.synced => "link" \in Inputs
  /\ opener' = [opener EXCEPT !.synced = ~@]
  /\ UNCHANGED <<controlVars, wdVars>>

-----------------------------------------------------------------------------
(* gdolib's callback task: gdo_event_handler().                            *)

\* Before its first report status.door is MAX and the raw position decides.
InferredDoors ==
  IF opener.door = "MAX" THEN {"MAX", "OPEN", "CLOSED"} ELSE {opener.door}

(***************************************************************************)
(* process_door_position().  A position that contradicts OPEN or CLOSED    *)
(* makes the handler change nothing, which is a stuttering step.           *)
(***************************************************************************)
DoorPositionEvent ==
  /\ opener.synced
  /\ \E d \in InferredDoors, other \in BOOLEAN :
       /\ SetLastDoorState(d, other)
       /\ in_transit' \in (IF d = "PARTWAY" THEN BOOLEAN ELSE {FALSE})
  /\ UNCHANGED <<opener, last_obstruction, sendVars, userVars, settingVars,
                 auto_generation, auto_command_id, schedVars, wdVars, budget>>

\* GDO_CB_EVENT_MOTOR, On: the direction follows from the last resolved state.
MotorEvent ==
  /\ "motion" \in Inputs
  /\ last_door \in {"OPEN", "CLOSED"}
  /\ SetLastDoorState("PARTWAY", FALSE)
  /\ in_transit' = TRUE
  /\ UNCHANGED <<opener, last_obstruction, sendVars, userVars, settingVars,
                 auto_generation, auto_command_id, schedVars, wdVars, budget>>

\* GDO_CB_EVENT_OBSTRUCTION
ObstructionEvent ==
  /\ last_obstruction # opener.beam
  /\ BumpGeneration /\ DisturbAll
  /\ last_obstruction' = opener.beam
  /\ UNCHANGED <<opener, last_door, in_transit, sendVars, userVars,
                 settingVars, autoVars, schedVars, wdVars, budget>>

\* GDO_CB_EVENT_BUTTON, pressed
ButtonEvent ==
  /\ "button" \in Inputs
  /\ BumpGeneration /\ DisturbAll
  /\ UNCHANGED <<opener, trackVars, sendVars, userVars, settingVars, autoVars,
                 schedVars, wdVars, budget>>

-----------------------------------------------------------------------------
(* The HomeKit request thread.                                             *)

\* gdo_control_open()
ControlOpen ==
  /\ "open" \in Inputs
  /\ RoomToSend
  /\ BumpGeneration /\ DisturbAll
  /\ \E ok \in Outcomes : SendDoorRequest("OPEN", ok)
  /\ UNCHANGED <<trackVars, last_close, userVars, settingVars, autoVars,
                 schedVars, wdVars, budget>>

\* A close warning still stands only for the generation it was armed for.
ClosePending == user_pending /\ user_pending_generation = close_generation

AlreadyClosed == opener.synced /\ ~in_transit /\ opener.door = "CLOSED"

(***************************************************************************)
(* gdo_control_close(): arm a warning of its own.  `ok' is xTaskCreate; a  *)
(* rejected request and one for a closed door change nothing.              *)
(***************************************************************************)
ControlClose ==
  /\ "close" \in Inputs
  /\ RoomToSend
  /\ ~ClosePending
  /\ ~AlreadyClosed
  /\ BumpGeneration
  /\ user_pending_generation' = close_generation + 1
  /\ wd_quiet' = FALSE
  /\ \E ok \in Outcomes :
       /\ user_pending' = ok
       /\ warnings' = Disturbed(warnings) \cup
            (IF ok THEN {[by |-> "user", gen |-> close_generation + 1,
                          cmd |-> door_command_id, age |-> 0, quiet |-> TRUE]}
             ELSE {})
  /\ UNCHANGED <<opener, trackVars, sendVars, settingVars, autoVars, schedVars,
                 wdVars, budget>>

-----------------------------------------------------------------------------
(* The warning tasks: what happens when a warning is over.                 *)

OpenerReady == opener.synced /\ opener.beam = "CLEAR"

\* The slot is released by the task it was last armed for, by no other.
ReleasesSlot_Always(w) == TRUE                \* MUTANT
ReleasesSlot_Superseded(w) ==                 \* MUTANT: only a superseded task does
  w.gen # close_generation
ReleasesSlot(w) == user_pending_generation = w.gen

\* Does the close that the warning announced still stand?
UserCloseStands_OwnSlot(w) ==                 \* MUTANT: asks the slot, not the generation
  w.gen = user_pending_generation /\ OpenerReady
UserCloseStands_AnyBeam(w) ==                 \* MUTANT: trusts the event, not the status
  w.gen = close_generation /\ opener.synced
UserCloseStands(w) == w.gen = close_generation /\ OpenerReady

\* user_close_task(): release the slot if it is ours, close if still current.
UserWarningEnds(w) ==
  /\ w.by = "user" /\ w.age >= WarnTicks
  /\ warnings' = warnings \ {w}
  /\ user_pending' = (user_pending /\ ~ReleasesSlot(w))
  /\ IF UserCloseStands(w)
     THEN /\ \E ok \in Outcomes : SendDoorRequest("CLOSED", ok)
          /\ last_close' = Circumstances(w)
     ELSE UNCHANGED <<opener, sendVars>>
  /\ UNCHANGED <<trackVars, close_generation, user_pending_generation,
                 settingVars, autoVars, schedVars, wdVars, wd_quiet, budget>>

\* What both automatic completions revalidate.
StillOpenAndClear ==
  OpenerReady /\ opener.door = "OPEN" /\ last_obstruction = "CLEAR"

\* A cancelled or refused auto-close waits for a whole new timeout.
RestartAutoClose_Rewind ==                    \* MUTANT: rewinds the clock instead
  /\ auto_triggered' = FALSE
  /\ open_for' = open_for - auto_timeout
RestartAutoClose_AnyDoor ==                   \* MUTANT: forgets to look at last_door
  /\ auto_triggered' = FALSE
  /\ open_for' = 0
RestartAutoClose ==
  /\ auto_triggered' = FALSE
  /\ open_for' = IF last_door = "OPEN" THEN 0 ELSE open_for

\* auto_close_warning_complete_cb()
AutoWarningEnds(w) ==
  /\ w.by = "auto" /\ w.age >= WarnTicks
  /\ warnings' = warnings \ {w}
  /\ IF /\ StillOpenAndClear /\ auto_enabled
        /\ auto_generation = close_generation
        /\ auto_command_id = door_command_id
     THEN /\ last_close' = Circumstances(w)
          /\ \E ok \in Outcomes :
               /\ SendDoorRequest("CLOSED", ok)
               /\ IF ok THEN UNCHANGED <<auto_triggered, open_for>>
                  ELSE auto_triggered' = FALSE /\ open_for' = 0
     ELSE RestartAutoClose /\ UNCHANGED <<opener, sendVars>>
  /\ UNCHANGED <<trackVars, close_generation, userVars, settingVars,
                 auto_generation, auto_command_id, schedVars, wdVars, wd_quiet,
                 budget>>

\* sched_close_warning_complete_cb()
SchedWarningEnds(w) ==
  /\ w.by = "sched" /\ w.age >= WarnTicks
  /\ warnings' = warnings \ {w}
  /\ sched_pending' = FALSE
  /\ IF /\ StillOpenAndClear /\ sched_enabled
        /\ sched_generation = close_generation
        /\ sched_command_id = door_command_id
     THEN /\ last_close' = Circumstances(w)
          /\ \E ok \in Outcomes : SendDoorRequest("CLOSED", ok)
     ELSE UNCHANGED <<opener, sendVars>>
  /\ UNCHANGED <<trackVars, close_generation, userVars, settingVars, autoVars,
                 sched_generation, sched_command_id, sched_window, wdVars,
                 wd_quiet, budget>>

-----------------------------------------------------------------------------
(* Settings, from the diagnostics server.  A save that fails changes       *)
(* nothing (a stuttering step); one that succeeds cancels pending closes.  *)

SettingSaved ==
  /\ "settings" \in Inputs
  /\ BumpGeneration /\ DisturbAll
  /\ UNCHANGED <<opener, trackVars, sendVars, userVars, autoVars,
                 sched_pending, sched_generation, sched_command_id, wdVars,
                 budget>>

\* gdo_set_pre_close_buzzer(); the buzzer itself is an output
SetPreCloseBuzzer == SettingSaved /\ UNCHANGED <<settingVars, sched_window>>

\* gdo_set_auto_close_timeout_ms()
SetAutoCloseTimeout ==
  /\ SettingSaved
  /\ auto_timeout' \in Timeouts
  /\ UNCHANGED <<auto_enabled, sched_enabled, sched_window>>

\* gdo_set_auto_close_enabled()
SetAutoCloseEnabled ==
  /\ SettingSaved
  /\ auto_enabled' \in BOOLEAN
  /\ UNCHANGED <<auto_timeout, sched_enabled, sched_window>>

\* gdo_set_close_schedule(): another time or zone forgets the window's firing.
SetCloseSchedule ==
  /\ SettingSaved
  /\ sched_enabled' \in BOOLEAN
  /\ sched_window' \in {sched_window, "none", "due"}
  /\ UNCHANGED <<auto_enabled, auto_timeout>>

\* The local clock enters or leaves the schedule's window (see CloseSchedule).
WindowChanges ==
  /\ "window" \in Inputs
  /\ sched_window' = IF sched_window = "none" THEN "due" ELSE "none"
  /\ UNCHANGED <<opener, trackVars, close_generation, sendVars, userVars,
                 settingVars, autoVars, sched_pending, sched_generation,
                 sched_command_id, warnings, wdVars, wd_quiet, budget>>

-----------------------------------------------------------------------------
(* gdo_watchdog_task(): one pass of the loop.                              *)

\* vTaskDelay returns; `now' is read once for the whole pass.
WatchdogWakes ==
  /\ pc = "sleep" /\ slept
  /\ pc' = "transit" /\ slept' = FALSE /\ lag' = 0
  /\ UNCHANGED <<snapshot, opener, controlVars>>

\* 1) A transition is late (or is not): the status is sampled here ...
CheckTransit ==
  /\ pc = "transit"
  /\ \E late \in BOOLEAN :
       /\ late => in_transit
       /\ pc' = IF late THEN "resolve" ELSE "retry"
       /\ snapshot' = IF late THEN [snapshot EXCEPT !.door = opener.door] ELSE snapshot
  /\ UNCHANGED <<slept, lag, opener, controlVars>>

\* ... and the verdict drawn from that sample is written here.
ResolveTransit ==
  /\ pc = "resolve"
  /\ pc' = "retry"
  /\ in_transit' = FALSE
  /\ \E d \in (IF snapshot.door \in {"OPEN", "CLOSED"} THEN {snapshot.door}
               ELSE {"OPEN", "CLOSED", "PARTWAY"}), other \in BOOLEAN :
       SetLastDoorState(d, other)
  /\ UNCHANGED <<slept, lag, snapshot, opener, last_obstruction, sendVars,
                 userVars, settingVars, auto_generation, auto_command_id,
                 schedVars, budget>>

\* The latest request has not started the door.
RequestPending ==
  /\ opener.synced /\ ~in_transit
  /\ <<opener.target, opener.door>> \in {<<"OPEN", "CLOSED">>, <<"CLOSED", "OPEN">>}

\* The close an auto-close sent never happened.
AutoCloseHadNoEffect_Ignored(action) == FALSE \* MUTANT: the flag stays set
AutoCloseHadNoEffect(action) ==
  action = "REVERT" /\ opener.door = "OPEN" /\ auto_triggered

(***************************************************************************)
(* 2) A request that never starts gets one retry.  REVERT gives the        *)
(* HomeKit target back and, for an auto-close that had no effect, starts   *)
(* its timeout over.                                                       *)
(***************************************************************************)
CheckRetry ==
  /\ pc = "retry"
  /\ LET step == RetryBudgetStep(budget, door_command_id, RequestPending,
                                 ~ToggleOnly, EngageTicks)
     IN  /\ budget' = step.budget
         /\ IF step.action = "SEND"
            THEN /\ pc' = "resend" /\ wd_quiet' = TRUE
                 /\ snapshot' = [gen |-> close_generation, door |-> opener.door,
                                 target |-> opener.target]
            ELSE pc' = "auto" /\ UNCHANGED <<wd_quiet, snapshot>>
         /\ IF AutoCloseHadNoEffect(step.action)
            THEN auto_triggered' = FALSE /\ open_for' = 0
            ELSE UNCHANGED <<auto_triggered, open_for>>
  /\ UNCHANGED <<slept, lag, opener, trackVars, close_generation, sendVars,
                 userVars, settingVars, auto_generation, auto_command_id,
                 schedVars, warnings>>

\* retry_door_request() refuses an unsynced or toggle-only opener.
RetryStands ==
  /\ snapshot.gen = close_generation
  /\ opener.door = snapshot.door /\ opener.target = snapshot.target
  /\ snapshot.target = "CLOSED" => opener.beam = "CLEAR"
  /\ opener.synced /\ ~ToggleOnly

\* The watchdog's own warning (for a close) is over: send again or drop it.
RetryResends ==
  /\ pc = "resend"
  /\ snapshot.target = "CLOSED" => lag >= WarnTicks
  /\ pc' = "auto"
  /\ IF RetryStands
     THEN /\ resends' = resends + 1
          /\ last_close' = IF snapshot.target = "CLOSED"
                           THEN [quiet |-> wd_quiet, warned |-> lag >= WarnTicks,
                                 clear |-> OpenerReady,
                                 count |-> last_close.count + 1]
                           ELSE last_close
     ELSE UNCHANGED <<resends, last_close>>
  /\ UNCHANGED <<slept, lag, snapshot, opener, trackVars, close_generation,
                 door_command_id, userVars, settingVars, autoVars,
                 schedVars, warnings, wd_quiet, budget>>

(***************************************************************************)
(* 3) Auto-close.  The first test runs outside the mutex, against the      *)
(* `now' of this pass; the second runs under it.  A second test that fails *)
(* ends the whole pass (continue), the scheduled close included.           *)
(***************************************************************************)
AutoCloseDue ==
  /\ auto_enabled /\ open_for # NotOpen
  /\ ~auto_triggered /\ ~sched_pending
  /\ open_for - lag > auto_timeout
  /\ last_obstruction = "CLEAR"

CheckAutoClose ==
  /\ pc = "auto"
  /\ pc' = (IF AutoCloseDue THEN "arm" ELSE "sched")
  /\ UNCHANGED <<slept, lag, snapshot, opener, controlVars>>

\* gdo_get_auto_close_remaining_ms() = 0
NoTimeRemains ==
  /\ auto_enabled /\ open_for # NotOpen /\ ~auto_triggered
  /\ open_for >= auto_timeout

MayArmAutoClose ==
  /\ OpenerReady /\ opener.door = "OPEN"
  /\ auto_enabled /\ ~auto_triggered /\ ~sched_pending
  /\ NoTimeRemains

ArmAutoClose ==
  /\ pc = "arm" /\ MayArmAutoClose
  /\ RoomToSend
  /\ auto_generation' = close_generation
  /\ auto_command_id' = door_command_id
  /\ \E ok \in Outcomes :
       IF ok
       THEN /\ auto_triggered' = TRUE
            /\ warnings' = warnings \cup
                 {[by |-> "auto", gen |-> close_generation, cmd |-> door_command_id,
                   age |-> 0, quiet |-> TRUE]}
            /\ UNCHANGED open_for
       ELSE /\ auto_triggered' = FALSE
            /\ open_for' = 0
            /\ UNCHANGED warnings
  /\ pc' = "sched"
  /\ UNCHANGED <<slept, lag, snapshot, opener, trackVars, close_generation,
                 sendVars, userVars, settingVars, schedVars, wd_quiet, budget>>

AbandonPass ==
  /\ pc = "arm" /\ (~MayArmAutoClose \/ ~RoomToSend)
  /\ pc' = "sleep"
  /\ UNCHANGED <<slept, lag, snapshot, opener, controlVars>>

(***************************************************************************)
(* 4) sched_close_check().  `due' stands for the window arithmetic and the *)
(* day last fired; CloseSchedule models both.  The day is persisted before *)
(* the warning is armed and given back if the warning cannot start.        *)
(***************************************************************************)
MayFireSchedule_Again ==                      \* MUTANT: forgets its own pending close
  /\ sched_enabled /\ sched_window = "due"
  /\ ~auto_triggered /\ ~user_pending
  /\ StillOpenAndClear /\ last_door = "OPEN"
MayFireSchedule_BesideAuto ==                 \* MUTANT: forgets the auto-close
  /\ sched_enabled /\ sched_window = "due"
  /\ ~sched_pending /\ ~user_pending
  /\ StillOpenAndClear /\ last_door = "OPEN"
MayFireSchedule ==
  /\ sched_enabled /\ sched_window = "due"
  /\ ~sched_pending /\ ~auto_triggered /\ ~user_pending
  /\ StillOpenAndClear /\ last_door = "OPEN"

FireSchedule ==
  /\ pc = "sched" /\ MayFireSchedule
  /\ RoomToSend
  /\ sched_generation' = close_generation
  /\ sched_command_id' = door_command_id
  /\ \E ok \in Outcomes, restored \in Outcomes :
       IF ok
       THEN /\ sched_pending' = TRUE /\ sched_window' = "fired"
            /\ warnings' = warnings \cup
                 {[by |-> "sched", gen |-> close_generation, cmd |-> door_command_id,
                   age |-> 0, quiet |-> TRUE]}
       ELSE /\ sched_pending' = FALSE
            /\ sched_window' = IF restored THEN "due" ELSE "fired"
            /\ UNCHANGED warnings
  /\ pc' = "sleep"
  /\ UNCHANGED <<slept, lag, snapshot, opener, trackVars, close_generation,
                 sendVars, userVars, settingVars, autoVars, wd_quiet, budget>>

\* Not due, not possible, not open long enough, or the day was not persisted.
SkipSchedule ==
  /\ pc = "sched"
  /\ pc' = "sleep"
  /\ UNCHANGED <<slept, lag, snapshot, opener, controlVars>>

-----------------------------------------------------------------------------
(* Time passes while no task has a step to take and no warning is overdue. *)

Tick ==
  /\ pc \in {"sleep", "resend"}
  /\ pc = "resend" => snapshot.target = "CLOSED" /\ lag < WarnMax
  /\ \A w \in warnings : w.age < WarnMax
  /\ warnings' = { [w EXCEPT !.age = @ + 1] : w \in warnings }
  /\ slept' = (slept \/ pc = "sleep")
  /\ lag' = IF pc = "resend" THEN lag + 1 ELSE lag
  /\ open_for' = IF open_for = NotOpen \/ open_for >= OpenCap THEN open_for
                 ELSE open_for + 1
  /\ budget' = AgeBudget(budget, EngageTicks)
  /\ UNCHANGED <<pc, snapshot, opener, trackVars, close_generation, sendVars,
                 userVars, settingVars, auto_triggered, auto_generation,
                 auto_command_id, schedVars, wd_quiet>>

-----------------------------------------------------------------------------
OpenerStep == OpenerMoves \/ OpenerBeam \/ OpenerLink
EventStep == DoorPositionEvent \/ MotorEvent \/ ObstructionEvent \/ ButtonEvent
HomeKitStep == ControlOpen \/ ControlClose
WarningStep ==
  \E w \in warnings : UserWarningEnds(w) \/ AutoWarningEnds(w) \/ SchedWarningEnds(w)
SettingsStep ==
  \/ SetPreCloseBuzzer \/ SetAutoCloseTimeout \/ SetAutoCloseEnabled
  \/ SetCloseSchedule \/ WindowChanges
WatchdogStep ==
  \/ WatchdogWakes \/ CheckTransit \/ ResolveTransit \/ CheckRetry \/ RetryResends
  \/ CheckAutoClose \/ ArmAutoClose \/ AbandonPass \/ FireSchedule \/ SkipSchedule

Next ==
  \/ OpenerStep \/ EventStep \/ HomeKitStep \/ WarningStep \/ SettingsStep
  \/ WatchdogStep \/ Tick

Spec == Init /\ [][Next]_vars

-----------------------------------------------------------------------------
(* Properties.                                                             *)

TrackTypeOK ==
  /\ opener \in [synced : BOOLEAN, door : Doors, target : Targets, beam : Beams]
  /\ last_door \in Doors /\ last_obstruction \in Beams /\ in_transit \in BOOLEAN
SendTypeOK ==
  /\ door_command_id \in Nat /\ resends \in Nat
  /\ last_close \in [quiet : BOOLEAN, warned : BOOLEAN, clear : BOOLEAN, count : Nat]
UserTypeOK == user_pending \in BOOLEAN /\ user_pending_generation \in Nat
SettingTypeOK ==
  auto_enabled \in BOOLEAN /\ auto_timeout \in Timeouts /\ sched_enabled \in BOOLEAN
AutoTypeOK ==
  /\ auto_triggered \in BOOLEAN /\ auto_generation \in Nat /\ auto_command_id \in Nat
  /\ open_for \in Nat \cup {NotOpen}
SchedTypeOK ==
  /\ sched_pending \in BOOLEAN /\ sched_generation \in Nat /\ sched_command_id \in Nat
  /\ sched_window \in {"none", "due", "fired"}
WarningTypeOK ==
  close_generation \in Nat /\ warnings \subseteq Warning /\ wd_quiet \in BOOLEAN
WatchdogTypeOK ==
  /\ pc \in WatchdogPCs /\ slept \in BOOLEAN /\ lag \in 0..WarnMax
  /\ snapshot \in Snapshot
BudgetTypeOK == budget \in RetryBudgets(EngageTicks + 1)

\* Every variable keeps its type.
TypeOK ==
  /\ TrackTypeOK /\ SendTypeOK /\ UserTypeOK /\ SettingTypeOK /\ AutoTypeOK
  /\ SchedTypeOK /\ WarningTypeOK /\ WatchdogTypeOK /\ BudgetTypeOK

(***************************************************************************)
(* No close is ever sent, by a user, automatically, on schedule or as a    *)
(* retry, before a whole warning has run, nor if during that warning a     *)
(* newer HomeKit request, a door or beam change, a button press or a       *)
(* settings change happened: the generation and command-id checks at the   *)
(* end of each warning catch every one of them, in every order.            *)
(***************************************************************************)
CloseIsWarnedAndQuiet == last_close.warned /\ last_close.quiet

\* No close is sent to an unsynced opener or while the beam is not known clear,
\* even if the obstruction event has not been delivered yet.
CloseIsClear == last_close.clear

(***************************************************************************)
(* The auto-close clock runs exactly while last_door is OPEN and the       *)
(* triggered flag is only set then, although six call sites of three tasks *)
(* write last_door, the clock or the flag.                                 *)
(***************************************************************************)
OpenClockFollowsDoor ==
  /\ open_for # NotOpen <=> last_door = "OPEN"
  /\ auto_triggered => last_door = "OPEN"

(***************************************************************************)
(* s_user_close_pending never outlives the task that must clear it (or     *)
(* every later close would be rejected), and a task whose close still      *)
(* stands always holds the slot (or two closes could be armed at once).    *)
(***************************************************************************)
PendingSlotIsOwned ==
  /\ user_pending => \E w \in warnings : w.by = "user" /\ w.gen = user_pending_generation
  /\ \A w \in warnings : w.by = "user" /\ w.gen = close_generation => ClosePending

(***************************************************************************)
(* The auto-close warning reads its generation and command id from globals *)
(* when it ends.  Door motion clears the triggered flag while a warning is *)
(* still sounding, so nothing but time keeps a second one from overwriting *)
(* the globals: the shortest timeout is longer than a warning.             *)
(***************************************************************************)
OneAutoWarning ==
  \A v, w \in warnings : v.by = "auto" /\ w.by = "auto" =>
    /\ v = w
    /\ w.gen = auto_generation /\ w.cmd = auto_command_id

(***************************************************************************)
(* s_sched_close_pending says exactly whether a scheduled warning runs, and *)
(* that one is alone, so that the generation and command id it reads from  *)
(* globals when it ends are still the ones it was armed with.              *)
(***************************************************************************)
SchedulePendingIsAWarning ==
  /\ sched_pending <=> \E w \in warnings : w.by = "sched"
  /\ \A v, w \in warnings : v.by = "sched" /\ w.by = "sched" =>
       /\ v = w
       /\ w.gen = sched_generation /\ w.cmd = sched_command_id

(***************************************************************************)
(* The control core keeps the promise of GuardedClose: what sounds there   *)
(* is here the undisturbed warnings, the watchdog's own included.  Beyond  *)
(* CloseIsWarnedAndQuiet it says that a warning announces one close only,  *)
(* whoever it is for and however the requests overtake each other.         *)
(***************************************************************************)
WatchdogWarns == pc = "resend" /\ wd_quiet /\ snapshot.target = "CLOSED"
WatchdogWarning ==
  [by |-> "watchdog", gen |-> snapshot.gen, cmd |-> 0, age |-> lag, quiet |-> TRUE]
Sounding ==
  { w \in warnings : w.quiet } \cup (IF WatchdogWarns THEN {WatchdogWarning} ELSE {})
Promise == INSTANCE GuardedClose WITH
  Whole <- WarnTicks, sounding <- Sounding, ready <- OpenerReady,
  closes <- last_close.count
KeepsPromise == Promise!Spec

\* Auto-close and scheduled close never both believe that they own the door.
AutomaticClosesExclude == ~(auto_triggered /\ sched_pending)

(***************************************************************************)
(* The opener is never asked again and again: a command is resent once by  *)
(* its own budget, and at most once more because the watchdog was already  *)
(* warning for the retry of an older command when it was sent.  (The       *)
(* second is one more than "at most one retry" in retry_budget.h:13.)      *)
(***************************************************************************)
RetriesAreBounded == resends <= 2

\* Tasks are scheduled and timers run.  gdolib owes no report: it sends one only
\* when the door changes or the link syncs, and cannot be asked for another.
Fairness == WF_vars(Tick) /\ WF_vars(WarningStep) /\ WF_vars(WatchdogStep)

FairSpec == Spec /\ Fairness

\* The opener took a HomeKit Open after the auto-close was sent: there is nothing
\* left for the watchdog to retry or to revert.
OpenOvertook == opener.target = "OPEN" /\ ~\E w \in warnings : w.by = "auto"

(***************************************************************************)
(* An auto-close the opener accepted but never acted on is given up, so    *)
(* that it blocks neither the next auto-close nor the scheduled close:     *)
(* always, while the link holds, unless the opener took an Open in the     *)
(* meantime.  Then retry_budget_step() is done at once, nothing is         *)
(* reverted and the flag stays until the door moves.                       *)
(***************************************************************************)
AutoCloseGivenUp ==
  <>[](opener.synced /\ opener.door = "OPEN" /\ ~OpenOvertook) => []<>(~auto_triggered)

\* A pending user close is always released: later closes are not rejected for ever.
PendingSlotFreed == ClosePending ~> ~ClosePending

-----------------------------------------------------------------------------
(* The inductive invariant behind the theorems of DoorControlProofs.       *)

\* Generations only grow, and a warning of the current one is undisturbed.
WarningsAreDated ==
  /\ \A w \in warnings : w.gen <= close_generation /\ (w.gen = close_generation => w.quiet)
  /\ snapshot.gen <= close_generation
  /\ pc = "resend" /\ snapshot.gen = close_generation => wd_quiet
  /\ user_pending_generation <= close_generation
  /\ \A v, w \in warnings : v.by = "user" /\ w.by = "user" /\ v.gen = w.gen => v = w

\* The watchdog reaches its own warning in the tick in which it read `now'.
PassIsPrompt == pc \in {"transit", "resolve", "retry"} => lag = 0

(***************************************************************************)
(* What may still be resent is bounded by what the budget of the latest    *)
(* command has not been charged with, plus the one retry of an older       *)
(* command that the watchdog was warning for when the latest was sent.     *)
(***************************************************************************)
AttemptsCharged == IF budget.id = door_command_id THEN budget.attempts ELSE 0
ResendsUnderWay == IF pc = "resend" THEN 1 ELSE 0
RetriesAreCharged ==
  /\ budget.id <= door_command_id
  /\ resends + ResendsUnderWay <= AttemptsCharged + 1

\* Once the flag is cleared under a sounding warning, the clock is younger than it.
ClockHidesAutoWarning ==
  \A w \in warnings : w.by = "auto" =>
    /\ auto_triggered \/ open_for = NotOpen \/ open_for <= w.age
    /\ w.gen = close_generation => last_door = "OPEN"

(***************************************************************************)
(* Everything the safety properties rest on, at once: the invariant that   *)
(* the proofs show to be preserved by every step of every task.            *)
(***************************************************************************)
IInv ==
  /\ TypeOK
  /\ WarningsAreDated /\ ClockHidesAutoWarning
  /\ CloseIsWarnedAndQuiet /\ CloseIsClear
  /\ OpenClockFollowsDoor /\ PendingSlotIsOwned
  /\ OneAutoWarning /\ SchedulePendingIsAWarning /\ AutomaticClosesExclude
=============================================================================
