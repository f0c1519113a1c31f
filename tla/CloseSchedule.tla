--------------------------- MODULE CloseSchedule ---------------------------
(***************************************************************************)
(* When the scheduled close fires (main/close_schedule.h, the schedule     *)
(* half of main/gdo-blaq-homekit.cpp, main/clock_sync.cpp).  DoorControl   *)
(* models who may send a close once a warning sounds; this module models   *)
(* which night and which minute the warning may start on: the local clock, *)
(* its zone, its steps and its loss at a reboot, the day reserved in NVS   *)
(* before the warning, failing saves and edits of the schedule.  The door  *)
(* itself and what the firmware has heard of it are kept apart: while the  *)
(* opener is out of sync its position events are dropped.                  *)
(*                                                                         *)
(* Time is counted in ticks of 1/Grain minute from a midnight; the         *)
(* watchdog looks at the schedule at least once in every tick.             *)
(***************************************************************************)
EXTENDS Integers, FiniteSets

CONSTANTS
  DayMin,      \* minutes in a day: 1440
  Window,      \* CLOSE_SCHEDULE_WINDOW_MIN
  Grain,       \* ticks in a minute
  Minutes,     \* minutes of the day the owner may choose
  Zones,       \* local time of tick 0 in each zone the owner may choose: days after 1970
  StepsOn, StepsBack,   \* ticks the clock may be stepped by: daylight saving, SNTP
  MayFail,     \* may a save or the start of the warning fail?
  MayLoseSync, \* may the opener fall out of sync after the boot?
  Horizon, MaxEdits, MaxReboots    \* bounds of the exploration

DayTicks == DayMin * Grain
Steps == StepsOn \cup { -d : d \in StepsBack }

ASSUME TimeAssumption ==
  /\ DayMin \in Nat \ {0} /\ Grain \in Nat \ {0} /\ Horizon \in Nat
  /\ Window \in 1..(DayMin - 1) /\ Minutes \subseteq 0..(DayMin - 1)
  /\ StepsOn \subseteq Nat \ {0} /\ StepsBack \subseteq Nat \ {0}
  /\ \A z \in Zones : z \in Nat /\ z >= DayTicks
  /\ \A z \in Zones, d \in StepsBack : z - d >= DayTicks
ASSUME FaultAssumption ==
  /\ MayFail \in BOOLEAN /\ MayLoseSync \in BOOLEAN
  /\ MaxEdits \in Nat /\ MaxReboots \in Nat

Never == -1

VARIABLES
  now,          \* true time
  shift,        \* ticks the wall clock has been stepped by
  synced,       \* has SNTP set the clock since the boot?
  sched,        \* s_close_schedule: [enabled, minute, zone]
  last_day,     \* s_close_schedule_last_day
  nvs,          \* the sched_v1 blob: [sched, day]
  opened_at,    \* when the door arrived at OPEN, Never if it is not open
  open_since,   \* s_door_continuously_open_since_ms, Never for its 0
  opener,       \* not in sync since the boot, out of sync again, or in sync and
                \* hindered (beam not clear, another close pending) or ready
  stage,        \* the firing: idle, reserved (day saved), armed or cancelled
  previous_day, \* the local variable of sched_close_check()
  checked,      \* has the watchdog looked since anything last changed?  "no", "yes",
                \* or "failed" when a call of its failed
  edits, reboots,
  missed,       \* history: the door was not open at some time since open_since
  began,        \* history: when the local clock last came to each minute
  fired         \* history: the windows that have fired since the last edit of the time

clockVars == <<now, shift, synced>>
schedVars == <<sched, last_day, nvs>>
doorVars  == <<opened_at, open_since, opener, missed>>
fireVars  == <<stage, previous_day, fired>>
vars == <<clockVars, schedVars, doorVars, fireVars, checked, edits, reboots, began>>

-----------------------------------------------------------------------------
(* The clock                                                               *)

LocalTick(t, zone) == t + zone + shift
Local == LocalTick(now, sched.zone)

\* clock_sync_local_now()
NowMin == (Local \div Grain) % DayMin
Today  == Local \div DayTicks

\* How long ago, and when, the minute m last began on a clock that shows `local' and was
\* never stepped.
Into(m, local) == (local - m * Grain) % DayTicks
LastBegan(m, local) == now - Into(m, local)
Rebegun(local) == [m \in Minutes |-> LastBegan(m, local)]

\* Moving from `local' to local + d, the clock comes to the start of minute m.
Passes(m, local, d) ==
  \E i \in (IF d > 0 THEN 1..d ELSE {d}) : Into(m, local + i) = 0
BegunBy(d, t) ==
  [m \in Minutes |-> IF Passes(m, Local, d) THEN t ELSE began[m]]

-----------------------------------------------------------------------------
(* close_schedule.h                                                        *)

\* A window that began before midnight belongs to the day before.
WindowDay_Today(minute) == Today                      \* MUTANT: no midnight case
WindowDay(minute) == IF NowMin >= minute THEN Today ELSE Today - 1

OpenFor == IF opened_at = Never \/ open_since = Never THEN 0 ELSE now - open_since
Since(minute) == (NowMin + DayMin - minute) % DayMin

ShouldFire_Short(minute) ==                           \* MUTANT: since, not since + 1
  /\ synced /\ OpenFor > 0
  /\ Since(minute) < Window
  /\ OpenFor >= Since(minute) * Grain
  /\ last_day # WindowDay(minute)
ShouldFire_Narrow(minute) ==                          \* MUTANT: the last minute is lost
  /\ synced /\ OpenFor > 0
  /\ Since(minute) + 1 < Window
  /\ OpenFor >= (Since(minute) + 1) * Grain
  /\ last_day # WindowDay(minute)
ShouldFire(minute) ==
  /\ synced /\ OpenFor > 0
  /\ Since(minute) < Window
  /\ OpenFor >= (Since(minute) + 1) * Grain
  /\ last_day # WindowDay(minute)

\* close_schedule_save(): a save that reports failure may still have been written.
Saves(s, day) == nvs' = [sched |-> s, day |-> day]
SaveFails(s, day) == MayFail /\ (UNCHANGED nvs \/ Saves(s, day))

-----------------------------------------------------------------------------
Init ==
  /\ now = 0 /\ shift = 0 /\ synced = FALSE
  /\ \E m \in Minutes, z \in Zones :
       sched = [enabled |-> FALSE, minute |-> m, zone |-> z]
  /\ last_day = 0 /\ nvs = [sched |-> sched, day |-> 0]
  /\ opened_at \in {Never, 0} /\ open_since = Never
  /\ opener = "boot" /\ missed = FALSE
  /\ stage = "idle" /\ previous_day = 0 /\ fired = {}
  /\ checked = "no" /\ edits = 0 /\ reboots = 0
  /\ began = Rebegun(Local)

\* The guard is held from the reservation to the start of the warning.
GuardFree == stage # "reserved"
Cancelled == IF stage = "armed" THEN "cancelled" ELSE stage

\* A tick passes only when the watchdog has had its turn in it.
Tick ==
  /\ checked # "no" /\ now < Horizon
  /\ now' = now + 1
  /\ began' = BegunBy(1, now + 1)
  /\ checked' = "no"
  /\ UNCHANGED <<shift, synced, schedVars, doorVars, fireVars, edits, reboots>>

ClockSteps ==
  /\ shift = 0 /\ GuardFree
  /\ \E d \in Steps : shift' = d /\ began' = BegunBy(d, now)
  /\ checked' = "no"
  /\ UNCHANGED <<now, synced, schedVars, doorVars, fireVars, edits, reboots>>

ClockSyncs ==
  /\ ~synced /\ GuardFree
  /\ synced' = TRUE /\ checked' = "no"
  /\ UNCHANGED <<now, shift, schedVars, doorVars, fireVars, edits, reboots, began>>

-----------------------------------------------------------------------------
(* The door, and what set_last_door_state() has heard of it                *)

InSync == opener \in {"hindered", "ready"}

\* The open-since starts with a change to OPEN and ends with a change from it; a door
\* that is still, or again, OPEN keeps it.
Hears(door) ==
  /\ open_since' = IF door = Never THEN Never
                   ELSE IF open_since = Never THEN now ELSE open_since
  /\ stage' = IF open_since' = open_since THEN stage ELSE Cancelled
  /\ missed' = (missed /\ open_since' = open_since)

DoorOpens ==
  /\ opened_at = Never /\ GuardFree
  /\ opened_at' = now /\ checked' = "no"
  /\ IF InSync THEN Hears(now) ELSE UNCHANGED <<open_since, stage, missed>>
  /\ UNCHANGED <<clockVars, schedVars, opener, previous_day, fired, edits, reboots,
                 began>>

ClosesUnheard == missed' = (open_since # Never) /\ UNCHANGED <<open_since, stage>>

DoorCloses_Keep ==                                    \* MUTANT: the clock runs on
  /\ opened_at # Never /\ GuardFree
  /\ opened_at' = Never /\ checked' = "no"
  /\ IF InSync THEN stage' = Cancelled /\ UNCHANGED <<open_since, missed>>
     ELSE ClosesUnheard
  /\ UNCHANGED <<clockVars, schedVars, opener, previous_day, fired, edits, reboots,
                 began>>
DoorCloses ==
  /\ opened_at # Never /\ GuardFree
  /\ opened_at' = Never /\ checked' = "no"
  /\ IF InSync THEN Hears(Never) ELSE ClosesUnheard
  /\ UNCHANGED <<clockVars, schedVars, opener, previous_day, fired, edits, reboots,
                 began>>

\* Out of sync a motor event still ends the open-since, and the watchdog may settle on
\* an OPEN read from a stale position.
DoorGuessed ==
  /\ opener = "unsynced" /\ GuardFree
  /\ open_since' \in {Never, now} \ {open_since}
  /\ missed' = (open_since' # Never /\ opened_at = Never)
  /\ stage' = Cancelled /\ checked' = "no"
  /\ UNCHANGED <<clockVars, schedVars, opened_at, opener, previous_day, fired, edits,
                 reboots, began>>

\* The catch-up that ends a sync hears where the door is now, not where it has been.
OpenerSyncs ==
  /\ ~InSync /\ GuardFree
  /\ opener' = "ready" /\ Hears(opened_at)
  /\ checked' = "no"
  /\ UNCHANGED <<clockVars, schedVars, opened_at, previous_day, fired, edits, reboots,
                 began>>

OpenerChanges ==
  /\ InSync /\ GuardFree
  /\ opener' \in {"hindered", "ready"} \cup (IF MayLoseSync THEN {"unsynced"} ELSE {})
  /\ opener' # opener /\ checked' = "no"
  /\ UNCHANGED <<clockVars, schedVars, opened_at, open_since, missed, fireVars, edits,
                 reboots, began>>

-----------------------------------------------------------------------------
(* gdo_set_close_schedule(): save first, publish when the save succeeded   *)

SetCloseSchedule ==
  /\ GuardFree /\ edits < MaxEdits
  /\ edits' = edits + 1
  /\ \E e \in BOOLEAN, m \in Minutes, z \in Zones :
       LET in == [enabled |-> e, minute |-> m, zone |-> z]
           time_changed == m # sched.minute \/ z # sched.zone
           day == IF time_changed THEN 0 ELSE last_day
       IN /\ fired' = IF time_changed THEN {} ELSE fired
          /\ \/ /\ Saves(in, day)
                /\ sched' = in /\ last_day' = day
                /\ stage' = Cancelled /\ checked' = "no"
                /\ began' = IF z = sched.zone THEN began
                            ELSE Rebegun(LocalTick(now, z))
             \/ /\ SaveFails(in, day)
                /\ UNCHANGED <<sched, last_day, stage, checked, began>>
  /\ UNCHANGED <<clockVars, doorVars, previous_day, reboots>>

-----------------------------------------------------------------------------
(* sched_close_check(), once in every turn of the watchdog                 *)

MayFire == sched.enabled /\ stage = "idle" /\ opener = "ready" /\ ShouldFire(sched.minute)

DoesNotFire ==
  /\ checked = "no" /\ GuardFree /\ ~MayFire
  /\ checked' = "yes"
  /\ UNCHANGED <<clockVars, schedVars, doorVars, fireVars, edits, reboots, began>>

\* close_schedule_last_day_save(window_day)
ReserveDay ==
  /\ checked = "no" /\ MayFire
  /\ LET day == WindowDay(sched.minute) IN
       \/ /\ Saves(sched, day)
          /\ last_day' = day /\ previous_day' = last_day
          /\ stage' = "reserved"
          /\ UNCHANGED checked
       \/ /\ SaveFails(sched, day)
          /\ checked' = "failed"
          /\ UNCHANGED <<last_day, previous_day, stage>>
  /\ UNCHANGED <<clockVars, sched, doorVars, fired, edits, reboots, began>>

\* The window the local clock stands in, counted from the days' scheduled instants.
CurrentWindow == (Local - sched.minute * Grain) \div DayTicks

StartWarning ==
  /\ stage = "reserved" /\ stage' = "armed"
  /\ fired' = fired \cup {CurrentWindow}
  /\ checked' = "yes"
  /\ UNCHANGED <<clockVars, schedVars, doorVars, previous_day, edits, reboots, began>>

\* The warning could not start: the reservation is undone if that can be saved.
WarningFails ==
  /\ MayFail /\ stage = "reserved" /\ stage' = "idle"
  /\ \/ Saves(sched, previous_day) /\ last_day' = previous_day
     \/ SaveFails(sched, previous_day) /\ UNCHANGED last_day
  /\ checked' = "failed"
  /\ UNCHANGED <<clockVars, sched, doorVars, previous_day, fired, edits, reboots, began>>

\* sched_close_warning_complete_cb(): what it may send is DoorControl's part.
WarningEnds ==
  /\ stage \in {"armed", "cancelled"} /\ stage' = "idle"
  /\ checked' = "no"
  /\ UNCHANGED <<clockVars, schedVars, doorVars, previous_day, fired, edits, reboots,
                 began>>

-----------------------------------------------------------------------------
(* A reboot at any moment; close_schedule_settings_load()                  *)

Reboot ==
  /\ reboots < MaxReboots /\ reboots' = reboots + 1
  /\ synced' \in {FALSE, synced}
  /\ sched' = nvs.sched /\ last_day' = nvs.day
  /\ open_since' = Never /\ opener' = "boot" /\ missed' = FALSE
  /\ stage' = "idle" /\ previous_day' = 0
  /\ checked' = "no"
  /\ began' = IF nvs.sched.zone = sched.zone THEN began
              ELSE Rebegun(LocalTick(now, nvs.sched.zone))
  /\ UNCHANGED <<now, shift, nvs, opened_at, fired, edits>>

-----------------------------------------------------------------------------
DoorStep ==
  DoorOpens \/ DoorCloses \/ DoorGuessed \/ OpenerSyncs \/ OpenerChanges

Next ==
  \/ Tick \/ ClockSteps \/ ClockSyncs
  \/ DoorStep
  \/ SetCloseSchedule \/ Reboot
  \/ DoesNotFire \/ ReserveDay \/ StartWarning \/ WarningFails \/ WarningEnds

Spec == Init /\ [][Next]_vars

-----------------------------------------------------------------------------
Schedules == [enabled : BOOLEAN, minute : Minutes, zone : Zones]

\* Every variable keeps its type; the firmware never believes the door to
\* have been open for longer than it has (set_last_door_state()), but for a door that
\* was elsewhere meanwhile without its hearing of it.
TypeOK ==
  /\ now \in 0..Horizon /\ shift \in Steps \cup {0} /\ synced \in BOOLEAN
  /\ sched \in Schedules /\ last_day \in Nat
  /\ nvs \in [sched : Schedules, day : Nat]
  /\ opened_at \in {Never} \cup 0..now /\ open_since \in {Never} \cup 0..now
  /\ missed \in BOOLEAN
  /\ open_since # Never /\ ~missed => opened_at \in 0..open_since
  /\ opener \in {"boot", "unsynced", "hindered", "ready"}
  /\ checked \in {"no", "yes", "failed"}
  /\ stage \in {"idle", "reserved", "armed", "cancelled"} /\ previous_day \in Nat
  /\ edits \in 0..MaxEdits /\ reboots \in 0..MaxReboots
  /\ began \in [Minutes -> Int] /\ fired \in SUBSET Int

Fires == stage # "armed" /\ stage' = "armed"

(***************************************************************************)
(* The schedule fires only on a door that is open and that the firmware    *)
(* believes to have been open since before the scheduled minute began,     *)
(* whatever minute of the window it fires in, across midnight, a change of *)
(* zone or a new schedule, after a reboot inside the window, a resync or a *)
(* guess: the clock shows only minutes, and close_schedule_should_fire()   *)
(* must round them up.  The door has indeed been open for as long, unless  *)
(* it was closed and opened again while the opener was out of sync.  A     *)
(* clock that was stepped back is NeverForDoorOpenedLater's part.          *)
(***************************************************************************)
FiresOnlyIfOpenBefore ==
  [][Fires /\ shift >= 0 =>
              /\ opened_at # Never /\ open_since < began[sched.minute]
              /\ ~missed => opened_at < began[sched.minute]]_vars

\* "never fires for a door opened after the scheduled time"
NeverForDoorOpenedLater == [][Fires => opened_at <= began[sched.minute]]_vars

(***************************************************************************)
(* A window fires once: whatever saves fail, wherever a reboot falls       *)
(* between the reservation and the warning, and although the hour that     *)
(* daylight saving takes back runs twice, no second warning starts in a    *)
(* window unless the owner tried to change the time in between.            *)
(***************************************************************************)
OncePerWindow == [][Fires => CurrentWindow \notin fired]_vars

(***************************************************************************)
(* A night is not missed: once the watchdog has had its turn in a tick of  *)
(* the window, a door known open since a minute before it, with nothing in *)
(* the way, has the window reserved, unless a save or a warning failed in  *)
(* that very turn or the clock was stepped.                                *)
(***************************************************************************)
EligibleWindowFires ==
  LET start == began[sched.minute] IN
    /\ checked = "yes" /\ shift = 0 /\ synced /\ opener = "ready"
    /\ sched.enabled /\ stage = "idle"
    /\ now < start + Window * Grain
    /\ open_since # Never /\ open_since + Grain <= start
    => last_day = CurrentWindow

-----------------------------------------------------------------------------
(* The inductive invariant: what makes the properties above hold.          *)

\* Until it is stepped the clock tells when each minute last began; a step forward can
\* only skip the beginning of one.
BeginningsAreKnown ==
  \A m \in Minutes :
    /\ began[m] <= now
    /\ shift >= 0 => now - began[m] <= Into(m, Local)
    /\ shift = 0 => now - began[m] = Into(m, Local)

\* In sync the firmware knows whether the door is open, before the first sync nothing.
OpennessIsKnown ==
  /\ InSync => (open_since = Never <=> opened_at = Never)
  /\ opener = "boot" => open_since = Never

\* What the reservation was made for still holds when the warning starts.
ReservedForAnOpenDoor ==
  stage = "reserved" =>
    /\ checked = "no" /\ open_since # Never /\ opened_at # Never
    /\ shift >= 0 => open_since < began[sched.minute]

IInv ==
  /\ TypeOK /\ BeginningsAreKnown /\ OpennessIsKnown /\ ReservedForAnOpenDoor
  /\ EligibleWindowFires

(***************************************************************************)
(* A window fires once as long as no step takes the clock back into an     *)
(* earlier window: daylight saving takes back an hour, and all but five    *)
(* minutes of a day are outside the window.                                *)
(***************************************************************************)
StepsBackAreSmall == \A d \in StepsBack : d + Window * Grain <= DayTicks

\* How far past the scheduled instant of day 0 the clock has been, in any case.
Furthest(s) ==
  now + (s.zone - s.minute * Grain) + (IF shift > 0 THEN shift ELSE 0)

\* A recorded day is one whose window the clock has reached, before a step back if need be.
Reached(day, s) == DayTicks * day <= Furthest(s)

\* In the settings of now, and in those that a reboot would bring back.
DaysAreReached ==
  /\ Reached(last_day, sched) /\ Reached(nvs.day, nvs.sched)
  /\ stage = "reserved" => Reached(previous_day, sched)

\* No recorded day is before a window that fired, whatever is lost or undone.
FiredIsRecorded ==
  /\ fired # {} => nvs.sched.minute = sched.minute /\ nvs.sched.zone = sched.zone
  /\ \A w \in fired :
       /\ w <= last_day /\ w <= nvs.day
       /\ stage = "reserved" => w <= previous_day /\ w < CurrentWindow
  /\ stage = "reserved" =>
       last_day = CurrentWindow /\ nvs = [sched |-> sched, day |-> CurrentWindow]

OnceInv == IInv /\ DaysAreReached /\ FiredIsRecorded
=============================================================================
