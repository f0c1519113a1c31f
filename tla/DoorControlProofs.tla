------------------------- MODULE DoorControlProofs -------------------------
(***************************************************************************)
(* Proofs, for every value of the constants, of the safety properties of   *)
(* DoorControl that its runs check on small instances.                     *)
(*                                                                         *)
(* IInv is the inductive invariant.  The lemmas below show, action by      *)
(* action, that every step of Next preserves it; the theorems at the end   *)
(* read each property off IInv.                                            *)
(***************************************************************************)
EXTENDS DoorControl, TLAPS

-----------------------------------------------------------------------------
(* Types.                                                                  *)

\* The retry budget keeps its type, whatever the watchdog tells it.
LEMMA RetryBudgetType ==
  ASSUME NEW b \in RetryBudgets(EngageTicks + 1), NEW id \in Nat,
         NEW pending \in BOOLEAN, NEW allowed \in BOOLEAN
  PROVE  RetryBudgetStep(b, id, pending, allowed, EngageTicks).budget
           \in RetryBudgets(EngageTicks + 1)
<1> DEFINE c == ChargedTo(b, id)
           done == c.done \/ ~pending
<1>1. c \in RetryBudgets(EngageTicks + 1)
  BY TimingAssumption DEF RetryBudgets, ChargedTo
<1> HIDE DEF c
<1>2. done \in BOOLEAN
  BY <1>1 DEF RetryBudgets
<1>3. [c EXCEPT !.done = done] \in RetryBudgets(EngageTicks + 1)
  BY <1>1, <1>2 DEF RetryBudgets
<1>4. Fresh(c, 1, FALSE) \in RetryBudgets(EngageTicks + 1)
  BY <1>1, TimingAssumption DEF RetryBudgets, Fresh
<1>5. Fresh(c, c.attempts, TRUE) \in RetryBudgets(EngageTicks + 1)
  BY <1>1, TimingAssumption DEF RetryBudgets, Fresh
<1> QED
  BY <1>3, <1>4, <1>5 DEF RetryBudgetStep, c

LEMMA AgeBudgetType ==
  ASSUME NEW b \in RetryBudgets(EngageTicks + 1)
  PROVE  AgeBudget(b, EngageTicks) \in RetryBudgets(EngageTicks + 1)
  BY TimingAssumption DEF RetryBudgets, AgeBudget

\* A part of the state that a step leaves alone keeps its type.
LEMMA TypesKept ==
  ASSUME TypeOK
  PROVE  /\ UNCHANGED <<opener, trackVars>> => TrackTypeOK'
         /\ UNCHANGED sendVars => SendTypeOK'
         /\ UNCHANGED userVars => UserTypeOK'
         /\ UNCHANGED settingVars => SettingTypeOK'
         /\ UNCHANGED autoVars => AutoTypeOK'
         /\ UNCHANGED schedVars => SchedTypeOK'
         /\ UNCHANGED <<close_generation, warnings, wd_quiet>> => WarningTypeOK'
         /\ UNCHANGED wdVars => WatchdogTypeOK'
         /\ UNCHANGED budget => BudgetTypeOK'
<1>1. UNCHANGED <<opener, trackVars>> => TrackTypeOK'
  BY DEF TypeOK, TrackTypeOK, trackVars
<1>2. UNCHANGED sendVars => SendTypeOK'
  BY DEF TypeOK, SendTypeOK, sendVars
<1>3. UNCHANGED userVars => UserTypeOK'
  BY DEF TypeOK, UserTypeOK, userVars
<1>4. UNCHANGED settingVars => SettingTypeOK'
  BY DEF TypeOK, SettingTypeOK, settingVars
<1>5. UNCHANGED autoVars => AutoTypeOK'
  BY DEF TypeOK, AutoTypeOK, autoVars
<1>6. UNCHANGED schedVars => SchedTypeOK'
  BY DEF TypeOK, SchedTypeOK, schedVars
<1>7. UNCHANGED <<close_generation, warnings, wd_quiet>> => WarningTypeOK'
  BY DEF TypeOK, WarningTypeOK
<1>8. UNCHANGED wdVars => WatchdogTypeOK'
  BY DEF TypeOK, WatchdogTypeOK, wdVars
<1>9. UNCHANGED budget => BudgetTypeOK'
  BY DEF TypeOK, BudgetTypeOK
<1> QED
  BY <1>1, <1>2, <1>3, <1>4, <1>5, <1>6, <1>7, <1>8, <1>9

LEMMA OutcomesAreBoolean == \A ok \in Outcomes : ok \in BOOLEAN
  BY DEF Outcomes

\* What a request to the door writes, whatever gdolib answers.
LEMMA SendTypes ==
  ASSUME TypeOK, NEW target \in {"OPEN", "CLOSED"}, NEW ok \in BOOLEAN,
         SendDoorRequest(target, ok)
  PROVE  /\ door_command_id' \in Nat /\ resends' \in Nat
         /\ opener' \in [synced : BOOLEAN, door : Doors, target : Targets, beam : Beams]
<1>1. target \in Targets /\ "NONE" \in Targets
  BY DEF Targets
<1>2. [opener EXCEPT !.target = target]
        \in [synced : BOOLEAN, door : Doors, target : Targets, beam : Beams]
  BY <1>1 DEF TypeOK, TrackTypeOK
<1> QED
  BY <1>1, <1>2 DEF TypeOK, TrackTypeOK, SendTypeOK, SendDoorRequest

-----------------------------------------------------------------------------
(* Warnings that an event disturbs.                                        *)

\* A disturbed warning is an earlier one that is no longer quiet ...
LEMMA DisturbedFrom ==
  ASSUME NEW ws \in SUBSET Warning, NEW w \in Disturbed(ws)
  PROVE  /\ w \in Warning /\ ~w.quiet
         /\ \E v \in ws : /\ v.by = w.by /\ v.gen = w.gen
                          /\ v.cmd = w.cmd /\ v.age = w.age
  BY DEF Disturbed, Warning

\* ... and each of them is still there.
LEMMA DisturbedTo ==
  ASSUME NEW ws \in SUBSET Warning, NEW v \in ws
  PROVE  \E w \in Disturbed(ws) : w.by = v.by /\ w.gen = v.gen
<1>1. [v EXCEPT !.quiet = FALSE] \in Disturbed(ws)
  BY DEF Disturbed
<1> QED
  BY <1>1 DEF Warning

\* Two disturbed warnings stem from two earlier ones, and are equal when these are.
LEMMA DisturbedPair ==
  ASSUME NEW ws \in SUBSET Warning, NEW v \in Disturbed(ws), NEW w \in Disturbed(ws)
  PROVE  \E x, y \in ws : /\ x.by = v.by /\ x.gen = v.gen
                          /\ y.by = w.by /\ y.gen = w.gen
                          /\ x = y => v = w
<1>1. PICK x \in ws : v = [x EXCEPT !.quiet = FALSE]
  BY DEF Disturbed
<1>2. PICK y \in ws : w = [y EXCEPT !.quiet = FALSE]
  BY DEF Disturbed
<1>3. x.by = v.by /\ x.gen = v.gen /\ y.by = w.by /\ y.gen = w.gen
  BY <1>1, <1>2 DEF Warning
<1>4. x = y => v = w
  BY <1>1, <1>2
<1> QED
  BY <1>3, <1>4

LEMMA DisturbTypes ==
  ASSUME TypeOK, BumpGeneration, DisturbAll
  PROVE  WarningTypeOK'
<1>1. close_generation' \in Nat /\ wd_quiet' = FALSE
  BY DEF TypeOK, WarningTypeOK, BumpGeneration, DisturbAll
<1>2. \A w \in warnings' : w \in Warning
  BY DisturbedFrom DEF TypeOK, WarningTypeOK, DisturbAll
<1> QED
  BY <1>1, <1>2 DEF WarningTypeOK

(***************************************************************************)
(* What one more generation leaves true of the warnings in flight: every   *)
(* one of them is disturbed and none is of the new generation.             *)
(***************************************************************************)
LEMMA DisturbKeeps ==
  ASSUME IInv, BumpGeneration, DisturbAll,
         UNCHANGED <<userVars, sched_pending, sched_generation, sched_command_id,
                     auto_generation, auto_command_id, snapshot>>
  PROVE  /\ \A w \in warnings' :
              /\ w.gen # close_generation'
              /\ \E v \in warnings : v.by = w.by /\ v.age = w.age
         /\ WarningsAreDated' /\ PendingSlotIsOwned'
         /\ OneAutoWarning' /\ SchedulePendingIsAWarning'
<1> USE DEF TypeOK, WarningTypeOK, UserTypeOK, WatchdogTypeOK, Snapshot, IInv
<1>1. /\ warnings \in SUBSET Warning /\ warnings' = Disturbed(warnings)
      /\ close_generation' = close_generation + 1 /\ close_generation' \in Nat
  BY DEF BumpGeneration, DisturbAll
<1>2. \A w \in warnings' :
        /\ w \in Warning /\ ~w.quiet
        /\ \E v \in warnings : /\ v.by = w.by /\ v.gen = w.gen
                               /\ v.cmd = w.cmd /\ v.age = w.age
  BY <1>1, DisturbedFrom
<1>3. \A v \in warnings : \E w \in warnings' : w.by = v.by /\ w.gen = v.gen
  BY <1>1, DisturbedTo
<1>4. \A v, w \in warnings' :
         \E x, y \in warnings : /\ x.by = v.by /\ x.gen = v.gen
                                /\ y.by = w.by /\ y.gen = w.gen
                                /\ x = y => v = w
  BY <1>1, DisturbedPair
<1>5. \A w \in warnings : w.gen \in Nat /\ w.gen <= close_generation
  BY DEF WarningsAreDated, Warning
<1>6. \A w \in warnings' : w.gen <= close_generation /\ w.gen \in Nat
  BY <1>2, <1>5
<1>7. \A w \in warnings' : w.gen # close_generation'
  BY <1>1, <1>6
<1>8. WarningsAreDated'
  <2>1. \A w \in warnings' : w.gen <= close_generation'
    BY <1>1, <1>6
  <2>2. snapshot'.gen < close_generation' /\ user_pending_generation' < close_generation'
    BY <1>1 DEF WarningsAreDated, userVars
  <2>3. snapshot'.gen # close_generation' /\ snapshot'.gen <= close_generation'
        /\ user_pending_generation' <= close_generation'
    BY <1>1, <2>2 DEF userVars
  <2>4. \A v, w \in warnings' : v.by = "user" /\ w.by = "user" /\ v.gen = w.gen => v = w
    BY <1>4 DEF WarningsAreDated
  <2> QED
    BY <1>7, <2>1, <2>3, <2>4 DEF WarningsAreDated
<1>9. PendingSlotIsOwned'
  BY <1>3, <1>7 DEF PendingSlotIsOwned, userVars
<1>10. OneAutoWarning'
  BY <1>2, <1>4 DEF OneAutoWarning
<1>11. SchedulePendingIsAWarning'
  <2>1. (\E w \in warnings' : w.by = "sched") <=> (\E w \in warnings : w.by = "sched")
    BY <1>2, <1>3
  <2>2. \A v, w \in warnings' : v.by = "sched" /\ w.by = "sched" => v = w
    BY <1>4 DEF SchedulePendingIsAWarning
  <2>3. \A w \in warnings' :
          w.by = "sched" => w.gen = sched_generation /\ w.cmd = sched_command_id
    BY <1>2 DEF SchedulePendingIsAWarning
  <2> QED
    BY <2>1, <2>2, <2>3 DEF SchedulePendingIsAWarning
<1> QED
  BY <1>2, <1>7, <1>8, <1>9, <1>10, <1>11

-----------------------------------------------------------------------------
LEMMA InitIInv == Init => IInv
<1> SUFFICES ASSUME Init PROVE IInv
  OBVIOUS
<1>1. TrackTypeOK /\ SendTypeOK /\ UserTypeOK /\ SettingTypeOK
  BY DEF Init, TrackTypeOK, SendTypeOK, UserTypeOK, SettingTypeOK, Doors, Targets, Beams
<1>2. AutoTypeOK /\ SchedTypeOK /\ WarningTypeOK
  BY DEF Init, AutoTypeOK, SchedTypeOK, WarningTypeOK
<1>3. WatchdogTypeOK
  <2>1. snapshot \in Snapshot
    BY DEF Init, Snapshot, Doors, Targets
  <2>2. lag \in 0..WarnMax
    BY TimingAssumption DEF Init
  <2> QED
    BY <2>1, <2>2 DEF Init, WatchdogTypeOK, WatchdogPCs
<1>4. BudgetTypeOK
  BY TimingAssumption DEF Init, BudgetTypeOK, EmptyBudget, RetryBudgets
<1>5. TypeOK
  BY <1>1, <1>2, <1>3, <1>4 DEF TypeOK
<1> QED
  BY <1>5 DEF Init, IInv, WarningsAreDated, ClockHidesAutoWarning,
     CloseIsWarnedAndQuiet, CloseIsClear, OpenClockFollowsDoor,
     PendingSlotIsOwned, OneAutoWarning, SchedulePendingIsAWarning,
     AutomaticClosesExclude, NotOpen

-----------------------------------------------------------------------------
(* Steps that leave the control state alone.                               *)

(***************************************************************************)
(* The opener moves, or the watchdog goes on to its next check.            *)
(***************************************************************************)
LEMMA UncontrolledStep ==
  ASSUME IInv, UNCHANGED controlVars, TrackTypeOK', WatchdogTypeOK',
         snapshot'.gen = snapshot.gen, pc' = "resend" => pc = "resend"
  PROVE  IInv'
<1> USE DEF controlVars
<1>1. TypeOK'
  BY TypesKept DEF TypeOK, IInv
<1> USE DEF IInv, trackVars, sendVars, userVars, settingVars, autoVars, schedVars
<1>2. WarningsAreDated' /\ ClockHidesAutoWarning'
  BY DEF WarningsAreDated, ClockHidesAutoWarning
<1>3. CloseIsWarnedAndQuiet' /\ CloseIsClear' /\ OpenClockFollowsDoor'
  BY DEF CloseIsWarnedAndQuiet, CloseIsClear, OpenClockFollowsDoor
<1>4. PendingSlotIsOwned' /\ OneAutoWarning'
  BY DEF PendingSlotIsOwned, OneAutoWarning, ClosePending
<1>5. SchedulePendingIsAWarning' /\ AutomaticClosesExclude'
  BY DEF SchedulePendingIsAWarning, AutomaticClosesExclude
<1> QED
  BY <1>1, <1>2, <1>3, <1>4, <1>5

LEMMA OpenerKeeps == IInv /\ OpenerStep => IInv'
<1> SUFFICES ASSUME IInv, OpenerStep PROVE IInv'
  OBVIOUS
<1>1. opener' \in [synced : BOOLEAN, door : Doors, target : Targets, beam : Beams]
  <2> USE DEF IInv, TypeOK, TrackTypeOK
  <2>1. CASE OpenerMoves
    BY <2>1 DEF OpenerMoves, Doors, Targets
  <2>2. CASE OpenerBeam
    BY <2>2 DEF OpenerBeam
  <2>3. CASE OpenerLink
    BY <2>3 DEF OpenerLink
  <2> QED
    BY <2>1, <2>2, <2>3 DEF OpenerStep
<1>2. UNCHANGED <<controlVars, wdVars>>
  BY DEF OpenerStep, OpenerMoves, OpenerBeam, OpenerLink
<1>3. TrackTypeOK'
  BY <1>1, <1>2 DEF IInv, TypeOK, TrackTypeOK, controlVars, trackVars
<1>4. WatchdogTypeOK'
  BY <1>2, TypesKept DEF IInv
<1> QED
  BY <1>2, <1>3, <1>4, UncontrolledStep DEF wdVars

\* The steps of the watchdog that only look.
WatchdogLook ==
  WatchdogWakes \/ CheckTransit \/ CheckAutoClose \/ AbandonPass \/ SkipSchedule

LEMMA WatchdogLooks == IInv /\ WatchdogLook => IInv'
<1> SUFFICES ASSUME IInv, WatchdogLook PROVE IInv'
  OBVIOUS
<1> USE DEF WatchdogLook, WatchdogWakes, CheckTransit, CheckAutoClose, AbandonPass,
           SkipSchedule
<1>1. UNCHANGED controlVars /\ UNCHANGED opener
  OBVIOUS
<1>2. pc' \in WatchdogPCs /\ pc' # "resend"
  BY DEF WatchdogPCs
<1>3. slept' \in {slept, FALSE} /\ lag' \in {lag, 0}
  OBVIOUS
<1>4. snapshot' \in Snapshot /\ snapshot'.gen = snapshot.gen
  BY DEF IInv, TypeOK, TrackTypeOK, WatchdogTypeOK, Snapshot
<1> HIDE DEF WatchdogLook
<1>5. WatchdogTypeOK'
  <2>1. slept' \in BOOLEAN
    BY <1>3 DEF IInv, TypeOK, WatchdogTypeOK
  <2>2. lag' \in 0..WarnMax
    BY <1>3, TimingAssumption DEF IInv, TypeOK, WatchdogTypeOK
  <2> QED
    BY <1>2, <1>4, <2>1, <2>2 DEF WatchdogTypeOK
<1>6. TrackTypeOK'
  BY <1>1, TypesKept DEF IInv, controlVars
<1> QED
  BY <1>1, <1>2, <1>4, <1>5, <1>6, UncontrolledStep

-----------------------------------------------------------------------------
(* Steps that start a new generation.                                      *)

(***************************************************************************)
(* Obstruction, button, settings, Open: one more generation, and nothing   *)
(* else that the invariant speaks of.                                      *)
(***************************************************************************)
LEMMA DisturbStep ==
  ASSUME IInv, BumpGeneration, DisturbAll, TypeOK',
         UNCHANGED <<userVars, autoVars, sched_pending, sched_generation,
                     sched_command_id, last_door, last_close, snapshot>>
  PROVE  IInv'
<1> USE DEF autoVars
<1>1. /\ \A w \in warnings' :
           /\ w.gen # close_generation'
           /\ \E v \in warnings : v.by = w.by /\ v.age = w.age
      /\ WarningsAreDated' /\ PendingSlotIsOwned'
      /\ OneAutoWarning' /\ SchedulePendingIsAWarning'
  BY DisturbKeeps
<1>2. ClockHidesAutoWarning'
  BY <1>1 DEF IInv, ClockHidesAutoWarning
<1>3. CloseIsWarnedAndQuiet' /\ CloseIsClear' /\ OpenClockFollowsDoor'
      /\ AutomaticClosesExclude'
  BY DEF IInv, CloseIsWarnedAndQuiet, CloseIsClear, OpenClockFollowsDoor,
         AutomaticClosesExclude
<1> QED
  BY <1>1, <1>2, <1>3 DEF IInv

LEMMA ObstructionKeeps == IInv /\ ObstructionEvent => IInv'
<1> SUFFICES ASSUME IInv, ObstructionEvent PROVE IInv'
  OBVIOUS
<1>1. TrackTypeOK'
  BY DEF ObstructionEvent, IInv, TypeOK, TrackTypeOK
<1>2. TypeOK'
  BY <1>1, TypesKept, DisturbTypes DEF ObstructionEvent, IInv, TypeOK
<1> QED
  BY <1>2, DisturbStep DEF ObstructionEvent, sendVars, schedVars, wdVars

LEMMA ButtonKeeps == IInv /\ ButtonEvent => IInv'
<1> SUFFICES ASSUME IInv, ButtonEvent PROVE IInv'
  OBVIOUS
<1>1. TypeOK'
  BY TypesKept, DisturbTypes DEF ButtonEvent, IInv, TypeOK
<1> QED
  BY <1>1, DisturbStep DEF ButtonEvent, trackVars, sendVars, schedVars, wdVars

SettingChange ==
  SetPreCloseBuzzer \/ SetAutoCloseTimeout \/ SetAutoCloseEnabled \/ SetCloseSchedule

LEMMA SettingsKeep == IInv /\ SettingChange => IInv'
<1> SUFFICES ASSUME IInv, SettingChange PROVE IInv'
  OBVIOUS
<1> USE DEF SettingChange, SetPreCloseBuzzer, SetAutoCloseTimeout, SetAutoCloseEnabled,
           SetCloseSchedule
<1>1. SettingSaved
  OBVIOUS
<1>2. SettingTypeOK'
  BY DEF IInv, TypeOK, SettingTypeOK, settingVars
<1>3. sched_window' \in {"none", "due", "fired"}
  BY DEF IInv, TypeOK, SchedTypeOK
<1> HIDE DEF SettingChange
<1>4. SchedTypeOK'
  BY <1>1, <1>3 DEF SettingSaved, IInv, TypeOK, SchedTypeOK
<1>5. TypeOK'
  BY <1>1, <1>2, <1>4, TypesKept, DisturbTypes DEF SettingSaved, IInv, TypeOK
<1> QED
  BY <1>1, <1>5, DisturbStep DEF SettingSaved, trackVars, sendVars, wdVars

LEMMA OpenKeeps == IInv /\ ControlOpen => IInv'
<1> SUFFICES ASSUME IInv, ControlOpen PROVE IInv'
  OBVIOUS
<1>1. /\ door_command_id' \in Nat /\ resends' \in Nat
      /\ opener' \in [synced : BOOLEAN, door : Doors, target : Targets, beam : Beams]
  BY SendTypes, OutcomesAreBoolean DEF ControlOpen, IInv
<1>2. TrackTypeOK' /\ SendTypeOK'
  BY <1>1 DEF ControlOpen, trackVars, IInv, TypeOK, TrackTypeOK, SendTypeOK
<1>3. TypeOK'
  BY <1>2, TypesKept, DisturbTypes DEF ControlOpen, IInv, TypeOK
<1> QED
  BY <1>3, DisturbStep DEF ControlOpen, trackVars, schedVars, wdVars

(***************************************************************************)
(* set_last_door_state() writes the door, the generation and the clock in  *)
(* one critical section; each of its three callers keeps the invariant.    *)
(***************************************************************************)
LEMMA DoorStateKeeps ==
  ASSUME IInv, NEW new \in Doors, NEW other \in BOOLEAN,
         SetLastDoorState(new, other), in_transit' \in BOOLEAN, WatchdogTypeOK',
         pc' = "resend" => pc = "resend",
         UNCHANGED <<opener, last_obstruction, sendVars, userVars, settingVars,
                     auto_generation, auto_command_id, schedVars, snapshot, budget>>
  PROVE  IInv'
<1> DEFINE changed == new # last_door \/ (other /\ new = "PARTWAY")
<1>1. /\ auto_triggered' \in BOOLEAN /\ open_for' \in Nat \cup {NotOpen}
      /\ auto_triggered' => auto_triggered
      /\ open_for' # NotOpen <=> last_door' = "OPEN"
      /\ auto_triggered' => last_door' = "OPEN"
      /\ open_for' = NotOpen \/ open_for' = 0
         \/ (open_for' = open_for /\ auto_triggered' = auto_triggered)
  <2> USE DEF IInv, OpenClockFollowsDoor
  <2>1. /\ auto_triggered' \in BOOLEAN
        /\ auto_triggered' => auto_triggered /\ (new = "OPEN" <=> last_door = "OPEN")
        /\ (new = "OPEN" <=> last_door = "OPEN") => auto_triggered' = auto_triggered
    BY DEF SetLastDoorState, TypeOK, AutoTypeOK
  <2>2. last_door' = new /\ open_for' = OpenClock(new)
    BY DEF SetLastDoorState
  <2>3. CASE new # "OPEN"
    BY <2>1, <2>2, <2>3 DEF OpenClock, NotOpen
  <2>4. CASE new = "OPEN" /\ last_door # "OPEN"
    BY <2>1, <2>2, <2>4 DEF OpenClock, NotOpen
  <2>5. CASE new = "OPEN" /\ last_door = "OPEN"
    BY <2>1, <2>2, <2>5 DEF OpenClock, TypeOK, AutoTypeOK
  <2> QED
    BY <2>3, <2>4, <2>5
<1>2. TrackTypeOK'
  BY DEF SetLastDoorState, IInv, TypeOK, TrackTypeOK
<1>3. AutoTypeOK'
  BY <1>1 DEF IInv, TypeOK, AutoTypeOK
<1>4. OpenClockFollowsDoor' /\ CloseIsWarnedAndQuiet' /\ CloseIsClear'
      /\ AutomaticClosesExclude'
  BY <1>1 DEF IInv, OpenClockFollowsDoor, CloseIsWarnedAndQuiet, CloseIsClear,
     AutomaticClosesExclude, sendVars, schedVars
<1>5. CASE changed
  <2>1. BumpGeneration /\ DisturbAll
    BY <1>5 DEF SetLastDoorState, DoorStateChanged
  <2>2. TypeOK'
    BY <2>1, <1>2, <1>3, TypesKept, DisturbTypes DEF IInv, TypeOK
  <2>3. /\ \A w \in warnings' :
             /\ w.gen # close_generation'
             /\ \E v \in warnings : v.by = w.by /\ v.age = w.age
        /\ WarningsAreDated' /\ PendingSlotIsOwned'
        /\ OneAutoWarning' /\ SchedulePendingIsAWarning'
    BY <2>1, DisturbKeeps DEF schedVars
  <2>4. \A w \in warnings : w.age >= 0
    BY DEF IInv, TypeOK, WarningTypeOK, Warning
  <2>5. ClockHidesAutoWarning'
    BY <1>1, <2>3, <2>4 DEF IInv, ClockHidesAutoWarning
  <2> QED
    BY <1>4, <2>2, <2>3, <2>5 DEF IInv
<1>6. CASE ~changed
  <2>1. UNCHANGED <<close_generation, warnings, wd_quiet, last_door>>
    BY <1>6 DEF SetLastDoorState, DoorStateChanged
  <2>2. TypeOK'
    BY <2>1, <1>2, <1>3, TypesKept DEF IInv, TypeOK
  <2>3. WarningsAreDated' /\ PendingSlotIsOwned' /\ OneAutoWarning'
        /\ SchedulePendingIsAWarning'
    BY <2>1 DEF IInv, WarningsAreDated, PendingSlotIsOwned, OneAutoWarning,
       SchedulePendingIsAWarning, ClosePending, userVars, schedVars
  <2>4. \A w \in warnings : w.age >= 0
    BY DEF IInv, TypeOK, WarningTypeOK, Warning
  <2>5. ClockHidesAutoWarning'
    BY <1>1, <2>1, <2>4 DEF IInv, ClockHidesAutoWarning
  <2> QED
    BY <1>4, <2>2, <2>3, <2>5 DEF IInv
<1> QED
  BY <1>5, <1>6

LEMMA DoorEventsKeep == IInv /\ (DoorPositionEvent \/ MotorEvent) => IInv'
<1>1. ASSUME IInv, DoorPositionEvent PROVE IInv'
  <2>1. PICK d \in InferredDoors, other \in BOOLEAN :
          /\ SetLastDoorState(d, other)
          /\ in_transit' \in (IF d = "PARTWAY" THEN BOOLEAN ELSE {FALSE})
    BY <1>1 DEF DoorPositionEvent
  <2>2. d \in Doors /\ in_transit' \in BOOLEAN
    BY <1>1, <2>1 DEF InferredDoors, Doors, IInv, TypeOK, TrackTypeOK
  <2>3. WatchdogTypeOK'
    BY <1>1, TypesKept DEF DoorPositionEvent, IInv
  <2> QED
    BY <1>1, <2>1, <2>2, <2>3, DoorStateKeeps DEF DoorPositionEvent, wdVars
<1>2. ASSUME IInv, MotorEvent PROVE IInv'
  <2>1. WatchdogTypeOK'
    BY <1>2, TypesKept DEF MotorEvent, IInv
  <2>2. "PARTWAY" \in Doors
    BY DEF Doors
  <2> QED
    BY <1>2, <2>1, <2>2, DoorStateKeeps DEF MotorEvent, wdVars
<1> QED
  BY <1>1, <1>2

LEMMA ResolveKeeps == IInv /\ ResolveTransit => IInv'
<1> SUFFICES ASSUME IInv, ResolveTransit PROVE IInv'
  OBVIOUS
<1>1. PICK d \in (IF snapshot.door \in {"OPEN", "CLOSED"} THEN {snapshot.door}
                  ELSE {"OPEN", "CLOSED", "PARTWAY"}), other \in BOOLEAN :
        SetLastDoorState(d, other)
  BY DEF ResolveTransit
<1>2. d \in Doors
  BY <1>1 DEF Doors
<1>3. WatchdogTypeOK'
  BY DEF ResolveTransit, IInv, TypeOK, WatchdogTypeOK, WatchdogPCs
<1> QED
  BY <1>1, <1>2, <1>3, DoorStateKeeps DEF ResolveTransit

-----------------------------------------------------------------------------
(* A close request arms a warning of its own.                              *)

LEMMA CloseKeeps == IInv /\ ControlClose => IInv'
<1> SUFFICES ASSUME IInv, ControlClose PROVE IInv'
  OBVIOUS
<1> USE DEF IInv
<1> DEFINE old == Disturbed(warnings)
           n   == [by |-> "user", gen |-> close_generation + 1,
                   cmd |-> door_command_id, age |-> 0, quiet |-> TRUE]
<1>1. PICK ok \in BOOLEAN : user_pending' = ok /\ warnings' = old \cup (IF ok THEN {n} ELSE {})
  BY OutcomesAreBoolean DEF ControlClose
<1>2. /\ close_generation \in Nat /\ close_generation' = close_generation + 1
      /\ user_pending_generation' = close_generation' /\ wd_quiet' = FALSE
  BY DEF ControlClose, BumpGeneration, TypeOK, WarningTypeOK
<1>3. n \in Warning
  BY <1>2, TimingAssumption DEF Warning, TypeOK, SendTypeOK
<1>4. \A w \in old :
        /\ w \in Warning
        /\ \E v \in warnings : /\ v.by = w.by /\ v.gen = w.gen
                               /\ v.cmd = w.cmd /\ v.age = w.age
  BY DisturbedFrom DEF TypeOK, WarningTypeOK
<1>5. \A v, w \in old : \E x, y \in warnings : /\ x.by = v.by /\ x.gen = v.gen
                                               /\ y.by = w.by /\ y.gen = w.gen
                                               /\ x = y => v = w
  BY DisturbedPair DEF TypeOK, WarningTypeOK
<1>6. \A v \in warnings : \E w \in old : w.by = v.by /\ w.gen = v.gen
  BY DisturbedTo DEF TypeOK, WarningTypeOK
<1>7. \A w \in old : w.gen \in Nat /\ w.gen < close_generation'
  BY <1>2, <1>4 DEF WarningsAreDated, Warning
<1> HIDE DEF old
<1>8. n.by = "user" /\ n.gen = close_generation' /\ n.quiet
  BY <1>2
<1> HIDE DEF n
<1>9. TypeOK'
  <2>1. WarningTypeOK'
    <3>1. warnings' \subseteq old \cup {n}
      BY <1>1
    <3>2. warnings' \subseteq Warning
      BY <3>1, <1>3, <1>4
    <3>3. wd_quiet' \in BOOLEAN
      BY <1>2
    <3> QED
      BY <3>2, <3>3, <1>2 DEF WarningTypeOK
  <2>2. UserTypeOK'
    BY <1>1, <1>2 DEF UserTypeOK
  <2> QED
    BY <2>1, <2>2, TypesKept DEF ControlClose, TypeOK
<1>10. WarningsAreDated'
  <2>1. \A w \in warnings' : w.gen <= close_generation' /\ (w.gen = close_generation' => w.quiet)
    BY <1>1, <1>2, <1>7, <1>8
  <2>2. snapshot'.gen <= close_generation' /\ snapshot'.gen # close_generation'
    BY <1>2 DEF ControlClose, wdVars, WarningsAreDated, TypeOK, WatchdogTypeOK, Snapshot
  <2>3. \A v, w \in warnings' : v.by = "user" /\ w.by = "user" /\ v.gen = w.gen => v = w
    BY <1>1, <1>2, <1>5, <1>7, <1>8 DEF WarningsAreDated
  <2> QED
    BY <1>2, <2>1, <2>2, <2>3 DEF WarningsAreDated
<1>11. ClockHidesAutoWarning'
  BY <1>1, <1>4, <1>7, <1>8 DEF ClockHidesAutoWarning, ControlClose, autoVars
<1>12. PendingSlotIsOwned'
  BY <1>1, <1>2, <1>7, <1>8 DEF PendingSlotIsOwned, ClosePending
<1>13. OneAutoWarning'
  BY <1>1, <1>4, <1>5, <1>8 DEF OneAutoWarning, ControlClose, autoVars
<1>14. SchedulePendingIsAWarning'
  <2>1. (\E w \in warnings' : w.by = "sched") <=> (\E w \in warnings : w.by = "sched")
    BY <1>1, <1>4, <1>6, <1>8
  <2>2. \A v, w \in warnings' : v.by = "sched" /\ w.by = "sched" => v = w
    BY <1>1, <1>5, <1>8 DEF SchedulePendingIsAWarning
  <2>3. \A w \in warnings' :
          w.by = "sched" => w.gen = sched_generation /\ w.cmd = sched_command_id
    BY <1>1, <1>4, <1>8 DEF SchedulePendingIsAWarning
  <2> QED
    BY <2>1, <2>2, <2>3 DEF SchedulePendingIsAWarning, ControlClose, schedVars
<1>15. CloseIsWarnedAndQuiet' /\ CloseIsClear' /\ OpenClockFollowsDoor'
       /\ AutomaticClosesExclude'
  BY DEF CloseIsWarnedAndQuiet, CloseIsClear, OpenClockFollowsDoor, AutomaticClosesExclude,
     ControlClose, sendVars, autoVars, schedVars, trackVars
<1> QED
  BY <1>9, <1>10, <1>11, <1>12, <1>13, <1>14, <1>15

-----------------------------------------------------------------------------
(* A warning ends.                                                         *)

\* One warning fewer, and possibly a close sent under the generation of the moment.
LEMMA FewerWarnings ==
  ASSUME IInv, NEW w \in warnings, warnings' = warnings \ {w},
         UNCHANGED <<close_generation, user_pending_generation, wd_quiet, pc, snapshot>>
  PROVE  WarningTypeOK' /\ WarningsAreDated'
  BY DEF IInv, TypeOK, WarningTypeOK, WarningsAreDated

\* What last_close records of a close sent by a warning of the current generation.
LEMMA CloseStands ==
  ASSUME IInv, NEW w \in warnings, w.gen = close_generation, w.age >= WarnTicks,
         OpenerReady, last_close' = Circumstances(w)
  PROVE  /\ CloseIsWarnedAndQuiet' /\ CloseIsClear'
         /\ last_close' \in [quiet : BOOLEAN, warned : BOOLEAN, clear : BOOLEAN, count : Nat]
<1>1. w \in Warning /\ w.quiet = TRUE
  BY DEF IInv, TypeOK, WarningTypeOK, WarningsAreDated, Warning
<1>2. last_close' = [quiet |-> TRUE, warned |-> TRUE, clear |-> TRUE,
                     count |-> last_close.count + 1]
  BY <1>1 DEF Circumstances, OpenerReady
<1>3. last_close.count + 1 \in Nat
  BY DEF IInv, TypeOK, SendTypeOK
<1> QED
  BY <1>2, <1>3 DEF CloseIsWarnedAndQuiet, CloseIsClear

LEMMA UserEndKeeps ==
  ASSUME IInv, NEW w \in warnings, UserWarningEnds(w)
  PROVE  IInv'
<1> USE DEF IInv
<1>1. warnings' = warnings \ {w} /\ w.by = "user" /\ w.age >= WarnTicks
      /\ user_pending' = (user_pending /\ ~ReleasesSlot(w))
      /\ UNCHANGED <<trackVars, close_generation, user_pending_generation, settingVars,
                     autoVars, schedVars, wdVars, wd_quiet, budget>>
  BY DEF UserWarningEnds
<1>2. WarningTypeOK' /\ WarningsAreDated'
  BY <1>1, FewerWarnings DEF wdVars
<1>3. UserTypeOK'
  BY <1>1 DEF TypeOK, UserTypeOK, ReleasesSlot
<1>4. TrackTypeOK' /\ SendTypeOK' /\ CloseIsWarnedAndQuiet' /\ CloseIsClear'
  <2>1. CASE UserCloseStands(w)
    <3>1. PICK ok \in BOOLEAN : SendDoorRequest("CLOSED", ok)
      BY <2>1, OutcomesAreBoolean DEF UserWarningEnds
    <3>2. /\ CloseIsWarnedAndQuiet' /\ CloseIsClear'
          /\ last_close' \in [quiet : BOOLEAN, warned : BOOLEAN, clear : BOOLEAN, count : Nat]
      BY <1>1, <2>1, CloseStands DEF UserWarningEnds, UserCloseStands
    <3> QED
      BY <3>1, <3>2, <1>1, SendTypes DEF TypeOK, TrackTypeOK, SendTypeOK, trackVars
  <2>2. CASE ~UserCloseStands(w)
    <3>1. UNCHANGED <<opener, sendVars>>
      BY <2>2 DEF UserWarningEnds
    <3> QED
      BY <3>1, <1>1, TypesKept DEF CloseIsWarnedAndQuiet, CloseIsClear, sendVars
  <2> QED
    BY <2>1, <2>2
<1>5. TypeOK'
  BY <1>1, <1>2, <1>3, <1>4, TypesKept DEF TypeOK
<1>6. PendingSlotIsOwned'
  <2>1. user_pending' => \E v \in warnings' : v.by = "user" /\ v.gen = user_pending_generation'
    BY <1>1 DEF PendingSlotIsOwned, ReleasesSlot
  <2>2. ASSUME NEW v \in warnings', v.by = "user", v.gen = close_generation'
        PROVE  ClosePending'
    <3>1. user_pending /\ user_pending_generation = close_generation
      BY <1>1, <2>2 DEF PendingSlotIsOwned, ClosePending
    <3>2. w.gen # close_generation
      BY <1>1, <2>2 DEF WarningsAreDated
    <3> QED
      BY <3>1, <3>2, <1>1 DEF ClosePending, ReleasesSlot
  <2> QED
    BY <2>1, <2>2 DEF PendingSlotIsOwned
<1>7. ClockHidesAutoWarning' /\ OneAutoWarning' /\ OpenClockFollowsDoor'
  BY <1>1 DEF ClockHidesAutoWarning, OneAutoWarning, OpenClockFollowsDoor, autoVars, trackVars
<1>8. SchedulePendingIsAWarning' /\ AutomaticClosesExclude'
  BY <1>1 DEF SchedulePendingIsAWarning, AutomaticClosesExclude, autoVars, schedVars
<1> QED
  BY <1>2, <1>4, <1>5, <1>6, <1>7, <1>8

LEMMA AutoEndKeeps ==
  ASSUME IInv, NEW w \in warnings, AutoWarningEnds(w)
  PROVE  IInv'
<1> USE DEF IInv
<1> DEFINE stands == /\ StillOpenAndClear /\ auto_enabled
                     /\ auto_generation = close_generation
                     /\ auto_command_id = door_command_id
<1>1. warnings' = warnings \ {w} /\ w.by = "auto" /\ w.age >= WarnTicks
      /\ UNCHANGED <<trackVars, close_generation, userVars, settingVars, auto_generation,
                     auto_command_id, schedVars, wdVars, wd_quiet, budget>>
  BY DEF AutoWarningEnds
<1>2. WarningTypeOK' /\ WarningsAreDated'
  BY <1>1, FewerWarnings DEF wdVars, userVars
<1>3. w.gen = auto_generation /\ \A v \in warnings' : v.by # "auto"
  BY <1>1 DEF OneAutoWarning
<1>4. stands => last_door = "OPEN"
  BY <1>1, <1>3 DEF ClockHidesAutoWarning
<1>5. TrackTypeOK' /\ SendTypeOK' /\ CloseIsWarnedAndQuiet' /\ CloseIsClear'
  <2>1. CASE stands
    <3>1. PICK ok \in BOOLEAN : SendDoorRequest("CLOSED", ok)
      BY <2>1, OutcomesAreBoolean DEF AutoWarningEnds
    <3>2. /\ CloseIsWarnedAndQuiet' /\ CloseIsClear'
          /\ last_close' \in [quiet : BOOLEAN, warned : BOOLEAN, clear : BOOLEAN, count : Nat]
      BY <1>1, <1>3, <2>1, CloseStands DEF AutoWarningEnds, StillOpenAndClear
    <3> QED
      BY <3>1, <3>2, <1>1, SendTypes DEF TypeOK, TrackTypeOK, SendTypeOK, trackVars
  <2>2. CASE ~stands
    <3>1. UNCHANGED <<opener, sendVars>>
      BY <2>2 DEF AutoWarningEnds
    <3> QED
      BY <3>1, <1>1, TypesKept DEF CloseIsWarnedAndQuiet, CloseIsClear, sendVars
  <2> QED
    BY <2>1, <2>2
<1>6. \/ UNCHANGED <<auto_triggered, open_for>>
      \/ /\ auto_triggered' = FALSE
         /\ open_for' = open_for \/ (open_for' = 0 /\ last_door = "OPEN")
  BY <1>4 DEF AutoWarningEnds, RestartAutoClose
<1>7. AutoTypeOK' /\ OpenClockFollowsDoor' /\ AutomaticClosesExclude'
  <2>1. auto_triggered' \in BOOLEAN
    BY <1>6 DEF TypeOK, AutoTypeOK
  <2>2. /\ auto_triggered' => auto_triggered
        /\ open_for' = open_for \/ (open_for' = 0 /\ last_door = "OPEN")
    BY <1>6
  <2> QED
    BY <1>1, <2>1, <2>2 DEF TypeOK, AutoTypeOK, OpenClockFollowsDoor,
       AutomaticClosesExclude, trackVars, schedVars, NotOpen
<1>8. TypeOK'
  BY <1>1, <1>2, <1>5, <1>7, TypesKept DEF TypeOK
<1>9. ClockHidesAutoWarning' /\ OneAutoWarning'
  BY <1>3 DEF ClockHidesAutoWarning, OneAutoWarning
<1>10. PendingSlotIsOwned' /\ SchedulePendingIsAWarning'
  BY <1>1 DEF PendingSlotIsOwned, ClosePending, SchedulePendingIsAWarning, userVars, schedVars
<1> QED
  BY <1>2, <1>5, <1>7, <1>8, <1>9, <1>10

LEMMA SchedEndKeeps ==
  ASSUME IInv, NEW w \in warnings, SchedWarningEnds(w)
  PROVE  IInv'
<1> USE DEF IInv
<1> DEFINE stands == /\ StillOpenAndClear /\ sched_enabled
                     /\ sched_generation = close_generation
                     /\ sched_command_id = door_command_id
<1>1. warnings' = warnings \ {w} /\ w.by = "sched" /\ w.age >= WarnTicks
      /\ sched_pending' = FALSE
      /\ UNCHANGED <<trackVars, close_generation, userVars, settingVars, autoVars,
                     sched_generation, sched_command_id, sched_window, wdVars, wd_quiet,
                     budget>>
  BY DEF SchedWarningEnds
<1>2. WarningTypeOK' /\ WarningsAreDated'
  BY <1>1, FewerWarnings DEF wdVars, userVars
<1>3. w.gen = sched_generation /\ \A v \in warnings' : v.by # "sched"
  BY <1>1 DEF SchedulePendingIsAWarning
<1>4. TrackTypeOK' /\ SendTypeOK' /\ CloseIsWarnedAndQuiet' /\ CloseIsClear'
  <2>1. CASE stands
    <3>1. PICK ok \in BOOLEAN : SendDoorRequest("CLOSED", ok)
      BY <2>1, OutcomesAreBoolean DEF SchedWarningEnds
    <3>2. /\ CloseIsWarnedAndQuiet' /\ CloseIsClear'
          /\ last_close' \in [quiet : BOOLEAN, warned : BOOLEAN, clear : BOOLEAN, count : Nat]
      BY <1>1, <1>3, <2>1, CloseStands DEF SchedWarningEnds, StillOpenAndClear
    <3> QED
      BY <3>1, <3>2, <1>1, SendTypes DEF TypeOK, TrackTypeOK, SendTypeOK, trackVars
  <2>2. CASE ~stands
    <3>1. UNCHANGED <<opener, sendVars>>
      BY <2>2 DEF SchedWarningEnds
    <3> QED
      BY <3>1, <1>1, TypesKept DEF CloseIsWarnedAndQuiet, CloseIsClear, sendVars
  <2> QED
    BY <2>1, <2>2
<1>5. SchedTypeOK'
  BY <1>1 DEF TypeOK, SchedTypeOK
<1>6. TypeOK'
  BY <1>1, <1>2, <1>4, <1>5, TypesKept DEF TypeOK
<1>7. ClockHidesAutoWarning' /\ OneAutoWarning' /\ OpenClockFollowsDoor'
  BY <1>1 DEF ClockHidesAutoWarning, OneAutoWarning, OpenClockFollowsDoor, autoVars, trackVars
<1>8. PendingSlotIsOwned' /\ SchedulePendingIsAWarning' /\ AutomaticClosesExclude'
  BY <1>1, <1>3 DEF PendingSlotIsOwned, ClosePending, SchedulePendingIsAWarning,
     AutomaticClosesExclude, userVars
<1> QED
  BY <1>2, <1>4, <1>6, <1>7, <1>8

-----------------------------------------------------------------------------
(* The watchdog retries, arms and fires.                                   *)

\* What the steps below have in common: the warnings in flight are the same.
LEMMA SameWarnings ==
  ASSUME IInv, UNCHANGED <<close_generation, warnings, userVars, auto_generation,
                           auto_command_id, schedVars, last_door>>
  PROVE  /\ \A w \in warnings' : w.gen <= close_generation'
                                 /\ (w.gen = close_generation' => w.quiet)
         /\ \A v, w \in warnings' : v.by = "user" /\ w.by = "user" /\ v.gen = w.gen => v = w
         /\ user_pending_generation' <= close_generation'
         /\ PendingSlotIsOwned' /\ OneAutoWarning' /\ SchedulePendingIsAWarning'
<1>1. PendingSlotIsOwned'
  BY DEF IInv, PendingSlotIsOwned, ClosePending, userVars
<1>2. OneAutoWarning' /\ SchedulePendingIsAWarning'
  BY DEF IInv, OneAutoWarning, SchedulePendingIsAWarning, schedVars
<1> QED
  BY <1>1, <1>2 DEF IInv, WarningsAreDated, userVars

LEMMA RetryKeeps == IInv /\ CheckRetry => IInv'
<1> SUFFICES ASSUME IInv, CheckRetry PROVE IInv'
  OBVIOUS
<1> USE DEF IInv
<1> DEFINE step == RetryBudgetStep(budget, door_command_id, RequestPending,
                                   ~ToggleOnly, EngageTicks)
<1>1. BudgetTypeOK'
  <2>1. RequestPending \in BOOLEAN /\ (~ToggleOnly) \in BOOLEAN
    BY DEF RequestPending
  <2>2. budget' = step.budget
    BY DEF CheckRetry
  <2> QED
    BY <2>1, <2>2, RetryBudgetType DEF TypeOK, BudgetTypeOK, SendTypeOK
<1>2. \/ /\ pc' = "resend" /\ wd_quiet' = TRUE
         /\ snapshot' = [gen |-> close_generation, door |-> opener.door,
                         target |-> opener.target]
      \/ pc' = "auto" /\ UNCHANGED <<wd_quiet, snapshot>>
  BY DEF CheckRetry
<1>3. \/ auto_triggered /\ auto_triggered' = FALSE /\ open_for' = 0
      \/ UNCHANGED <<auto_triggered, open_for>>
  BY DEF CheckRetry, AutoCloseHadNoEffect
<1>4. UNCHANGED <<slept, lag, opener, trackVars, close_generation, sendVars, userVars,
                  settingVars, auto_generation, auto_command_id, schedVars, warnings>>
  BY DEF CheckRetry
<1>5. snapshot' \in Snapshot /\ snapshot'.gen <= close_generation
      /\ (pc' = "resend" /\ snapshot'.gen = close_generation => wd_quiet')
  <2>1. CASE pc' = "resend"
    BY <1>2, <2>1 DEF TypeOK, TrackTypeOK, WarningTypeOK, Snapshot
  <2>2. CASE pc' = "auto"
    BY <1>2, <2>2 DEF TypeOK, WatchdogTypeOK, WarningsAreDated
  <2> QED
    BY <1>2, <2>1, <2>2
<1>6. pc' \in WatchdogPCs /\ wd_quiet' \in BOOLEAN
  <2>1. pc' \in WatchdogPCs
    BY <1>2 DEF WatchdogPCs
  <2>2. wd_quiet' \in BOOLEAN
    BY <1>2 DEF TypeOK, WarningTypeOK
  <2> QED
    BY <2>1, <2>2
<1>7. auto_triggered' \in BOOLEAN /\ open_for' \in Nat \cup {NotOpen}
  <2>1. auto_triggered' \in BOOLEAN
    BY <1>3 DEF TypeOK, AutoTypeOK
  <2>2. open_for' \in Nat \cup {NotOpen}
    BY <1>3 DEF TypeOK, AutoTypeOK
  <2> QED
    BY <2>1, <2>2
<1>8. TypeOK'
  <2>1. WarningTypeOK'
    BY <1>4, <1>6 DEF TypeOK, WarningTypeOK
  <2>2. WatchdogTypeOK'
    BY <1>4, <1>5, <1>6 DEF TypeOK, WatchdogTypeOK
  <2>3. AutoTypeOK'
    BY <1>4, <1>7 DEF TypeOK, AutoTypeOK
  <2> QED
    BY <1>1, <1>4, <2>1, <2>2, <2>3, TypesKept DEF TypeOK
<1>9. /\ \A w \in warnings' : w.gen <= close_generation'
                              /\ (w.gen = close_generation' => w.quiet)
      /\ \A v, w \in warnings' : v.by = "user" /\ w.by = "user" /\ v.gen = w.gen => v = w
      /\ user_pending_generation' <= close_generation'
      /\ PendingSlotIsOwned' /\ OneAutoWarning' /\ SchedulePendingIsAWarning'
  BY <1>4, SameWarnings DEF trackVars
<1>10. WarningsAreDated'
  BY <1>4, <1>5, <1>9 DEF WarningsAreDated
<1>11. ClockHidesAutoWarning' /\ OpenClockFollowsDoor' /\ AutomaticClosesExclude'
  <2>1. \A w \in warnings : w.age >= 0
    BY DEF TypeOK, WarningTypeOK, Warning
  <2>2. CASE auto_triggered /\ auto_triggered' = FALSE /\ open_for' = 0
    BY <1>4, <2>1, <2>2 DEF ClockHidesAutoWarning, OpenClockFollowsDoor,
       AutomaticClosesExclude, trackVars, schedVars, NotOpen
  <2>3. CASE UNCHANGED <<auto_triggered, open_for>>
    BY <1>4, <2>3 DEF ClockHidesAutoWarning, OpenClockFollowsDoor,
       AutomaticClosesExclude, trackVars, schedVars
  <2> QED
    BY <1>3, <2>2, <2>3
<1>12. CloseIsWarnedAndQuiet' /\ CloseIsClear'
  BY <1>4 DEF CloseIsWarnedAndQuiet, CloseIsClear, sendVars
<1> QED
  BY <1>8, <1>9, <1>10, <1>11, <1>12

LEMMA ResendKeeps == IInv /\ RetryResends => IInv'
<1> SUFFICES ASSUME IInv, RetryResends PROVE IInv'
  OBVIOUS
<1> USE DEF IInv
<1>1. /\ pc = "resend" /\ pc' = "auto"
      /\ UNCHANGED <<slept, lag, snapshot, opener, trackVars, close_generation,
                     door_command_id, userVars, settingVars, autoVars,
                     schedVars, warnings, wd_quiet, budget>>
  BY DEF RetryResends
<1>2. \/ UNCHANGED last_close
      \/ last_close' = [quiet |-> TRUE, warned |-> TRUE, clear |-> TRUE,
                     count |-> last_close.count + 1]
  <2>1. CASE RetryStands /\ snapshot.target = "CLOSED"
    <3>1. wd_quiet = TRUE
      BY <1>1, <2>1 DEF RetryStands, WarningsAreDated, TypeOK, WarningTypeOK
    <3>2. lag >= WarnTicks /\ OpenerReady
      BY <2>1 DEF RetryResends, RetryStands, OpenerReady
    <3> QED
      BY <2>1, <3>1, <3>2 DEF RetryResends, OpenerReady
  <2>2. CASE ~(RetryStands /\ snapshot.target = "CLOSED")
    BY <2>2 DEF RetryResends
  <2> QED
    BY <2>1, <2>2
<1>3. CloseIsWarnedAndQuiet' /\ CloseIsClear'
      /\ last_close' \in [quiet : BOOLEAN, warned : BOOLEAN, clear : BOOLEAN, count : Nat]
  <2>1. last_close.count + 1 \in Nat /\ last_close \in
          [quiet : BOOLEAN, warned : BOOLEAN, clear : BOOLEAN, count : Nat]
    BY DEF TypeOK, SendTypeOK
  <2>2. CASE UNCHANGED last_close
    BY <2>1, <2>2 DEF CloseIsWarnedAndQuiet, CloseIsClear
  <2>3. CASE last_close' = [quiet |-> TRUE, warned |-> TRUE, clear |-> TRUE,
                     count |-> last_close.count + 1]
    BY <2>1, <2>3 DEF CloseIsWarnedAndQuiet, CloseIsClear
  <2> QED
    BY <1>2, <2>2, <2>3
<1>4. resends' \in Nat
  BY DEF RetryResends, TypeOK, SendTypeOK, WatchdogTypeOK, Snapshot
<1>5. TypeOK'
  <2>1. SendTypeOK'
    BY <1>1, <1>3, <1>4 DEF TypeOK, SendTypeOK
  <2>2. WatchdogTypeOK'
    BY <1>1 DEF TypeOK, WatchdogTypeOK, WatchdogPCs
  <2> QED
    BY <1>1, <2>1, <2>2, TypesKept DEF TypeOK
<1>6. /\ \A w \in warnings' : w.gen <= close_generation'
                              /\ (w.gen = close_generation' => w.quiet)
      /\ \A v, w \in warnings' : v.by = "user" /\ w.by = "user" /\ v.gen = w.gen => v = w
      /\ user_pending_generation' <= close_generation'
      /\ PendingSlotIsOwned' /\ OneAutoWarning' /\ SchedulePendingIsAWarning'
  BY <1>1, SameWarnings DEF trackVars, autoVars
<1>7. WarningsAreDated'
  BY <1>1, <1>6 DEF WarningsAreDated
<1>8. ClockHidesAutoWarning' /\ OpenClockFollowsDoor' /\ AutomaticClosesExclude'
  BY <1>1 DEF ClockHidesAutoWarning, OpenClockFollowsDoor, AutomaticClosesExclude,
     trackVars, autoVars, schedVars
<1> QED
  BY <1>3, <1>5, <1>6, <1>7, <1>8

(***************************************************************************)
(* The heart of OneAutoWarning: the open clock of a door whose auto-close  *)
(* warning still sounds is younger than the warning, and the warning is    *)
(* younger than any timeout, so the clock of a cleared flag cannot be due. *)
(***************************************************************************)
LEMMA NothingSoundsWhenDue ==
  ASSUME IInv, NoTimeRemains
  PROVE  \A w \in warnings : w.by # "auto"
<1>1. /\ open_for # NotOpen /\ ~auto_triggered /\ open_for >= auto_timeout
      /\ open_for \in Nat /\ auto_timeout \in Timeouts
  BY DEF NoTimeRemains, IInv, TypeOK, AutoTypeOK, SettingTypeOK
<1>2. auto_timeout \in Nat /\ WarnMax \in Nat /\ WarnMax < auto_timeout
  BY <1>1, TimingAssumption
<1>3. \A w \in warnings : w.age \in 0..WarnMax
  BY DEF IInv, TypeOK, WarningTypeOK, Warning
<1>4. \A w \in warnings : ~(open_for <= w.age)
  BY <1>1, <1>2, <1>3
<1> QED
  BY <1>1, <1>4 DEF IInv, ClockHidesAutoWarning

LEMMA ArmKeeps == IInv /\ ArmAutoClose => IInv'
<1> SUFFICES ASSUME IInv, ArmAutoClose PROVE IInv'
  OBVIOUS
<1> USE DEF IInv
<1> DEFINE n == [by |-> "auto", gen |-> close_generation, cmd |-> door_command_id,
                 age |-> 0, quiet |-> TRUE]
<1>1. /\ auto_generation' = close_generation /\ auto_command_id' = door_command_id
      /\ pc' = "sched"
      /\ UNCHANGED <<slept, lag, snapshot, opener, trackVars, close_generation, sendVars,
                     userVars, settingVars, schedVars, wd_quiet, budget>>
  BY DEF ArmAutoClose
<1>2. \/ auto_triggered' = TRUE /\ warnings' = warnings \cup {n} /\ open_for' = open_for
      \/ auto_triggered' = FALSE /\ warnings' = warnings /\ open_for' = 0
  BY DEF ArmAutoClose
<1>3. NoTimeRemains /\ ~sched_pending
  BY DEF ArmAutoClose, MayArmAutoClose
<1>4. \A w \in warnings : w.by # "auto"
  BY <1>3, NothingSoundsWhenDue
<1>5. last_door = "OPEN" /\ open_for # NotOpen
  BY <1>3 DEF NoTimeRemains, OpenClockFollowsDoor
<1>6. /\ n \in Warning
      /\ n.by = "auto" /\ n.gen = close_generation /\ n.cmd = door_command_id /\ n.quiet
  BY TimingAssumption DEF Warning, TypeOK, WarningTypeOK, SendTypeOK
<1> HIDE DEF n
<1>7. warnings' \subseteq warnings \cup {n} /\ warnings \subseteq warnings'
  BY <1>2
<1>8. TypeOK'
  <2>1. WarningTypeOK'
    BY <1>1, <1>6, <1>7 DEF TypeOK, WarningTypeOK
  <2>2. auto_triggered' \in BOOLEAN
    BY <1>2
  <2>3. open_for' \in Nat \cup {NotOpen}
    BY <1>2 DEF TypeOK, AutoTypeOK
  <2>4. AutoTypeOK'
    BY <1>1, <2>2, <2>3 DEF TypeOK, AutoTypeOK, WarningTypeOK, SendTypeOK
  <2>5. WatchdogTypeOK'
    BY <1>1 DEF TypeOK, WatchdogTypeOK, WatchdogPCs
  <2> QED
    BY <1>1, <2>1, <2>4, <2>5, TypesKept DEF TypeOK
<1>9. WarningsAreDated'
  <2>1. \A w \in warnings' : w.gen <= close_generation' /\ (w.gen = close_generation' => w.quiet)
    BY <1>1, <1>6, <1>7 DEF WarningsAreDated, TypeOK, WarningTypeOK
  <2>2. \A v, w \in warnings' : v.by = "user" /\ w.by = "user" /\ v.gen = w.gen => v = w
    BY <1>6, <1>7 DEF WarningsAreDated
  <2> QED
    BY <1>1, <2>1, <2>2 DEF WarningsAreDated, userVars
<1>10. ClockHidesAutoWarning'
  <2>1. CASE auto_triggered' = TRUE
    BY <1>1, <1>5, <2>1 DEF ClockHidesAutoWarning, trackVars
  <2>2. CASE warnings' = warnings
    BY <1>4, <2>2 DEF ClockHidesAutoWarning
  <2> QED
    BY <1>2, <2>1, <2>2
<1>11. OneAutoWarning'
  BY <1>1, <1>4, <1>6, <1>7 DEF OneAutoWarning
<1>12. OpenClockFollowsDoor' /\ AutomaticClosesExclude'
  BY <1>1, <1>2, <1>3, <1>5 DEF OpenClockFollowsDoor, AutomaticClosesExclude, trackVars,
     schedVars, NotOpen
<1>13. PendingSlotIsOwned' /\ SchedulePendingIsAWarning'
  BY <1>1, <1>6, <1>7 DEF PendingSlotIsOwned, ClosePending, SchedulePendingIsAWarning,
     userVars, schedVars
<1>14. CloseIsWarnedAndQuiet' /\ CloseIsClear'
  BY <1>1 DEF CloseIsWarnedAndQuiet, CloseIsClear, sendVars
<1> QED
  BY <1>8, <1>9, <1>10, <1>11, <1>12, <1>13, <1>14

LEMMA FireKeeps == IInv /\ FireSchedule => IInv'
<1> SUFFICES ASSUME IInv, FireSchedule PROVE IInv'
  OBVIOUS
<1> USE DEF IInv
<1> DEFINE n == [by |-> "sched", gen |-> close_generation, cmd |-> door_command_id,
                 age |-> 0, quiet |-> TRUE]
<1>1. /\ sched_generation' = close_generation /\ sched_command_id' = door_command_id
      /\ sched_window' \in {"none", "due", "fired"}
      /\ pc' = "sleep"
      /\ UNCHANGED <<slept, lag, snapshot, opener, trackVars, close_generation, sendVars,
                     userVars, settingVars, autoVars, wd_quiet, budget>>
  BY DEF FireSchedule
<1>2. \/ sched_pending' = TRUE /\ warnings' = warnings \cup {n}
      \/ sched_pending' = FALSE /\ warnings' = warnings
  BY DEF FireSchedule
<1>3. ~auto_triggered /\ \A w \in warnings : w.by # "sched"
  BY DEF FireSchedule, MayFireSchedule, SchedulePendingIsAWarning
<1>4. /\ n \in Warning
      /\ n.by = "sched" /\ n.gen = close_generation /\ n.cmd = door_command_id /\ n.quiet
  BY TimingAssumption DEF Warning, TypeOK, WarningTypeOK, SendTypeOK
<1> HIDE DEF n
<1>5. warnings' \subseteq warnings \cup {n} /\ warnings \subseteq warnings'
  BY <1>2
<1>6. TypeOK'
  <2>1. WarningTypeOK'
    BY <1>1, <1>4, <1>5 DEF TypeOK, WarningTypeOK
  <2>2. sched_pending' \in BOOLEAN
    BY <1>2
  <2>3. SchedTypeOK'
    BY <1>1, <2>2 DEF TypeOK, SchedTypeOK, WarningTypeOK, SendTypeOK
  <2>4. WatchdogTypeOK'
    BY <1>1 DEF TypeOK, WatchdogTypeOK, WatchdogPCs
  <2> QED
    BY <1>1, <2>1, <2>3, <2>4, TypesKept DEF TypeOK
<1>7. WarningsAreDated'
  <2>1. \A w \in warnings' : w.gen <= close_generation' /\ (w.gen = close_generation' => w.quiet)
    BY <1>1, <1>4, <1>5 DEF WarningsAreDated, TypeOK, WarningTypeOK
  <2>2. \A v, w \in warnings' : v.by = "user" /\ w.by = "user" /\ v.gen = w.gen => v = w
    BY <1>4, <1>5 DEF WarningsAreDated
  <2> QED
    BY <1>1, <2>1, <2>2 DEF WarningsAreDated, userVars
<1>8. ClockHidesAutoWarning' /\ OneAutoWarning'
  BY <1>1, <1>4, <1>5 DEF ClockHidesAutoWarning, OneAutoWarning, autoVars, trackVars
<1>9. PendingSlotIsOwned'
  BY <1>1, <1>4, <1>5 DEF PendingSlotIsOwned, ClosePending, userVars
<1>10. SchedulePendingIsAWarning'
  <2>1. CASE sched_pending' = TRUE /\ warnings' = warnings \cup {n}
    BY <1>1, <1>3, <1>4, <2>1 DEF SchedulePendingIsAWarning
  <2>2. CASE sched_pending' = FALSE /\ warnings' = warnings
    BY <1>3, <2>2 DEF SchedulePendingIsAWarning
  <2> QED
    BY <1>2, <2>1, <2>2
<1>11. OpenClockFollowsDoor' /\ AutomaticClosesExclude'
  BY <1>1, <1>3 DEF OpenClockFollowsDoor, AutomaticClosesExclude, trackVars, autoVars
<1>12. CloseIsWarnedAndQuiet' /\ CloseIsClear'
  BY <1>1 DEF CloseIsWarnedAndQuiet, CloseIsClear, sendVars
<1> QED
  BY <1>6, <1>7, <1>8, <1>9, <1>10, <1>11, <1>12

LEMMA WindowKeeps == IInv /\ WindowChanges => IInv'
<1> SUFFICES ASSUME IInv, WindowChanges PROVE IInv'
  OBVIOUS
<1> USE DEF IInv
<1>1. /\ sched_window' \in {"none", "due"}
      /\ UNCHANGED <<opener, trackVars, close_generation, sendVars, userVars, settingVars,
                     autoVars, sched_pending, sched_generation, sched_command_id, warnings,
                     wdVars, wd_quiet, budget>>
  BY DEF WindowChanges
<1>2. TypeOK'
  <2>1. SchedTypeOK'
    BY <1>1 DEF TypeOK, SchedTypeOK
  <2> QED
    BY <1>1, <2>1, TypesKept DEF TypeOK
<1>3. WarningsAreDated' /\ ClockHidesAutoWarning' /\ OneAutoWarning'
  BY <1>1 DEF WarningsAreDated, ClockHidesAutoWarning, OneAutoWarning, userVars, autoVars,
     trackVars, wdVars
<1>4. PendingSlotIsOwned' /\ SchedulePendingIsAWarning' /\ AutomaticClosesExclude'
  BY <1>1 DEF PendingSlotIsOwned, ClosePending, SchedulePendingIsAWarning,
     AutomaticClosesExclude, userVars, autoVars
<1>5. OpenClockFollowsDoor' /\ CloseIsWarnedAndQuiet' /\ CloseIsClear'
  BY <1>1 DEF OpenClockFollowsDoor, CloseIsWarnedAndQuiet, CloseIsClear, trackVars,
     autoVars, sendVars
<1> QED
  BY <1>2, <1>3, <1>4, <1>5

-----------------------------------------------------------------------------
(* Time passes.                                                            *)

\* A warning grows older and keeps everything else.
LEMMA OlderWarning ==
  ASSUME NEW w \in Warning, w.age < WarnMax
  PROVE  /\ [w EXCEPT !.age = @ + 1] \in Warning
         /\ [w EXCEPT !.age = @ + 1].by = w.by
         /\ [w EXCEPT !.age = @ + 1].gen = w.gen
         /\ [w EXCEPT !.age = @ + 1].cmd = w.cmd
         /\ [w EXCEPT !.age = @ + 1].quiet = w.quiet
         /\ [w EXCEPT !.age = @ + 1].age = w.age + 1
<1>1. w.age + 1 \in 0..WarnMax
  BY TimingAssumption DEF Warning
<1> QED
  BY <1>1 DEF Warning

LEMMA TickKeeps == IInv /\ Tick => IInv'
<1> SUFFICES ASSUME IInv, Tick PROVE IInv'
  OBVIOUS
<1> USE DEF IInv
<1> DEFINE Older(w) == [w EXCEPT !.age = @ + 1]
<1>1. /\ warnings' = { Older(w) : w \in warnings }
      /\ UNCHANGED <<pc, snapshot, opener, trackVars, close_generation, sendVars, userVars,
                     settingVars, auto_triggered, auto_generation, auto_command_id,
                     schedVars, wd_quiet>>
  BY DEF Tick
<1>2. \A w \in warnings :
        /\ Older(w) \in Warning
        /\ Older(w).by = w.by /\ Older(w).gen = w.gen /\ Older(w).cmd = w.cmd
        /\ Older(w).quiet = w.quiet /\ Older(w).age = w.age + 1
  BY OlderWarning DEF Tick, TypeOK, WarningTypeOK
<1> HIDE DEF Older
<1>3. open_for' \in Nat \cup {NotOpen} /\ (open_for' = NotOpen <=> open_for = NotOpen)
      /\ (open_for' = open_for \/ open_for' = open_for + 1)
  BY DEF Tick, TypeOK, AutoTypeOK, NotOpen
<1>4. slept' \in BOOLEAN /\ lag' \in 0..WarnMax
  <2>1. slept' \in BOOLEAN
    BY DEF Tick, TypeOK, WatchdogTypeOK
  <2>2. lag' \in 0..WarnMax
    BY TimingAssumption DEF Tick, TypeOK, WatchdogTypeOK
  <2> QED
    BY <2>1, <2>2
<1>5. TypeOK'
  <2>1. WarningTypeOK'
    BY <1>1, <1>2 DEF TypeOK, WarningTypeOK
  <2>2. WatchdogTypeOK'
    BY <1>1, <1>4 DEF TypeOK, WatchdogTypeOK
  <2>3. AutoTypeOK'
    BY <1>1, <1>3 DEF TypeOK, AutoTypeOK
  <2>4. BudgetTypeOK'
    BY AgeBudgetType DEF Tick, TypeOK, BudgetTypeOK
  <2> QED
    BY <1>1, <2>1, <2>2, <2>3, <2>4, TypesKept DEF TypeOK
<1>6. WarningsAreDated'
  BY <1>1, <1>2 DEF WarningsAreDated, userVars
<1>7. ClockHidesAutoWarning'
  <2>1. ASSUME NEW w \in warnings, w.by = "auto"
        PROVE  auto_triggered \/ open_for' = NotOpen \/ open_for' <= w.age + 1
    <3>1. w.age \in Nat /\ open_for \in Nat \cup {NotOpen}
      BY DEF TypeOK, WarningTypeOK, AutoTypeOK, Warning
    <3> QED
      BY <1>3, <2>1, <3>1 DEF ClockHidesAutoWarning
  <2> QED
    BY <1>1, <1>2, <2>1 DEF ClockHidesAutoWarning, trackVars
<1>8. PendingSlotIsOwned'
  BY <1>1, <1>2 DEF PendingSlotIsOwned, ClosePending, userVars
<1>9. OneAutoWarning' /\ SchedulePendingIsAWarning'
  BY <1>1, <1>2 DEF OneAutoWarning, SchedulePendingIsAWarning, schedVars
<1>10. OpenClockFollowsDoor' /\ AutomaticClosesExclude'
  BY <1>1, <1>3 DEF OpenClockFollowsDoor, AutomaticClosesExclude, trackVars, schedVars
<1>11. CloseIsWarnedAndQuiet' /\ CloseIsClear'
  BY <1>1 DEF CloseIsWarnedAndQuiet, CloseIsClear, sendVars
<1> QED
  BY <1>5, <1>6, <1>7, <1>8, <1>9, <1>10, <1>11

-----------------------------------------------------------------------------
LEMMA StutterKeeps == IInv /\ UNCHANGED vars => IInv'
<1> SUFFICES ASSUME IInv, UNCHANGED vars PROVE IInv'
  OBVIOUS
<1>1. UNCHANGED controlVars /\ UNCHANGED wdVars /\ UNCHANGED opener
  BY DEF vars, controlVars
<1>2. TrackTypeOK' /\ WatchdogTypeOK'
  BY <1>1, TypesKept DEF IInv, controlVars
<1> QED
  BY <1>1, <1>2, UncontrolledStep DEF wdVars

\* Every step of every task keeps the invariant.
LEMMA NextKeeps == IInv /\ [Next]_vars => IInv'
<1> SUFFICES ASSUME IInv, [Next]_vars PROVE IInv'
  OBVIOUS
<1>1. CASE OpenerStep
  BY <1>1, OpenerKeeps
<1>2. CASE EventStep
  BY <1>2, DoorEventsKeep, ObstructionKeeps, ButtonKeeps DEF EventStep
<1>3. CASE HomeKitStep
  BY <1>3, OpenKeeps, CloseKeeps DEF HomeKitStep
<1>4. CASE WarningStep
  BY <1>4, UserEndKeeps, AutoEndKeeps, SchedEndKeeps DEF WarningStep
<1>5. CASE SettingsStep
  BY <1>5, SettingsKeep, WindowKeeps DEF SettingsStep, SettingChange
<1>6. CASE WatchdogStep
  BY <1>6, WatchdogLooks, ResolveKeeps, RetryKeeps, ResendKeeps, ArmKeeps, FireKeeps
     DEF WatchdogStep, WatchdogLook
<1>7. CASE Tick
  BY <1>7, TickKeeps
<1>8. CASE UNCHANGED vars
  BY <1>8, StutterKeeps
<1> QED
  BY <1>1, <1>2, <1>3, <1>4, <1>5, <1>6, <1>7, <1>8 DEF Next

(***************************************************************************)
(* The invariant holds in every reachable state, for all timings within    *)
(* the assumptions, all bounds and all inputs.                             *)
(***************************************************************************)
THEOREM Invariance == Spec => []IInv
  BY InitIInv, NextKeeps, PTL DEF Spec

\* Every variable keeps its type.
THEOREM TypeCorrect == Spec => []TypeOK
<1>1. IInv => TypeOK
  BY DEF IInv
<1> QED
  BY <1>1, Invariance, PTL

\* Every close that is sent was announced by a whole, undisturbed warning.
THEOREM ClosesAreWarned == Spec => []CloseIsWarnedAndQuiet
<1>1. IInv => CloseIsWarnedAndQuiet
  BY DEF IInv
<1> QED
  BY <1>1, Invariance, PTL

\* Every close is sent to a synced opener whose beam is known to be clear.
THEOREM ClosesAreClear == Spec => []CloseIsClear
<1>1. IInv => CloseIsClear
  BY DEF IInv
<1> QED
  BY <1>1, Invariance, PTL

\* The auto-close clock runs exactly while the door is known to be open.
THEOREM ClockIsExact == Spec => []OpenClockFollowsDoor
<1>1. IInv => OpenClockFollowsDoor
  BY DEF IInv
<1> QED
  BY <1>1, Invariance, PTL

\* The pending flag of a user close never outlives the task that clears it.
THEOREM PendingSlot == Spec => []PendingSlotIsOwned
<1>1. IInv => PendingSlotIsOwned
  BY DEF IInv
<1> QED
  BY <1>1, Invariance, PTL

(***************************************************************************)
(* Because every timeout the setter accepts is longer than a warning, no   *)
(* second auto-close warning can overwrite what the first will read.       *)
(***************************************************************************)
THEOREM AutoWarningIsAlone == Spec => []OneAutoWarning
<1>1. IInv => OneAutoWarning
  BY DEF IInv
<1> QED
  BY <1>1, Invariance, PTL

\* At most one scheduled warning, and its flag never disagrees with it.
THEOREM ScheduleIsAlone == Spec => []SchedulePendingIsAWarning
<1>1. IInv => SchedulePendingIsAWarning
  BY DEF IInv
<1> QED
  BY <1>1, Invariance, PTL

\* Auto-close and scheduled close never both own the door.
THEOREM AutomaticClosesApart == Spec => []AutomaticClosesExclude
<1>1. IInv => AutomaticClosesExclude
  BY DEF IInv
<1> QED
  BY <1>1, Invariance, PTL
=============================================================================
