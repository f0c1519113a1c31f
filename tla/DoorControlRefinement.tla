----------------------- MODULE DoorControlRefinement -----------------------
(***************************************************************************)
(* Proofs that the control core keeps the promise of GuardedClose, and     *)
(* that retries are bounded, for every value of the constants.             *)
(*                                                                         *)
(* The refinement maps the undisturbed warnings, the watchdog's own        *)
(* included, to what sounds in GuardedClose.  A generation bump is         *)
(* Disturb, arming is Start, the end of a warning is Close or GiveUp, and  *)
(* every other step of the watchdog stutters.  What has to be shown of     *)
(* each task that sends a close is that its warning was among those that   *)
(* sound, which is what IInv says of generations and command ids.          *)
(***************************************************************************)
EXTENDS DoorControlProofs

-----------------------------------------------------------------------------
(* The watchdog's pass takes no time before its own warning.               *)

\* The watchdog's warning starts at age zero: no tick passes on the way to it.
LEMMA PromptPass == Spec => []PassIsPrompt
<1>1. Init => PassIsPrompt
  BY DEF Init, PassIsPrompt
<1>2. PassIsPrompt /\ [Next]_vars => PassIsPrompt'
  <2> SUFFICES ASSUME PassIsPrompt, [Next]_vars PROVE PassIsPrompt'
    OBVIOUS
  <2> USE DEF PassIsPrompt
  <2>1. CASE UNCHANGED wdVars
    BY <2>1 DEF wdVars
  <2>2. CASE WatchdogStep
    <3> USE DEF WatchdogWakes, CheckTransit, ResolveTransit, CheckRetry,
               RetryResends, CheckAutoClose, ArmAutoClose, AbandonPass, FireSchedule,
               SkipSchedule
    <3>1. lag' \in {lag, 0}
      BY <2>2 DEF WatchdogStep
    <3>2. CASE WatchdogWakes
      BY <3>2
    <3>3. CASE CheckTransit \/ ResolveTransit
      BY <3>3
    <3>4. CASE CheckRetry
      <4>1. pc' \in {"resend", "auto"}
        BY <3>4
      <4> QED
        BY <4>1
    <3>5. CASE RetryResends \/ CheckAutoClose \/ ArmAutoClose \/ AbandonPass
               \/ FireSchedule \/ SkipSchedule
      <4>1. pc' \in {"auto", "arm", "sched", "sleep"}
        BY <3>5
      <4> QED
        BY <4>1
    <3> QED
      BY <2>2, <3>2, <3>3, <3>4, <3>5 DEF WatchdogStep
  <2>3. CASE Tick
    BY <2>3 DEF Tick
  <2>4. CASE UNCHANGED vars
    BY <2>4, <2>1 DEF vars
  <2>5. CASE OpenerStep \/ EventStep \/ HomeKitStep
    <3>1. UNCHANGED wdVars
      BY <2>5 DEF OpenerStep, OpenerMoves, OpenerBeam, OpenerLink, EventStep,
         DoorPositionEvent, MotorEvent, ObstructionEvent, ButtonEvent, HomeKitStep,
         ControlOpen, ControlClose
    <3> QED
      BY <3>1, <2>1
  <2>6. CASE WarningStep
    <3>1. UNCHANGED wdVars
      BY <2>6 DEF WarningStep, UserWarningEnds, AutoWarningEnds, SchedWarningEnds
    <3> QED
      BY <3>1, <2>1
  <2>7. CASE SettingsStep
    <3>1. UNCHANGED wdVars
      BY <2>7 DEF SettingsStep, SetPreCloseBuzzer, SetAutoCloseTimeout,
         SetAutoCloseEnabled, SetCloseSchedule, SettingSaved, WindowChanges
    <3> QED
      BY <3>1, <2>1
  <2> QED
    BY <2>2, <2>3, <2>4, <2>5, <2>6, <2>7 DEF Next
<1> QED
  BY <1>1, <1>2, PTL DEF Spec

-----------------------------------------------------------------------------
(* Retries.                                                                *)

(***************************************************************************)
(* What one step of the budget charges: a SEND only to a budget that has   *)
(* an attempt left, and the attempts of a command are never given back.    *)
(***************************************************************************)
LEMMA BudgetCharges ==
  ASSUME NEW b \in RetryBudgets(EngageTicks + 1), NEW id \in Nat,
         NEW pending \in BOOLEAN, NEW allowed \in BOOLEAN, b.id <= id
  PROVE  LET step == RetryBudgetStep(b, id, pending, allowed, EngageTicks)
             used == IF b.id = id THEN b.attempts ELSE 0
         IN  /\ step.budget.id <= id
             /\ step.action = "SEND" =>
                  used = 0 /\ step.budget.id = id /\ step.budget.attempts = 1
             /\ step.action # "SEND" =>
                  (IF step.budget.id = id THEN step.budget.attempts ELSE 0) = used
<1> DEFINE c == ChargedTo(b, id)
           used == IF b.id = id THEN b.attempts ELSE 0
           done == c.done \/ ~pending
           step == RetryBudgetStep(b, id, pending, allowed, EngageTicks)
<1>1. c \in RetryBudgets(EngageTicks + 1) /\ c.id = id /\ c.attempts = used
  BY TimingAssumption DEF RetryBudgets, ChargedTo
<1> HIDE DEF c
<1>2. CASE id = 0
  BY <1>2 DEF RetryBudgetStep
<1>3. CASE id # 0 /\ (done \/ ~(c.age > EngageTicks))
  <2> DEFINE d == [c EXCEPT !.done = done]
  <2>1. step = [budget |-> d, action |-> "WAIT"]
    BY <1>3 DEF RetryBudgetStep, c
  <2>2. d.id = id /\ d.attempts = used
    BY <1>1 DEF RetryBudgets
  <2> HIDE DEF d
  <2> QED
    BY <2>1, <2>2
<1>4. CASE id # 0 /\ ~(done \/ ~(c.age > EngageTicks)) /\ allowed /\ c.attempts = 0
  <2>1. step = [budget |-> Fresh(c, 1, FALSE), action |-> "SEND"]
    BY <1>4 DEF RetryBudgetStep, c
  <2> QED
    BY <2>1, <1>1, <1>4 DEF Fresh
<1>5. CASE id # 0 /\ ~(done \/ ~(c.age > EngageTicks)) /\ ~(allowed /\ c.attempts = 0)
  <2>1. step = [budget |-> Fresh(c, c.attempts, TRUE), action |-> "REVERT"]
    BY <1>5 DEF RetryBudgetStep, c
  <2> QED
    BY <2>1, <1>1 DEF Fresh
<1> QED
  BY <1>2, <1>3, <1>4, <1>5

LEMMA RetriesCharged == Spec => []RetriesAreCharged
<1> USE DEF RetriesAreCharged, AttemptsCharged, ResendsUnderWay
<1>1. Init => RetriesAreCharged
  BY DEF Init, EmptyBudget
<1>2. IInv /\ RetriesAreCharged /\ [Next]_vars => RetriesAreCharged'
  <2> SUFFICES ASSUME IInv, RetriesAreCharged, [Next]_vars PROVE RetriesAreCharged'
    OBVIOUS
  <2>1. /\ door_command_id \in Nat /\ resends \in Nat
        /\ budget \in RetryBudgets(EngageTicks + 1)
    BY DEF IInv, TypeOK, SendTypeOK, BudgetTypeOK
  <2>2. budget.id \in Nat /\ budget.attempts \in 0..1
    BY <2>1 DEF RetryBudgets
  <2>3. ASSUME UNCHANGED <<door_command_id, resends, budget>>,
               pc' = "resend" => pc = "resend"
        PROVE  RetriesAreCharged'
    BY <2>1, <2>2, <2>3
  \* A newer command starts with no resends and an uncharged budget.
  <2>4. ASSUME door_command_id' = door_command_id + 1, resends' = 0,
               UNCHANGED <<budget, pc>>
        PROVE  RetriesAreCharged'
    BY <2>1, <2>2, <2>4
  <2>5. CASE CheckRetry
    <3> DEFINE pending == RequestPending
               allowed == ~ToggleOnly
               step == RetryBudgetStep(budget, door_command_id, pending, allowed,
                                       EngageTicks)
    <3>1. pending \in BOOLEAN /\ allowed \in BOOLEAN /\ budget.id <= door_command_id
      BY DEF RequestPending
    <3> HIDE DEF pending, allowed
    <3>2. /\ step.budget.id <= door_command_id
          /\ step.action = "SEND" =>
               /\ AttemptsCharged = 0 /\ step.budget.id = door_command_id
               /\ step.budget.attempts = 1
          /\ step.action # "SEND" =>
               (IF step.budget.id = door_command_id THEN step.budget.attempts ELSE 0)
                 = AttemptsCharged
      BY <2>1, <3>1, BudgetCharges
    <3>3. /\ pc = "retry" /\ budget' = step.budget
          /\ step.action = "SEND" => pc' = "resend"
          /\ step.action # "SEND" => pc' = "auto"
          /\ door_command_id' = door_command_id /\ resends' = resends
      BY <2>5 DEF CheckRetry, sendVars, pending, allowed
    <3> HIDE DEF step
    <3> QED
      BY <2>1, <2>2, <3>2, <3>3
  <2>6. CASE RetryResends
    BY <2>1, <2>2, <2>6 DEF RetryResends
  <2>7. CASE WatchdogStep /\ ~CheckRetry /\ ~RetryResends
    BY <2>3, <2>7 DEF WatchdogStep, WatchdogWakes, CheckTransit, ResolveTransit,
       CheckAutoClose, ArmAutoClose, AbandonPass, FireSchedule, SkipSchedule,
       controlVars, sendVars
  <2>8. CASE Tick
    BY <2>1, <2>2, <2>8 DEF Tick, AgeBudget, sendVars
  <2>9. CASE OpenerStep \/ EventStep \/ SettingsStep \/ UNCHANGED vars \/ ControlClose
    BY <2>3, <2>9 DEF OpenerStep, OpenerMoves, OpenerBeam, OpenerLink, EventStep,
       DoorPositionEvent, MotorEvent, ObstructionEvent, ButtonEvent, ControlClose,
       SettingsStep, SetPreCloseBuzzer, SetAutoCloseTimeout, SetAutoCloseEnabled,
       SetCloseSchedule, SettingSaved, WindowChanges, vars, controlVars, sendVars, wdVars
  <2>10. CASE ControlOpen
    BY <2>4, <2>10 DEF ControlOpen, SendDoorRequest, wdVars
  <2>11. CASE WarningStep
    <3>1. /\ UNCHANGED <<budget, pc>>
          /\ UNCHANGED sendVars \/ (\E ok \in Outcomes : SendDoorRequest("CLOSED", ok))
      BY <2>11 DEF WarningStep, UserWarningEnds, AutoWarningEnds, SchedWarningEnds, wdVars
    <3> QED
      BY <2>3, <2>4, <3>1 DEF sendVars, SendDoorRequest
  <2> QED
    BY <2>5, <2>6, <2>7, <2>8, <2>9, <2>10, <2>11 DEF Next, HomeKitStep
<1> QED
  BY <1>1, <1>2, Invariance, PTL DEF Spec

(***************************************************************************)
(* A command is sent again at most twice: once by its own budget, once     *)
(* because the watchdog was already warning for an older command.          *)
(***************************************************************************)
THEOREM RetriesBounded == Spec => []RetriesAreBounded
<1>1. IInv /\ RetriesAreCharged => RetriesAreBounded
  BY DEF IInv, TypeOK, SendTypeOK, BudgetTypeOK, RetryBudgets, RetriesAreCharged,
     AttemptsCharged, ResendsUnderWay, RetriesAreBounded
<1> QED
  BY <1>1, Invariance, RetriesCharged, PTL

-----------------------------------------------------------------------------
(* The promise: what each kind of step does to what sounds.                *)

Audible == { w \in warnings : w.quiet }

\* The watchdog's warning is told from every warning task by whose it is.
LEMMA WatchdogApart ==
  ASSUME TypeOK
  PROVE  WatchdogWarning \notin warnings
  BY DEF TypeOK, WarningTypeOK, Warning, WatchdogWarning

LEMMA AudibleOnly ==
  /\ ~WatchdogWarns => Sounding = Audible
  /\ WatchdogWarns => Sounding = Audible \cup {WatchdogWarning}
  /\ ~WatchdogWarns' => Sounding' = Audible'
  /\ WatchdogWarns' => Sounding' = Audible' \cup {WatchdogWarning'}
  BY DEF Sounding, Audible

\* A request changes gdolib's target only: the opener stays as ready as it was.
LEMMA ReadyKept ==
  ASSUME TypeOK, UNCHANGED opener
                 \/ \E target \in {"OPEN", "CLOSED"}, ok \in BOOLEAN :
                      SendDoorRequest(target, ok)
  PROVE  UNCHANGED OpenerReady
<1>1. CASE UNCHANGED opener
  BY <1>1 DEF OpenerReady
<1>2. CASE \E target \in {"OPEN", "CLOSED"}, ok \in BOOLEAN : SendDoorRequest(target, ok)
  <2>1. PICK target \in {"OPEN", "CLOSED"}, ok \in BOOLEAN : SendDoorRequest(target, ok)
    BY <1>2
  <2>2. opener' \in {opener, [opener EXCEPT !.target = target]}
    BY <2>1 DEF SendDoorRequest
  <2>3. opener'.synced = opener.synced /\ opener'.beam = opener.beam
    BY <2>2 DEF TypeOK, TrackTypeOK
  <2> QED
    BY <2>3 DEF OpenerReady
<1> QED
  BY <1>1, <1>2

\* One more generation silences everything that sounded.
LEMMA DisturbEndsAll ==
  ASSUME TypeOK, DisturbAll, UNCHANGED <<OpenerReady, last_close>>
  PROVE  Promise!Next
<1>1. Audible' = {}
  BY DisturbedFrom DEF TypeOK, WarningTypeOK, DisturbAll, Audible
<1>2. ~WatchdogWarns'
  BY DEF DisturbAll, WatchdogWarns
<1>3. Sounding' = {}
  BY <1>1, <1>2, AudibleOnly
<1> QED
  BY <1>3 DEF Promise!Next, Promise!Disturb, Promise!AllNew

\* A step that disturbs, arms and ends no warning.
LEMMA SilentStep ==
  ASSUME UNCHANGED <<warnings, OpenerReady, last_close>>,
         UNCHANGED <<WatchdogWarns, WatchdogWarning>> \/ ~(WatchdogWarns \/ WatchdogWarns')
  PROVE  UNCHANGED Promise!promiseVars
<1>1. Sounding' = Sounding
  BY DEF Sounding
<1> QED
  BY <1>1 DEF Promise!promiseVars

\* A warning of age zero that is armed beside the others.
LEMMA ArmStarts ==
  ASSUME NEW w, w.age = 0, w.quiet = TRUE, warnings' = warnings \cup {w},
         ~WatchdogWarns, ~WatchdogWarns', UNCHANGED <<OpenerReady, last_close>>
  PROVE  Promise!Next
<1>1. Audible' = Audible \cup {w}
  BY DEF Audible
<1>2. Sounding' = Sounding \cup {w}
  BY <1>1, AudibleOnly
<1> QED
  BY <1>2 DEF Promise!Next, Promise!Start, Promise!AllNew

\* The end of a warning that sounded: its close, or nothing.
LEMMA WarningIsSpent ==
  ASSUME TypeOK, NEW w \in warnings, warnings' = warnings \ {w},
         UNCHANGED <<wdVars, wd_quiet, OpenerReady>>,
         \/ UNCHANGED last_close
         \/ w.quiet /\ OpenerReady /\ w.age >= WarnTicks
            /\ last_close'.count = last_close.count + 1
  PROVE  [Promise!Next]_Promise!promiseVars
<1>1. WatchdogWarns' = WatchdogWarns /\ WatchdogWarning' = WatchdogWarning
  BY DEF wdVars, WatchdogWarns, WatchdogWarning
<1>2. w # WatchdogWarning
  BY WatchdogApart
<1>3. Sounding' = Sounding \ {w}
  BY <1>1, <1>2 DEF Sounding
<1>4. w \in Sounding <=> w.quiet
  BY <1>2 DEF Sounding
<1>5. CASE w.quiet /\ UNCHANGED last_close
  BY <1>3, <1>4, <1>5 DEF Promise!Next, Promise!GiveUp
<1>6. CASE ~w.quiet /\ UNCHANGED last_close
  <2>1. w.quiet \in BOOLEAN
    BY DEF TypeOK, WarningTypeOK, Warning
  <2>2. Sounding' = Sounding
    BY <1>3, <1>4, <1>6
  <2> QED
    BY <2>2, <1>6 DEF Promise!promiseVars
<1>7. CASE w.quiet /\ OpenerReady /\ w.age >= WarnTicks
           /\ last_close'.count = last_close.count + 1
  BY <1>3, <1>4, <1>7 DEF Promise!Next, Promise!Close
<1> QED
  BY <1>5, <1>6, <1>7

-----------------------------------------------------------------------------
(* The promise, task by task.                                              *)

LEMMA OpenerPromise ==
  ASSUME IInv, OpenerStep
  PROVE  [Promise!Next]_Promise!promiseVars
<1>1. UNCHANGED <<controlVars, wdVars>>
  BY DEF OpenerStep, OpenerMoves, OpenerBeam, OpenerLink
<1>2. Sounding' = Sounding
  BY <1>1 DEF controlVars, wdVars, Sounding, WatchdogWarns, WatchdogWarning
<1>3. OpenerReady' \in BOOLEAN
  <2>1. opener'.synced \in BOOLEAN
    BY OpenerKeeps DEF IInv, TypeOK, TrackTypeOK
  <2> QED
    BY <2>1 DEF OpenerReady
<1> QED
  BY <1>1, <1>2, <1>3 DEF Promise!Next, Promise!OpenerChanges, controlVars, sendVars

\* set_last_door_state() either disturbs every warning or leaves them alone.
LEMMA DoorStatePromise ==
  ASSUME IInv, NEW new, NEW other \in BOOLEAN, SetLastDoorState(new, other),
         UNCHANGED <<opener, last_close>>,
         UNCHANGED <<pc, lag, snapshot>> \/ (pc # "resend" /\ pc' # "resend")
  PROVE  [Promise!Next]_Promise!promiseVars
<1>1. UNCHANGED <<OpenerReady, last_close>>
  BY DEF OpenerReady
<1>2. CASE new # last_door \/ (other /\ new = "PARTWAY")
  BY <1>1, <1>2, DisturbEndsAll DEF SetLastDoorState, IInv
<1>3. CASE ~(new # last_door \/ (other /\ new = "PARTWAY"))
  <2>1. UNCHANGED <<warnings, wd_quiet>>
    BY <1>3 DEF SetLastDoorState
  <2> QED
    BY <1>1, <2>1, SilentStep DEF WatchdogWarns, WatchdogWarning
<1> QED
  BY <1>2, <1>3

LEMMA EventPromise ==
  ASSUME IInv, EventStep
  PROVE  [Promise!Next]_Promise!promiseVars
<1>1. CASE DoorPositionEvent
  <2>1. PICK d \in InferredDoors, other \in BOOLEAN : SetLastDoorState(d, other)
    BY <1>1 DEF DoorPositionEvent
  <2> QED
    BY <1>1, <2>1, DoorStatePromise DEF DoorPositionEvent, sendVars, wdVars
<1>2. CASE MotorEvent
  BY <1>2, DoorStatePromise DEF MotorEvent, sendVars, wdVars
<1>3. CASE ObstructionEvent \/ ButtonEvent
  <2>1. DisturbAll /\ UNCHANGED <<OpenerReady, last_close>>
    BY <1>3 DEF ObstructionEvent, ButtonEvent, sendVars, OpenerReady
  <2> QED
    BY <2>1, DisturbEndsAll DEF IInv
<1> QED
  BY <1>1, <1>2, <1>3 DEF EventStep

LEMMA SettingsPromise ==
  ASSUME IInv, SettingsStep
  PROVE  [Promise!Next]_Promise!promiseVars
<1>1. CASE SettingSaved
  <2>1. DisturbAll /\ UNCHANGED <<OpenerReady, last_close>>
    BY <1>1 DEF SettingSaved, sendVars, OpenerReady
  <2> QED
    BY <2>1, DisturbEndsAll DEF IInv
<1>2. CASE WindowChanges
  BY <1>2, SilentStep DEF WindowChanges, sendVars, wdVars, OpenerReady, WatchdogWarns,
     WatchdogWarning
<1> QED
  BY <1>1, <1>2 DEF SettingsStep, SetPreCloseBuzzer, SetAutoCloseTimeout,
     SetAutoCloseEnabled, SetCloseSchedule

\* Open silences everything; Close does too, and starts a warning of its own.
LEMMA HomeKitPromise ==
  ASSUME IInv, HomeKitStep
  PROVE  [Promise!Next]_Promise!promiseVars
<1>1. CASE ControlOpen
  <2>1. UNCHANGED OpenerReady
    BY <1>1, ReadyKept, OutcomesAreBoolean DEF ControlOpen, IInv
  <2> QED
    BY <1>1, <2>1, DisturbEndsAll DEF ControlOpen, IInv
<1>2. CASE ControlClose
  <2> DEFINE n == [by |-> "user", gen |-> close_generation + 1,
                   cmd |-> door_command_id, age |-> 0, quiet |-> TRUE]
  <2>1. PICK ok \in BOOLEAN : warnings' = Disturbed(warnings) \cup (IF ok THEN {n} ELSE {})
    BY <1>2, OutcomesAreBoolean DEF ControlClose
  <2>2. UNCHANGED <<OpenerReady, last_close>> /\ ~WatchdogWarns'
    BY <1>2 DEF ControlClose, sendVars, OpenerReady, WatchdogWarns
  <2>3. n.age = 0 /\ n.by = "user" /\ n.gen = close_generation + 1
    OBVIOUS
  <2> HIDE DEF n
  <2>4. \A w \in Sounding' : w = n
    <3>1. \A w \in Disturbed(warnings) : ~w.quiet
      BY DisturbedFrom DEF IInv, TypeOK, WarningTypeOK
    <3> QED
      BY <2>1, <2>2, <3>1 DEF Sounding
  <2>5. n \notin Sounding
    <3>1. n \notin warnings
      BY <2>3 DEF IInv, TypeOK, WarningTypeOK, Warning, WarningsAreDated
    <3>2. n # WatchdogWarning
      BY <2>3 DEF WatchdogWarning
    <3> QED
      BY <3>1, <3>2 DEF Sounding
  <2> QED
    BY <2>2, <2>3, <2>4, <2>5 DEF Promise!Next, Promise!Disturb, Promise!AllNew
<1> QED
  BY <1>1, <1>2 DEF HomeKitStep

(***************************************************************************)
(* When a warning task decides to close, its warning was still sounding:   *)
(* nothing of a newer generation, hence nothing since it was armed.        *)
(***************************************************************************)
LEMMA WarningPromise ==
  ASSUME IInv, WarningStep
  PROVE  [Promise!Next]_Promise!promiseVars
<1> USE DEF IInv
<1>1. PICK w \in warnings :
        UserWarningEnds(w) \/ AutoWarningEnds(w) \/ SchedWarningEnds(w)
  BY DEF WarningStep
<1>2. warnings' = warnings \ {w} /\ UNCHANGED <<wdVars, wd_quiet>> /\ w.age >= WarnTicks
  BY <1>1 DEF UserWarningEnds, AutoWarningEnds, SchedWarningEnds
<1>3. UNCHANGED OpenerReady
  <2>1. UNCHANGED opener \/ (\E ok \in Outcomes : SendDoorRequest("CLOSED", ok))
    BY <1>1 DEF UserWarningEnds, AutoWarningEnds, SchedWarningEnds
  <2> QED
    BY <2>1, ReadyKept, OutcomesAreBoolean
<1>4. \/ UNCHANGED last_close
      \/ OpenerReady /\ w.gen = close_generation /\ last_close' = Circumstances(w)
  <2>1. CASE UserWarningEnds(w)
    BY <2>1 DEF UserWarningEnds, UserCloseStands, sendVars
  <2>2. CASE AutoWarningEnds(w)
    BY <2>2 DEF AutoWarningEnds, StillOpenAndClear, OneAutoWarning, sendVars
  <2>3. CASE SchedWarningEnds(w)
    BY <2>3 DEF SchedWarningEnds, StillOpenAndClear, SchedulePendingIsAWarning, sendVars
  <2> QED
    BY <1>1, <2>1, <2>2, <2>3
<1>5. w.gen = close_generation => w.quiet
  BY DEF WarningsAreDated
<1>6. last_close' = Circumstances(w) => last_close'.count = last_close.count + 1
  BY DEF Circumstances
<1> QED
  BY <1>2, <1>3, <1>4, <1>5, <1>6, WarningIsSpent

\* The watchdog's own warning starts at age zero: the pass took no time so far.
LEMMA RetryPromise ==
  ASSUME IInv, PassIsPrompt, CheckRetry
  PROVE  [Promise!Next]_Promise!promiseVars
<1>1. /\ ~WatchdogWarns /\ lag' = 0
      /\ UNCHANGED <<warnings, OpenerReady, last_close>>
  BY DEF CheckRetry, PassIsPrompt, WatchdogWarns, sendVars, OpenerReady
<1>2. CASE ~WatchdogWarns'
  BY <1>1, <1>2, SilentStep
<1>3. CASE WatchdogWarns'
  <2>1. Sounding' = Sounding \cup {WatchdogWarning'}
    BY <1>1, <1>3, AudibleOnly DEF Audible
  <2>2. WatchdogWarning'.age = 0
    BY <1>1 DEF WatchdogWarning
  <2> QED
    BY <1>1, <2>1, <2>2 DEF Promise!Next, Promise!Start, Promise!AllNew
<1> QED
  BY <1>2, <1>3

\* A close that is sent again ends the warning that announced the retry.
LEMMA ResendPromise ==
  ASSUME IInv, RetryResends
  PROVE  [Promise!Next]_Promise!promiseVars
<1>1. ~WatchdogWarns' /\ UNCHANGED <<warnings, OpenerReady>>
  BY DEF RetryResends, WatchdogWarns, OpenerReady
<1>2. CASE ~WatchdogWarns
  <2>1. RetryStands => snapshot.target # "CLOSED"
    BY <1>2 DEF IInv, RetryResends, RetryStands, WarningsAreDated, WatchdogWarns
  <2>2. UNCHANGED last_close
    BY <2>1 DEF RetryResends
  <2> QED
    BY <1>1, <1>2, <2>2, SilentStep
<1>3. CASE WatchdogWarns
  <2>1. WatchdogWarning \in Sounding /\ Sounding' = Sounding \ {WatchdogWarning}
    BY <1>1, <1>3, AudibleOnly, WatchdogApart DEF Audible, IInv
  <2>2. \/ UNCHANGED last_close
        \/ OpenerReady /\ lag >= WarnTicks /\ last_close'.count = last_close.count + 1
    BY <1>3 DEF RetryResends, RetryStands, OpenerReady, WatchdogWarns
  <2>3. CASE UNCHANGED last_close
    BY <1>1, <2>1, <2>3 DEF Promise!Next, Promise!GiveUp
  <2>4. CASE OpenerReady /\ lag >= WarnTicks /\ last_close'.count = last_close.count + 1
    <3>1. WatchdogWarning.age >= WarnTicks
      BY <2>4 DEF WatchdogWarning
    <3> QED
      BY <1>1, <2>1, <2>4, <3>1 DEF Promise!Next, Promise!Close
  <2> QED
    BY <2>2, <2>3, <2>4
<1> QED
  BY <1>2, <1>3

LEMMA WatchdogPromise ==
  ASSUME IInv, PassIsPrompt, WatchdogStep
  PROVE  [Promise!Next]_Promise!promiseVars
<1>1. CASE WatchdogLook
  <2>1. UNCHANGED <<controlVars, opener>> /\ ~WatchdogWarns /\ ~WatchdogWarns'
    BY <1>1 DEF WatchdogLook, WatchdogWakes, CheckTransit, CheckAutoClose, AbandonPass,
       SkipSchedule, WatchdogWarns
  <2> QED
    BY <2>1, SilentStep DEF controlVars, sendVars, OpenerReady
<1>2. CASE ResolveTransit
  <2>1. PICK d \in (IF snapshot.door \in {"OPEN", "CLOSED"} THEN {snapshot.door}
                    ELSE {"OPEN", "CLOSED", "PARTWAY"}), other \in BOOLEAN :
          SetLastDoorState(d, other)
    BY <1>2 DEF ResolveTransit
  <2> QED
    BY <1>2, <2>1, DoorStatePromise DEF ResolveTransit, sendVars
<1>3. CASE ArmAutoClose \/ FireSchedule
  <2>1. /\ ~WatchdogWarns /\ ~WatchdogWarns'
        /\ UNCHANGED <<OpenerReady, last_close>>
    BY <1>3 DEF ArmAutoClose, FireSchedule, WatchdogWarns, sendVars, OpenerReady
  <2>2. \/ UNCHANGED warnings
        \/ \E who \in {"auto", "sched"} :
             warnings' = warnings \cup
               {[by |-> who, gen |-> close_generation, cmd |-> door_command_id,
                 age |-> 0, quiet |-> TRUE]}
    BY <1>3 DEF ArmAutoClose, FireSchedule
  <2>3. CASE UNCHANGED warnings
    BY <2>1, <2>3, SilentStep
  <2>4. ASSUME NEW who \in {"auto", "sched"},
               warnings' = warnings \cup
                 {[by |-> who, gen |-> close_generation, cmd |-> door_command_id,
                   age |-> 0, quiet |-> TRUE]}
        PROVE  [Promise!Next]_Promise!promiseVars
    <3> DEFINE w == [by |-> who, gen |-> close_generation, cmd |-> door_command_id,
                     age |-> 0, quiet |-> TRUE]
    <3>1. w.age = 0 /\ w.quiet = TRUE /\ warnings' = warnings \cup {w}
      BY <2>4
    <3> HIDE DEF w
    <3> QED
      BY <2>1, <3>1, ArmStarts
  <2> QED
    BY <2>2, <2>3, <2>4
<1> QED
  BY <1>1, <1>2, <1>3, RetryPromise, ResendPromise DEF WatchdogStep, WatchdogLook

WatchdogRecord == [by : {"watchdog"}, gen : Nat, cmd : Nat, age : Nat, quiet : BOOLEAN]

\* One tick changes the age of the watchdog's warning and nothing else.
LEMMA OlderWatchdogWarning ==
  ASSUME NEW w \in WatchdogRecord
  PROVE  [w EXCEPT !.age = @ + 1] =
           [by |-> w.by, gen |-> w.gen, cmd |-> w.cmd, age |-> w.age + 1,
            quiet |-> w.quiet]
  BY DEF WatchdogRecord

LEMMA TickPromise ==
  ASSUME IInv, Tick
  PROVE  [Promise!Next]_Promise!promiseVars
<1> DEFINE Older(w) == [w EXCEPT !.age = @ + 1]
<1>1. warnings' = { Older(w) : w \in warnings } /\ UNCHANGED <<OpenerReady, last_close>>
  BY DEF Tick, sendVars, OpenerReady
<1>2. \A w \in warnings : Older(w).quiet = w.quiet
  BY OlderWarning DEF Tick, IInv, TypeOK, WarningTypeOK
<1>3. WatchdogWarns => WatchdogWarning' = Older(WatchdogWarning)
  <2>1. WatchdogWarns => snapshot' = snapshot /\ lag' = lag + 1
    BY DEF Tick, WatchdogWarns
  <2>2. /\ WatchdogWarning \in WatchdogRecord
        /\ WatchdogWarning.by = "watchdog" /\ WatchdogWarning.gen = snapshot.gen
        /\ WatchdogWarning.cmd = 0 /\ WatchdogWarning.age = lag
        /\ WatchdogWarning.quiet = TRUE
    BY DEF WatchdogWarning, WatchdogRecord, IInv, TypeOK, WatchdogTypeOK, Snapshot
  <2>3. Older(WatchdogWarning) =
          [by |-> "watchdog", gen |-> snapshot.gen, cmd |-> 0, age |-> lag + 1,
           quiet |-> TRUE]
    BY <2>2, OlderWatchdogWarning
  <2>4. WatchdogWarns =>
          WatchdogWarning' = [by |-> "watchdog", gen |-> snapshot.gen, cmd |-> 0,
                              age |-> lag + 1, quiet |-> TRUE]
    BY <2>1 DEF WatchdogWarning
  <2> QED
    BY <2>3, <2>4
<1>4. WatchdogWarns' = WatchdogWarns
  BY DEF Tick, WatchdogWarns
<1> HIDE DEF Older
<1>5. Audible' = { Older(w) : w \in Audible }
  BY <1>1, <1>2 DEF Audible
<1>6. Sounding' = { Older(w) : w \in Sounding }
  BY <1>3, <1>4, <1>5, AudibleOnly
<1> QED
  BY <1>1, <1>6 DEF Promise!Next, Promise!Sound, Older

(***************************************************************************)
(* The control core implements GuardedClose: every behaviour of its tasks, *)
(* seen through what sounds, is one of the promise, for all timings within *)
(* the assumptions.                                                        *)
(***************************************************************************)
THEOREM PromiseIsKept == Spec => KeepsPromise
<1>1. Init => Promise!Init
  BY DEF Init, Promise!Init, Sounding, WatchdogWarns, OpenerReady
<1>2. IInv /\ PassIsPrompt /\ [Next]_vars => [Promise!Next]_Promise!promiseVars
  <2>1. ASSUME UNCHANGED vars
        PROVE  UNCHANGED Promise!promiseVars
    BY <2>1 DEF vars, sendVars, wdVars, Promise!promiseVars, Sounding, WatchdogWarns,
       WatchdogWarning, OpenerReady
  <2> QED
    BY <2>1, OpenerPromise, EventPromise, HomeKitPromise, WarningPromise,
       SettingsPromise, WatchdogPromise, TickPromise DEF Next
<1> QED
  BY <1>1, <1>2, Invariance, PromptPass, PTL DEF Spec, KeepsPromise, Promise!Spec

=============================================================================
