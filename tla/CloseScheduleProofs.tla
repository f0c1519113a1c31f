------------------------ MODULE CloseScheduleProofs ------------------------
(***************************************************************************)
(* Proofs about CloseSchedule: which window the scheduled close fires in,  *)
(* for a day of any number of minutes, ticks of any length, any minutes,   *)
(* zones and steps of the clock, any number of edits and reboots.          *)
(***************************************************************************)
EXTENDS CloseSchedule, TLAPS

-----------------------------------------------------------------------------
(* Division with remainder.                                                *)

LEMMA DivMod ==
  ASSUME NEW a \in Int, NEW b \in Nat, b > 0
  PROVE  a \div b \in Int /\ a % b \in 0..(b - 1) /\ a = b * (a \div b) + (a % b)
  OBVIOUS

LEMMA MultiplesInOrder ==
  ASSUME NEW k \in Nat, NEW p \in Int, NEW q \in Int
  PROVE  /\ p <= q => k * p <= k * q
         /\ k > 0 /\ k * p < k * q + k => p <= q
  OBVIOUS

LEMMA Distributes ==
  ASSUME NEW k \in Int, NEW p \in Int, NEW q \in Int
  PROVE  /\ k * p \in Int /\ p * k = k * p
         /\ k * (p + q) = k * p + k * q /\ k * (p - q) = k * p - k * q
         /\ k * (p + 1) = k * p + k /\ k * (p - 1) = k * p - k
  OBVIOUS

\* Quotient and remainder are the only ones of their kind.
LEMMA DivModUnique ==
  ASSUME NEW b \in Nat, b > 0, NEW q \in Int, NEW r \in 0..(b - 1)
  PROVE  (b * q + r) \div b = q /\ (b * q + r) % b = r
<1> DEFINE a == b * q + r
           p == a \div b
           s == a % b
<1>1. b * q \in Int /\ a \in Int
  BY Distributes
<1>2. p \in Int /\ s \in 0..(b - 1) /\ a = b * p + s
  BY <1>1, DivMod
<1>3. b * p \in Int /\ b * p < b * q + b /\ b * q < b * p + b
  BY <1>1, <1>2, Distributes
<1> HIDE DEF p
<1>4. p <= q /\ q <= p
  BY <1>2, <1>3, MultiplesInOrder
<1>5. p = q
  BY <1>2, <1>4
<1> HIDE DEF s
<1>6. s = r
  BY <1>1, <1>2, <1>5
<1> QED BY <1>5, <1>6 DEF p, s

\* Counting on from x, the remainder grows until it comes to 0.
LEMMA RemainderGrows ==
  ASSUME NEW b \in Nat, b > 0, NEW x \in Int, NEW d \in Nat,
         \A i \in 1..d : (x + i) % b # 0
  PROVE  (x + d) % b = (x % b) + d
<1> DEFINE q == x \div b
           r == x % b
<1>1. q \in Int /\ r \in 0..(b - 1) /\ x = b * q + r /\ b * q \in Int
  BY DivMod, Distributes
<1> HIDE DEF q, r
<1>2. r + d < b
  <2> SUFFICES ASSUME r + d >= b PROVE FALSE
    BY <1>1
  <2>1. b - r \in 1..d
    BY <1>1
  <2>2. x + (b - r) = b * (q + 1) + 0
    BY <1>1, Distributes
  <2>3. (b * (q + 1) + 0) % b = 0
    <3>1. q + 1 \in Int /\ 0 \in 0..(b - 1)
      BY <1>1
    <3> QED BY <3>1, DivModUnique
  <2> QED BY <2>1, <2>2, <2>3
<1>3. r + d \in 0..(b - 1)
  BY <1>1, <1>2
<1>4. x + d = b * q + (r + d)
  BY <1>1
<1> QED BY <1>1, <1>3, <1>4, DivModUnique DEF r

-----------------------------------------------------------------------------
(* The clock face.                                                         *)

LEMMA DayTicksType ==
  /\ DayTicks \in Nat /\ DayTicks > 0 /\ DayTicks = Grain * DayMin
  /\ DayMin \in Nat /\ DayMin > 0 /\ Grain \in Nat /\ Grain > 0
  /\ Window \in Nat /\ Window > 0 /\ Window * Grain \in Nat
  BY TimeAssumption DEF DayTicks

(***************************************************************************)
(* What the minutes of the clock say of a scheduled minute m when the      *)
(* local time is t: they count down the whole minutes since it began, and  *)
(* tell the day its window belongs to.                                     *)
(***************************************************************************)
LEMMA ClockFace ==
  ASSUME NEW t \in Int, NEW m \in 0..(DayMin - 1)
  PROVE  LET nowMin == (t \div Grain) % DayMin
             since == (nowMin + DayMin - m) % DayMin
         IN  /\ since \in Nat
             /\ \E g \in 0..(Grain - 1) : Into(m, t) = since * Grain + g
             /\ (t - m * Grain) \div DayTicks =
                  IF nowMin >= m THEN t \div DayTicks ELSE (t \div DayTicks) - 1
<1> DEFINE u == t \div Grain
           g == t % Grain
           day == u \div DayMin
           n == u % DayMin
           since == (n + DayMin - m) % DayMin
<1>1. u \in Int /\ g \in 0..(Grain - 1) /\ t = Grain * u + g
  BY DivMod, DayTicksType
<1>2. day \in Int /\ n \in 0..(DayMin - 1) /\ u = DayMin * day + n
  BY <1>1, DivMod, DayTicksType
<1> HIDE DEF u, g, day, n
<1>3. Grain * u = DayTicks * day + Grain * n
  <2>1. DayMin * day \in Int /\ n \in Int /\ Grain \in Int /\ DayMin \in Int
    BY <1>2, DayTicksType, Distributes
  <2>2. Grain * (DayMin * day + n) = Grain * (DayMin * day) + Grain * n
    BY <2>1, Distributes
  <2>3. Grain * (DayMin * day) = (Grain * DayMin) * day
    BY <1>2, <2>1
  <2> QED BY <1>2, <2>2, <2>3, DayTicksType
<1>4. \A k \in 0..(DayMin - 1) : Grain * k + g \in 0..(DayTicks - 1)
  <2> SUFFICES ASSUME NEW k \in 0..(DayMin - 1) PROVE Grain * k + g \in 0..(DayTicks - 1)
    OBVIOUS
  <2>1. 0 <= k /\ k <= DayMin - 1 /\ k \in Int /\ DayMin \in Int /\ Grain \in Int
    BY DayTicksType
  <2>2. Grain * 0 <= Grain * k /\ Grain * k <= Grain * (DayMin - 1)
    BY <2>1, MultiplesInOrder, DayTicksType
  <2>3. Grain * (DayMin - 1) = DayTicks - Grain /\ Grain * 0 = 0 /\ Grain * k \in Int
    BY <2>1, Distributes, DayTicksType
  <2> QED BY <1>1, <2>2, <2>3, DayTicksType
<1>5. t = DayTicks * day + (Grain * n + g)
  BY <1>1, <1>2, <1>3, Distributes, DayTicksType
<1>6. t \div DayTicks = day
  BY <1>2, <1>4, <1>5, DivModUnique, DayTicksType
<1>7. m * Grain = Grain * m /\ Grain * m \in Int /\ Grain * n \in Int /\ DayTicks * day \in Int
  BY <1>2, Distributes, DayTicksType
<1>8. CASE n >= m
  <2>1. n - m \in 0..(DayMin - 1) /\ n + DayMin - m = DayMin * 1 + (n - m)
    BY <1>2, <1>8, DayTicksType
  <2>2. since = n - m
    BY <2>1, DivModUnique, DayTicksType
  <2>3. Grain * (n - m) = Grain * n - Grain * m
    BY <1>2, Distributes, DayTicksType
  <2>4. t - m * Grain = DayTicks * day + (Grain * (n - m) + g)
    BY <1>1, <1>5, <1>7, <2>3
  <2> DEFINE r == Grain * (n - m) + g
  <2>r. r \in 0..(DayTicks - 1)
    BY <1>4, <2>1
  <2> HIDE DEF r
  <2>d. (DayTicks * day + r) % DayTicks = r /\ (DayTicks * day + r) \div DayTicks = day
    BY <1>2, <2>r, DivModUnique, DayTicksType
  <2>5. (t - m * Grain) % DayTicks = Grain * (n - m) + g /\ (t - m * Grain) \div DayTicks = day
    BY <2>4, <2>d DEF r
  <2>6. Grain * (n - m) = (n - m) * Grain
    BY <2>1, Distributes, DayTicksType
  <2> QED BY <1>1, <1>6, <1>8, <2>1, <2>2, <2>5, <2>6 DEF Into, n, u
<1>9. CASE n < m
  <2>1. n + DayMin - m \in 0..(DayMin - 1) /\ n + DayMin - m = DayMin * 0 + (n + DayMin - m)
    BY <1>2, <1>9, DayTicksType
  <2>2. since = n + DayMin - m
    BY <2>1, DivModUnique, DayTicksType
  <2>3. Grain * (n + DayMin - m) = Grain * n + DayTicks - Grain * m
    BY <1>2, Distributes, DayTicksType
  <2>4. DayTicks * (day - 1) = DayTicks * day - DayTicks
    BY <1>2, Distributes, DayTicksType
  <2>5. t - m * Grain = DayTicks * (day - 1) + (Grain * (n + DayMin - m) + g)
    BY <1>1, <1>5, <1>7, <2>3, <2>4, DayTicksType
  <2> DEFINE r == Grain * (n + DayMin - m) + g
  <2>r. r \in 0..(DayTicks - 1) /\ day - 1 \in Int
    BY <1>2, <1>4, <2>1
  <2> HIDE DEF r
  <2>d. /\ (DayTicks * (day - 1) + r) % DayTicks = r
        /\ (DayTicks * (day - 1) + r) \div DayTicks = day - 1
    BY <2>r, DivModUnique, DayTicksType
  <2>6. /\ (t - m * Grain) % DayTicks = Grain * (n + DayMin - m) + g
        /\ (t - m * Grain) \div DayTicks = day - 1
    BY <2>5, <2>d DEF r
  <2>7. Grain * (n + DayMin - m) = (n + DayMin - m) * Grain
    BY <2>1, Distributes, DayTicksType
  <2> QED BY <1>1, <1>2, <1>6, <1>9, <2>1, <2>2, <2>6, <2>7 DEF Into, n, u
<1> QED BY <1>2, <1>8, <1>9

-----------------------------------------------------------------------------
(* The windows of a schedule.                                              *)

LEMMA MinuteType ==
  ASSUME NEW m \in Minutes
  PROVE  m \in 0..(DayMin - 1) /\ m * Grain \in Nat /\ m * Grain <= DayTicks - Grain
<1>1. m \in 0..(DayMin - 1) /\ m \in Int /\ DayMin - 1 \in Int
  BY TimeAssumption
<1>2. Grain * m \in Int /\ m * Grain = Grain * m /\ Grain * 0 <= Grain * m
      /\ Grain * m <= Grain * (DayMin - 1) /\ Grain * (DayMin - 1) = DayTicks - Grain
  BY <1>1, Distributes, MultiplesInOrder, DayTicksType
<1> QED BY <1>1, <1>2, DayTicksType

LEMMA IntoType ==
  ASSUME NEW m \in Minutes, NEW local \in Int
  PROVE  Into(m, local) \in 0..(DayTicks - 1)
<1>1. local - m * Grain \in Int
  BY MinuteType
<1> QED BY <1>1, DivMod, DayTicksType DEF Into

\* Unless the clock passes the start of m, the time into it grows with the clock.
LEMMA IntoGrows ==
  ASSUME NEW m \in Minutes, NEW local \in Int, NEW d \in Nat, d > 0,
         ~Passes(m, local, d)
  PROVE  Into(m, local + d) = Into(m, local) + d
<1> DEFINE x == local - m * Grain
<1>1. x \in Int /\ m * Grain \in Int
  BY MinuteType
<1>2. \A i \in Int : (local + i) - m * Grain = x + i
  BY <1>1
<1> HIDE DEF x
<1>3. \A i \in Int : Into(m, local + i) = (x + i) % DayTicks
  BY <1>2 DEF Into
<1>4. \A i \in 1..d : (x + i) % DayTicks # 0
  <2>1. \A i \in 1..d : Into(m, local + i) # 0
    BY DEF Passes
  <2> QED BY <2>1, <1>3
<1>5. (x + d) % DayTicks = (x % DayTicks) + d
  BY <1>1, <1>4, RemainderGrows, DayTicksType
<1>6. Into(m, local) = x % DayTicks
  BY DEF Into, x
<1> QED BY <1>3, <1>5, <1>6

LEMMA LocalType ==
  TypeOK => /\ Local \in Int /\ Local >= DayTicks + now /\ now \in Nat /\ shift \in Int
            /\ \A z \in Zones : /\ LocalTick(now, z) \in Int
                               /\ LocalTick(now, z) >= DayTicks + now
            /\ sched.minute \in Minutes /\ sched.zone \in Zones
<1> SUFFICES ASSUME TypeOK PROVE LocalType!2
  OBVIOUS
<1>1. now \in Nat /\ sched.minute \in Minutes /\ sched.zone \in Zones
  BY TimeAssumption DEF TypeOK, Schedules
<1>2. shift \in Int /\ \A z \in Zones : z + shift >= DayTicks /\ z \in Nat
  <2>1. CASE shift \in {0} \cup StepsOn
    BY <2>1, TimeAssumption, DayTicksType
  <2>2. CASE \E d \in StepsBack : shift = -d
    BY <2>2, TimeAssumption, DayTicksType
  <2> QED BY <2>1, <2>2 DEF TypeOK, Steps
<1>3. \A z \in Zones : LocalTick(now, z) \in Int /\ LocalTick(now, z) >= DayTicks + now
  BY <1>1, <1>2, DayTicksType DEF LocalTick
<1> QED BY <1>1, <1>2, <1>3 DEF Local

\* The day that close_schedule_window_day() names is that of the window the clock is in,
\* and its minutes are those since the window began.
LEMMA WindowOfTheFace ==
  ASSUME TypeOK
  PROVE  /\ WindowDay(sched.minute) = CurrentWindow /\ CurrentWindow \in Nat
         /\ Since(sched.minute) \in Nat /\ Since(sched.minute) * Grain \in Nat
         /\ (Since(sched.minute) + 1) * Grain = Since(sched.minute) * Grain + Grain
         /\ \E g \in 0..(Grain - 1) :
              Into(sched.minute, Local) = Since(sched.minute) * Grain + g
<1> DEFINE m == sched.minute
           x == Local - m * Grain
<1>1. m \in Minutes /\ m \in 0..(DayMin - 1) /\ Local \in Int /\ x \in Int /\ x >= 0
  BY LocalType, MinuteType, DayTicksType
<1>2. /\ Since(m) \in Nat
      /\ \E g \in 0..(Grain - 1) : Into(m, Local) = Since(m) * Grain + g
      /\ x \div DayTicks = WindowDay(m)
  <2> HIDE DEF m
  <2> QED BY <1>1, ClockFace DEF Since, NowMin, WindowDay, Today
<1> HIDE DEF m, x
<1>3. x \div DayTicks \in Nat
  <2>1. x \div DayTicks \in Int /\ x < DayTicks * (x \div DayTicks) + DayTicks
    <3>1. /\ x \div DayTicks \in Int /\ x % DayTicks \in 0..(DayTicks - 1)
          /\ x = DayTicks * (x \div DayTicks) + (x % DayTicks)
      BY <1>1, DivMod, DayTicksType
    <3>2. DayTicks * (x \div DayTicks) \in Int
      BY <3>1, Distributes, DayTicksType
    <3> QED BY <3>1, <3>2, DayTicksType
  <2>2. DayTicks * 0 = 0 /\ DayTicks * (x \div DayTicks) \in Int
    BY <2>1, Distributes, DayTicksType
  <2>3. 0 <= x \div DayTicks
    BY <1>1, <2>1, <2>2, MultiplesInOrder, DayTicksType
  <2> QED BY <2>1, <2>3
<1>4. /\ Since(m) * Grain \in Nat
      /\ (Since(m) + 1) * Grain = Since(m) * Grain + Grain
  <2>1. Since(m) * Grain = Grain * Since(m) /\ Grain * 0 <= Grain * Since(m) /\ Grain * 0 = 0
    BY <1>2, Distributes, MultiplesInOrder, DayTicksType
  <2>2. Grain * Since(m) \in Int /\ (Since(m) + 1) * Grain = Grain * (Since(m) + 1)
        /\ Grain * (Since(m) + 1) = Grain * Since(m) + Grain
    <3>1. Since(m) \in Int /\ Since(m) + 1 \in Int /\ Grain \in Int
      BY <1>2, DayTicksType
    <3> QED BY <3>1, Distributes
  <2> QED BY <2>1, <2>2
<1> QED BY <1>2, <1>3, <1>4 DEF CurrentWindow, m, x

-----------------------------------------------------------------------------
(* When each minute began.                                                 *)

LEMMA RebegunIsKnown ==
  ASSUME NEW t \in Nat, NEW local \in Int, NEW m \in Minutes
  PROVE  /\ t - Into(m, local) \in Int /\ t - Into(m, local) <= t
         /\ t - (t - Into(m, local)) = Into(m, local)
  BY IntoType, DayTicksType

LEMMA RebegunType ==
  ASSUME TypeOK, NEW local \in Int
  PROVE  /\ Rebegun(local) \in [Minutes -> Int]
         /\ \A m \in Minutes : /\ Rebegun(local)[m] <= now
                              /\ now - Rebegun(local)[m] = Into(m, local)
<1>1. \A m \in Minutes : /\ LastBegan(m, local) \in Int /\ LastBegan(m, local) <= now
                         /\ now - LastBegan(m, local) = Into(m, local)
  BY RebegunIsKnown, LocalType DEF LastBegan
<1> QED BY <1>1 DEF Rebegun

LEMMA BegunByType ==
  ASSUME TypeOK, NEW t \in Int, NEW d
  PROVE  BegunBy(d, t) \in [Minutes -> Int]
  BY DEF BegunBy, TypeOK

LEMMA InitIInv ==
  ASSUME Init
  PROVE  IInv
<1>1. TypeOK
  <2>1. now = 0 /\ shift = 0 /\ Local \in Int /\ sched \in Schedules
    BY TimeAssumption DEF Init, Local, LocalTick, Schedules
  <2>2. began \in [Minutes -> Int]
    <3>1. \A m \in Minutes : LastBegan(m, Local) \in Int
      BY <2>1, RebegunIsKnown DEF LastBegan
    <3> QED BY <3>1 DEF Init, Rebegun
  <2>3. nvs \in [sched : Schedules, day : Nat]
    BY <2>1 DEF Init
  <2>4. /\ opened_at \in {Never} \cup 0..now
        /\ open_since \in {Never} \cup 0..now
        /\ open_since # Never /\ ~missed => opened_at \in 0..open_since
    BY <2>1 DEF Init, Never
  <2>5. synced \in BOOLEAN /\ missed \in BOOLEAN
    BY Zenon DEF Init
  <2>7. /\ now \in 0..Horizon /\ shift \in Steps \cup {0}
        /\ edits \in 0..MaxEdits /\ reboots \in 0..MaxReboots
    <3>1. now = 0 /\ shift = 0 /\ edits = 0 /\ reboots = 0
      BY DEF Init
    <3> QED BY <3>1, TimeAssumption, FaultAssumption
  <2>6. /\ last_day \in Nat /\ previous_day \in Nat /\ fired \in SUBSET Int
        /\ checked \in {"no", "yes", "failed"}
        /\ stage \in {"idle", "reserved", "armed", "cancelled"}
        /\ opener \in {"boot", "unsynced", "hindered", "ready"}
    BY DEF Init
  <2> QED BY <2>1, <2>2, <2>3, <2>4, <2>5, <2>6, <2>7 DEF TypeOK
<1>2. BeginningsAreKnown
  <2>1. Local \in Int /\ began = Rebegun(Local)
    BY <1>1, LocalType DEF Init
  <2> QED BY <1>1, <2>1, RebegunType, IntoType, DayTicksType DEF BeginningsAreKnown
<1>3. OpennessIsKnown /\ ReservedForAnOpenDoor /\ EligibleWindowFires
  BY DEF Init, OpennessIsKnown, InSync, ReservedForAnOpenDoor, EligibleWindowFires
<1> QED BY <1>1, <1>2, <1>3 DEF IInv

-----------------------------------------------------------------------------
(* The types.                                                              *)

LEMMA SchedType ==
  ASSUME NEW e \in BOOLEAN, NEW m \in Minutes, NEW z \in Zones
  PROVE  [enabled |-> e, minute |-> m, zone |-> z] \in Schedules
  BY DEF Schedules

LEMMA NvsType ==
  ASSUME TypeOK, NEW s \in Schedules, NEW day \in Nat, Saves(s, day) \/ SaveFails(s, day)
  PROVE  nvs' \in [sched : Schedules, day : Nat]
  BY DEF Saves, SaveFails, TypeOK

\* No step of the door or the opener touches the clock and the settings, and none comes
\* between the reservation and the warning.
LEMMA DoorFrame ==
  ASSUME DoorStep
  PROVE  /\ stage # "reserved" /\ checked' = "no" /\ stage' \in {stage, "cancelled"}
         /\ UNCHANGED <<now, shift, synced, sched, last_day, nvs, previous_day, fired, edits,
                       reboots, began>>
  BY DEF DoorStep, DoorOpens, DoorCloses, DoorGuessed, OpenerSyncs, OpenerChanges, Hears,
     ClosesUnheard, GuardFree, Cancelled, clockVars, schedVars, fireVars

\* Without a closing unheard, the firmware's time starts no earlier than the door's.
LEMMA HearsType ==
  ASSUME TypeOK, NEW door \in {Never} \cup 0..now, Hears(door),
         open_since # Never /\ ~missed /\ door # Never => door <= open_since
  PROVE  /\ open_since' \in {Never} \cup 0..now /\ missed' \in BOOLEAN
         /\ open_since' # Never /\ ~missed' => door \in 0..open_since'
         /\ open_since' = Never <=> door = Never
<1>1. now \in Nat /\ open_since \in {Never} \cup 0..now /\ missed \in BOOLEAN
  BY LocalType DEF TypeOK
<1>2. /\ open_since' = IF door = Never THEN Never
                        ELSE IF open_since = Never THEN now ELSE open_since
      /\ missed' = (missed /\ open_since' = open_since)
  BY DEF Hears
<1>3. missed' \in BOOLEAN /\ (~missed' => ~missed \/ open_since' # open_since)
  BY <1>1, <1>2
<1>4. CASE door = Never
  BY <1>2, <1>3, <1>4
<1>5. CASE door # Never /\ open_since = Never
  BY <1>1, <1>2, <1>3, <1>5 DEF Never
<1>6. CASE door # Never /\ open_since # Never
  BY <1>1, <1>2, <1>3, <1>6 DEF Never
<1> QED BY <1>4, <1>5, <1>6

LEMMA DoorTypeStep ==
  ASSUME TypeOK, OpennessIsKnown, DoorStep
  PROVE  /\ opened_at' \in {Never} \cup 0..now /\ open_since' \in {Never} \cup 0..now
         /\ missed' \in BOOLEAN
         /\ open_since' # Never /\ ~missed' => opened_at' \in 0..open_since'
         /\ opener' \in {"boot", "unsynced", "hindered", "ready"}
         /\ OpennessIsKnown'
<1>1. /\ now \in Nat /\ opened_at \in {Never} \cup 0..now
      /\ open_since \in {Never} \cup 0..now /\ missed \in BOOLEAN
      /\ open_since # Never /\ ~missed => opened_at \in 0..open_since
      /\ opener \in {"boot", "unsynced", "hindered", "ready"}
  BY LocalType DEF TypeOK
<1>2. CASE DoorOpens
  <2>1. opened_at = Never /\ opened_at' = now /\ opener' = opener /\ now # Never
    BY <1>1, <1>2 DEF DoorOpens, Never
  <2>2. CASE InSync
    <3>1. Hears(now) /\ open_since = Never
      BY <1>2, <2>1, <2>2 DEF DoorOpens, OpennessIsKnown
    <3> QED BY <1>1, <2>1, <2>2, <3>1, HearsType DEF OpennessIsKnown, InSync
  <2>3. CASE ~InSync
    <3>1. UNCHANGED <<open_since, missed>>
      BY <1>2, <2>3 DEF DoorOpens
    <3>2. open_since # Never => missed
      BY <1>1, <2>1 DEF Never
    <3> QED BY <1>1, <2>1, <2>3, <3>1, <3>2 DEF OpennessIsKnown, InSync
  <2> QED BY <2>2, <2>3
<1>3. CASE DoorCloses
  <2>1. opened_at' = Never /\ opener' = opener
    BY <1>3 DEF DoorCloses
  <2>2. CASE InSync
    <3>1. Hears(Never)
      BY <1>3, <2>2 DEF DoorCloses
    <3> QED BY <1>1, <2>1, <2>2, <3>1, HearsType DEF OpennessIsKnown, InSync
  <2>3. CASE ~InSync
    <3>1. open_since' = open_since /\ missed' = (open_since # Never)
      BY <1>3, <2>3 DEF DoorCloses, ClosesUnheard
    <3> QED BY <1>1, <2>1, <2>3, <3>1 DEF OpennessIsKnown, InSync
  <2> QED BY <2>2, <2>3
<1>4. CASE DoorGuessed
  <2>1. /\ open_since' \in {Never, now} /\ missed' = (open_since' # Never /\ opened_at = Never)
        /\ opened_at' = opened_at /\ opener' = opener /\ opener = "unsynced"
    BY <1>4 DEF DoorGuessed
  <2>2. missed' \in BOOLEAN /\ ~InSync' /\ opener' # "boot"
    BY <2>1 DEF InSync
  <2>3. open_since' \in {Never} \cup 0..now
    BY <1>1, <2>1
  <2>4. ASSUME open_since' # Never, ~missed' PROVE opened_at' \in 0..open_since'
    <3>1. open_since' = now /\ opened_at # Never
      BY <2>1, <2>4
    <3> QED BY <1>1, <2>1, <3>1
  <2> QED BY <1>1, <2>1, <2>2, <2>3, <2>4 DEF OpennessIsKnown
<1>5. CASE OpenerSyncs
  <2>1. Hears(opened_at) /\ opened_at' = opened_at /\ opener' = "ready"
    BY <1>5 DEF OpenerSyncs
  <2>2. open_since # Never /\ ~missed /\ opened_at # Never => opened_at <= open_since
    BY <1>1 DEF Never
  <2> QED BY <1>1, <2>1, <2>2, HearsType DEF OpennessIsKnown
<1>6. CASE OpenerChanges
  <2>1. UNCHANGED <<opened_at, open_since, missed>> /\ InSync
        /\ opener' \in {"hindered", "ready", "unsynced"}
    BY <1>6 DEF OpenerChanges
  <2> QED BY <1>1, <2>1 DEF OpennessIsKnown
<1> QED BY <1>2, <1>3, <1>4, <1>5, <1>6 DEF DoorStep

LEMMA TypeStep ==
  ASSUME TypeOK, OpennessIsKnown, [Next]_vars
  PROVE  TypeOK'
<1> USE DEF TypeOK
<1>0. Local \in Int /\ now \in Nat /\ sched \in Schedules
  BY LocalType, TimeAssumption
<1>1. CASE Tick
  <2>1. now + 1 \in Int /\ now' = now + 1 /\ now' \in 0..Horizon
    BY <1>0, <1>1, TimeAssumption DEF Tick
  <2>2. began' \in [Minutes -> Int]
    BY <1>1, <2>1, BegunByType DEF Tick
  <2>3. /\ opened_at' \in {Never} \cup 0..now'
        /\ open_since' \in {Never} \cup 0..now'
    BY <1>0, <1>1, <2>1 DEF Tick, doorVars
  <2> QED BY <1>1, <2>1, <2>2, <2>3 DEF Tick, schedVars, doorVars, fireVars
<1>2. CASE ClockSteps
  <2>1. began' \in [Minutes -> Int] /\ shift' \in Steps \cup {0}
    BY <1>0, <1>2, BegunByType DEF ClockSteps
  <2> QED BY <1>2, <2>1 DEF ClockSteps, schedVars, doorVars, fireVars
<1>3. CASE ClockSyncs
  BY <1>3 DEF ClockSyncs, schedVars, doorVars, fireVars
<1>4. CASE DoorStep
  BY <1>4, DoorFrame, DoorTypeStep
<1>8. CASE SetCloseSchedule
  <2>1. PICK e \in BOOLEAN, m \in Minutes, z \in Zones :
          LET in == [enabled |-> e, minute |-> m, zone |-> z]
              time_changed == m # sched.minute \/ z # sched.zone
              day == IF time_changed THEN 0 ELSE last_day
          IN /\ fired' = IF time_changed THEN {} ELSE fired
             /\ \/ /\ Saves(in, day)
                   /\ sched' = in /\ last_day' = day
                   /\ stage' = Cancelled /\ checked' = "no"
                   /\ began' = IF z = sched.zone THEN began
                               ELSE Rebegun(LocalTick(now, z))
                \/ /\ SaveFails(in, day)
                   /\ UNCHANGED <<sched, last_day, stage, checked, began>>
    BY <1>8 DEF SetCloseSchedule
  <2> DEFINE in == [enabled |-> e, minute |-> m, zone |-> z]
             day == IF m # sched.minute \/ z # sched.zone THEN 0 ELSE last_day
  <2>2. in \in Schedules /\ day \in Nat /\ LocalTick(now, z) \in Int
    BY SchedType, LocalType
  <2>3. nvs' \in [sched : Schedules, day : Nat]
    BY <2>1, <2>2, NvsType
  <2>4. /\ sched' \in Schedules /\ last_day' \in Nat /\ began' \in [Minutes -> Int]
        /\ stage' \in {"idle", "reserved", "armed", "cancelled"}
        /\ checked' \in {"no", "yes", "failed"} /\ fired' \in SUBSET Int
    <3>1. Rebegun(LocalTick(now, z)) \in [Minutes -> Int]
      BY <2>2, RebegunType
    <3> QED BY <2>1, <2>2, <3>1 DEF Cancelled
  <2>5. edits' \in 0..MaxEdits
    BY <1>8, FaultAssumption DEF SetCloseSchedule
  <2> QED BY <1>8, <2>3, <2>4, <2>5 DEF SetCloseSchedule, clockVars, doorVars
<1>9. CASE Reboot
  <2>1. nvs.sched \in Schedules /\ nvs.day \in Nat /\ nvs.sched.zone \in Zones
    BY DEF Schedules
  <2>2. Rebegun(LocalTick(now, nvs.sched.zone)) \in [Minutes -> Int]
    BY <2>1, LocalType, RebegunType
  <2>3. reboots' \in 0..MaxReboots
    BY <1>9, FaultAssumption DEF Reboot
  <2> QED BY <1>9, <2>1, <2>2, <2>3 DEF Reboot
<1>10. CASE DoesNotFire
  BY <1>10 DEF DoesNotFire, clockVars, schedVars, doorVars, fireVars
<1>11. CASE ReserveDay
  <2>1. WindowDay(sched.minute) \in Nat
    BY WindowOfTheFace
  <2>2. nvs' \in [sched : Schedules, day : Nat]
    BY <1>0, <1>11, <2>1, NvsType DEF ReserveDay
  <2> QED BY <1>11, <2>1, <2>2 DEF ReserveDay, clockVars, doorVars
<1>12. CASE StartWarning
  <2>1. fired' \in SUBSET Int
    <3>1. CurrentWindow \in Int
      BY WindowOfTheFace
    <3> HIDE DEF TypeOK
    <3>2. fired' = fired \cup {CurrentWindow} /\ fired \in SUBSET Int
      BY <1>12 DEF StartWarning, TypeOK
    <3> QED BY <3>1, <3>2
  <2> QED BY <1>12, <2>1 DEF StartWarning, clockVars, schedVars, doorVars
<1>13. CASE WarningFails
  <2>1. nvs' \in [sched : Schedules, day : Nat]
    BY <1>0, <1>13, NvsType DEF WarningFails
  <2> QED BY <1>13, <2>1 DEF WarningFails, clockVars, doorVars
<1>14. CASE WarningEnds
  BY <1>14 DEF WarningEnds, clockVars, schedVars, doorVars
<1>15. CASE UNCHANGED vars
  BY <1>15 DEF vars, clockVars, schedVars, doorVars, fireVars
<1> QED
  BY <1>1, <1>2, <1>3, <1>4, <1>8, <1>9, <1>10, <1>11, <1>12, <1>13, <1>14, <1>15 DEF Next

-----------------------------------------------------------------------------
(* What is known of the beginnings is kept by every step of the clock.     *)

\* Moving on by d, and being shown where the clock then stands.
LEMMA BegunByForward ==
  ASSUME TypeOK, BeginningsAreKnown, NEW d \in Nat, d > 0, NEW t \in Int, NEW m \in Minutes
  PROVE  /\ BegunBy(d, t)[m] \in {t, began[m]}
         /\ Into(m, Local + d) \in Nat
         /\ BegunBy(d, t)[m] = t
            \/ /\ BegunBy(d, t)[m] = began[m]
               /\ Into(m, Local + d) = Into(m, Local) + d
<1>1. Local \in Int /\ Local + d \in Int
  BY LocalType
<1>2. Into(m, Local + d) \in Nat
  BY <1>1, IntoType, DayTicksType
<1>3. CASE Passes(m, Local, d)
  BY <1>2, <1>3 DEF BegunBy
<1>4. CASE ~Passes(m, Local, d)
  BY <1>1, <1>2, <1>4, IntoGrows DEF BegunBy
<1> QED BY <1>3, <1>4

LEMMA BeginningsStay ==
  ASSUME BeginningsAreKnown, UNCHANGED <<now, shift, began>>, sched'.zone = sched.zone
  PROVE  BeginningsAreKnown'
<1>1. Local' = Local
  BY DEF Local, LocalTick
<1> QED BY <1>1 DEF BeginningsAreKnown

LEMMA BeginningsStep ==
  ASSUME TypeOK, BeginningsAreKnown, [Next]_vars
  PROVE  BeginningsAreKnown'
<1>0. /\ Local \in Int /\ now \in Nat /\ sched.zone \in Int /\ shift \in Int
      /\ \A m \in Minutes : began[m] \in Int /\ Into(m, Local) \in Nat
  BY LocalType, IntoType, DayTicksType, TimeAssumption DEF TypeOK
<1>1. CASE Tick
  <2>1. Local' = Local + 1
    BY <1>0, <1>1 DEF Tick, Local, LocalTick, schedVars
  <2>2. SUFFICES ASSUME NEW m \in Minutes
        PROVE /\ began'[m] <= now'
              /\ shift' >= 0 => now' - began'[m] <= Into(m, Local')
              /\ shift' = 0 => now' - began'[m] = Into(m, Local')
    BY DEF BeginningsAreKnown
  <2>3. now' = now + 1 /\ shift' = shift /\ began' = BegunBy(1, now + 1) /\ now + 1 \in Int
    BY <1>0, <1>1 DEF Tick
  <2>4. /\ began[m] <= now
        /\ shift >= 0 => now - began[m] <= Into(m, Local)
        /\ shift = 0 => now - began[m] = Into(m, Local)
    BY DEF BeginningsAreKnown
  <2>5. /\ Into(m, Local + 1) \in Nat
        /\ \/ BegunBy(1, now + 1)[m] = now + 1
           \/ /\ BegunBy(1, now + 1)[m] = began[m]
              /\ Into(m, Local + 1) = Into(m, Local) + 1
    BY <2>3, BegunByForward
  <2>6. CASE began'[m] = now + 1
    <3>1. Into(m, Local + 1) = 0 \/ began[m] = now + 1
      BY <2>3, <2>6 DEF BegunBy, Passes
    <3> QED BY <1>0, <2>1, <2>3, <2>4, <2>5, <2>6, <3>1
  <2>7. CASE began'[m] = began[m] /\ Into(m, Local + 1) = Into(m, Local) + 1
    BY <1>0, <2>1, <2>3, <2>4, <2>7
  <2> QED BY <2>3, <2>5, <2>6, <2>7
<1>2. CASE ClockSteps
  <2>1. PICK d \in Steps : shift' = d /\ began' = BegunBy(d, now)
    BY <1>2 DEF ClockSteps
  <2>2. shift = 0 /\ now' = now /\ sched' = sched
    BY <1>2 DEF ClockSteps, schedVars
  <2>3. SUFFICES ASSUME NEW m \in Minutes
        PROVE /\ began'[m] <= now'
              /\ shift' >= 0 => now' - began'[m] <= Into(m, Local')
              /\ shift' = 0 => now' - began'[m] = Into(m, Local')
    BY DEF BeginningsAreKnown
  <2>4. began[m] <= now /\ now - began[m] = Into(m, Local)
    BY <2>2 DEF BeginningsAreKnown
  <2>5. CASE d \in StepsOn
    <3>1. d \in Nat /\ d > 0 /\ Local' = Local + d
      BY <1>0, <2>1, <2>2, <2>5, TimeAssumption DEF Local, LocalTick
    <3>2. /\ Into(m, Local + d) \in Nat
          /\ \/ BegunBy(d, now)[m] = now
             \/ /\ BegunBy(d, now)[m] = began[m]
                /\ Into(m, Local + d) = Into(m, Local) + d
      BY <1>0, <3>1, BegunByForward
    <3> QED BY <1>0, <2>1, <2>2, <2>4, <3>1, <3>2
  <2>6. CASE \E s \in StepsBack : d = -s
    <3>1. d \in Int /\ d < 0
      BY <2>6, TimeAssumption
    <3>2. BegunBy(d, now)[m] \in {now, began[m]}
      BY DEF BegunBy
    <3> QED BY <1>0, <2>1, <2>2, <2>4, <3>1, <3>2
  <2> QED BY <2>5, <2>6 DEF Steps
<1>3. CASE SetCloseSchedule
  <2>1. now' = now /\ shift' = shift
    BY <1>3 DEF SetCloseSchedule, clockVars
  <2>2. CASE began' = began /\ sched'.zone = sched.zone
    BY <2>1, <2>2, BeginningsStay
  <2>3. CASE /\ sched'.zone \in Zones
             /\ began' = Rebegun(LocalTick(now, sched'.zone))
    <3> DEFINE l == LocalTick(now, sched'.zone)
    <3>1. l \in Int /\ Local' = l
      BY <2>1, <2>3, LocalType DEF Local, LocalTick
    <3> HIDE DEF l
    <3>2. began' = Rebegun(l)
      BY <2>3 DEF l
    <3>3. \A m \in Minutes : /\ Rebegun(l)[m] <= now
                            /\ now - Rebegun(l)[m] = Into(m, l) /\ Into(m, l) \in Nat
      BY <3>1, RebegunType, IntoType, DayTicksType
    <3> QED BY <2>1, <3>1, <3>2, <3>3 DEF BeginningsAreKnown
  <2>4. \/ began' = began /\ sched' = sched
        \/ \E e \in BOOLEAN, m \in Minutes, z \in Zones :
             /\ sched' = [enabled |-> e, minute |-> m, zone |-> z]
             /\ began' = IF z = sched.zone THEN began ELSE Rebegun(LocalTick(now, z))
    BY <1>3 DEF SetCloseSchedule
  <2> QED BY <2>2, <2>3, <2>4
<1>4. CASE Reboot
  <2>1. /\ now' = now /\ shift' = shift /\ sched' = nvs.sched /\ nvs.sched.zone \in Zones
        /\ began' = IF nvs.sched.zone = sched.zone THEN began
                    ELSE Rebegun(LocalTick(now, nvs.sched.zone))
    BY <1>4 DEF Reboot, TypeOK, Schedules
  <2>2. CASE nvs.sched.zone = sched.zone
    BY <2>1, <2>2, BeginningsStay
  <2>3. CASE nvs.sched.zone # sched.zone
    <3> DEFINE l == LocalTick(now, nvs.sched.zone)
    <3>1. l \in Int /\ Local' = l
      BY <2>1, LocalType DEF Local, LocalTick
    <3>2. began' = Rebegun(l)
      BY <2>1, <2>3
    <3> HIDE DEF l
    <3>3. \A m \in Minutes : /\ Rebegun(l)[m] <= now
                            /\ now - Rebegun(l)[m] = Into(m, l) /\ Into(m, l) \in Nat
      BY <3>1, RebegunType, IntoType, DayTicksType
    <3> QED BY <2>1, <3>1, <3>2, <3>3 DEF BeginningsAreKnown
  <2> QED BY <2>2, <2>3
<1>5. CASE UNCHANGED <<now, shift, sched, began>>
  BY <1>5, BeginningsStay
<1>6. \/ Tick \/ ClockSteps \/ SetCloseSchedule \/ Reboot
      \/ UNCHANGED <<now, shift, sched, began>>
  BY DoorFrame DEF Next, vars, ClockSyncs, DoesNotFire, ReserveDay, StartWarning, WarningFails, WarningEnds, clockVars, schedVars
<1> QED BY <1>1, <1>2, <1>3, <1>4, <1>5, <1>6

-----------------------------------------------------------------------------
(* The check and the firing.                                               *)

\* When the check passes, the door was open when the window began: the minutes of the
\* clock are rounded up.
LEMMA PassingCheck ==
  ASSUME TypeOK, BeginningsAreKnown, MayFire
  PROVE  /\ open_since # Never /\ opened_at # Never /\ last_day # CurrentWindow
         /\ shift >= 0 => open_since < began[sched.minute]
<1> DEFINE m == sched.minute
           k == Since(m) * Grain
<1>1. /\ ShouldFire(m) /\ m \in Minutes /\ now \in Nat /\ Local \in Int /\ shift \in Int
      /\ began[m] \in Int
  BY LocalType DEF MayFire, TypeOK
<1>2. PICK g \in 0..(Grain - 1) : Into(m, Local) = k + g
  BY WindowOfTheFace
<1>3. /\ WindowDay(m) = CurrentWindow /\ k \in Nat
      /\ (Since(m) + 1) * Grain = k + Grain
  BY WindowOfTheFace
<1> HIDE DEF k, m
<1>4. OpenFor > 0 /\ OpenFor >= k + Grain /\ last_day # CurrentWindow
  BY <1>1, <1>3 DEF ShouldFire
<1>5. /\ open_since # Never /\ opened_at # Never
      /\ OpenFor = now - open_since /\ open_since \in Nat
  BY <1>4 DEF OpenFor, TypeOK, Never
<1>6. shift >= 0 => now - began[m] <= Into(m, Local)
  BY <1>1 DEF BeginningsAreKnown
<1>7. shift >= 0 => open_since < began[m]
  BY <1>1, <1>2, <1>3, <1>4, <1>5, <1>6, DayTicksType
<1> QED BY <1>4, <1>5, <1>7 DEF m

LEMMA ReservedStep ==
  ASSUME TypeOK, BeginningsAreKnown, ReservedForAnOpenDoor, [Next]_vars
  PROVE  ReservedForAnOpenDoor'
<1> USE DEF ReservedForAnOpenDoor
<1>1. CASE ReserveDay
  <2>1. /\ MayFire /\ checked = "no" /\ UNCHANGED <<shift, sched, began, open_since, opened_at>>
        /\ checked' = "no" \/ stage' = stage
    BY <1>1 DEF ReserveDay, clockVars, doorVars
  <2>2. /\ stage = "idle" /\ open_since # Never /\ opened_at # Never
        /\ shift >= 0 => open_since < began[sched.minute]
    BY <2>1, PassingCheck DEF MayFire
  <2> QED BY <2>1, <2>2
<1>2. CASE UNCHANGED vars
  BY <1>2 DEF vars, clockVars, doorVars, fireVars, schedVars
<1>3. CASE Tick \/ ClockSteps \/ ClockSyncs \/ DoesNotFire
  BY <1>3 DEF Tick, ClockSteps, ClockSyncs, DoesNotFire, GuardFree, fireVars
<1>4. CASE DoorStep
  BY <1>4, DoorFrame
<1>5. CASE SetCloseSchedule
  BY <1>5 DEF SetCloseSchedule, GuardFree, Cancelled
<1>6. CASE Reboot \/ StartWarning \/ WarningFails \/ WarningEnds
  BY <1>6 DEF Reboot, StartWarning, WarningFails, WarningEnds
<1> QED BY <1>1, <1>2, <1>3, <1>4, <1>5, <1>6 DEF Next

\* The watchdog had its turn, the window stands open and the check did not pass: its day
\* is recorded already.
LEMMA QuietCheck ==
  ASSUME TypeOK, BeginningsAreKnown, ~MayFire,
         shift = 0, synced, opener = "ready", sched.enabled, stage = "idle",
         opened_at # Never,
         now < began[sched.minute] + Window * Grain,
         open_since # Never, open_since + Grain <= began[sched.minute]
  PROVE  last_day = CurrentWindow
<1> DEFINE m == sched.minute
           k == Since(m) * Grain
<1>1. /\ m \in Minutes /\ now \in Nat /\ Local \in Int /\ began[m] \in Int
      /\ open_since \in Nat
  BY LocalType DEF TypeOK, Never
<1>2. PICK g \in 0..(Grain - 1) : Into(m, Local) = k + g
  BY WindowOfTheFace
<1>3. /\ WindowDay(m) = CurrentWindow /\ k \in Nat /\ Since(m) \in Nat
      /\ (Since(m) + 1) * Grain = k + Grain
  BY WindowOfTheFace
<1>4. now - began[m] = Into(m, Local)
  BY <1>1 DEF BeginningsAreKnown
<1>5. k < Window * Grain
  <2> HIDE DEF k, m
  <2>1. now < began[m] + Window * Grain
    BY DEF m
  <2> QED BY <1>1, <1>2, <1>3, <1>4, <2>1, DayTicksType
<1>6. Since(m) < Window
  <2>1. SUFFICES ASSUME Window <= Since(m) PROVE FALSE
    BY <1>3, DayTicksType
  <2>2. Grain * Window <= Grain * Since(m) /\ Grain * Window = Window * Grain
        /\ Grain * Since(m) = k /\ Grain * Window \in Int
    <3>1. Window \in Int /\ Since(m) \in Int /\ Grain \in Nat /\ Grain \in Int
      BY <1>3, DayTicksType
    <3> QED BY <2>1, <3>1, MultiplesInOrder, Distributes
  <2> QED BY <1>3, <1>5, <2>2
<1>7. OpenFor > 0 /\ OpenFor >= (Since(m) + 1) * Grain
  <2>1. open_since + Grain <= began[m] /\ OpenFor = now - open_since
    BY DEF OpenFor
  <2> HIDE DEF k, m
  <2> QED BY <1>1, <1>2, <1>3, <1>4, <2>1, DayTicksType
<1> HIDE DEF k
<1>8. ~ShouldFire(m)
  BY DEF MayFire
<1> QED BY <1>3, <1>6, <1>7, <1>8 DEF ShouldFire

LEMMA EligibleStep ==
  ASSUME TypeOK, BeginningsAreKnown, OpennessIsKnown, EligibleWindowFires, [Next]_vars
  PROVE  EligibleWindowFires'
<1>1. CASE DoesNotFire
  <2>1. /\ ~MayFire
        /\ UNCHANGED <<now, shift, synced, opener, sched, stage, began, open_since, last_day>>
    BY <1>1 DEF DoesNotFire, clockVars, schedVars, doorVars, fireVars
  <2>2. CurrentWindow' = CurrentWindow
    BY <2>1 DEF CurrentWindow, Local, LocalTick
  <2>3. opener = "ready" /\ open_since # Never => opened_at # Never
    BY DEF OpennessIsKnown, InSync
  <2> QED BY <2>1, <2>2, <2>3, QuietCheck DEF EligibleWindowFires
<1>2. CASE UNCHANGED vars \/ (SetCloseSchedule /\ UNCHANGED <<sched, last_day, stage, checked, began>>)
  <2>1. UNCHANGED <<now, shift, synced, opener, sched, stage, began, open_since, last_day,
                    checked>>
    BY <1>2 DEF vars, SetCloseSchedule, clockVars, schedVars, doorVars, fireVars
  <2>2. CurrentWindow' = CurrentWindow
    BY <2>1 DEF CurrentWindow, Local, LocalTick
  <2> QED BY <2>1, <2>2 DEF EligibleWindowFires
<1>3. CASE checked' # "yes" \/ stage' # "idle"
  BY <1>3 DEF EligibleWindowFires
<1>4. \/ DoesNotFire \/ UNCHANGED vars \/ checked' # "yes" \/ stage' # "idle"
      \/ SetCloseSchedule /\ UNCHANGED <<sched, last_day, stage, checked, began>>
  BY DoorFrame DEF Next, Tick, ClockSteps, ClockSyncs, SetCloseSchedule, Reboot, ReserveDay,
     StartWarning, WarningFails, WarningEnds
<1> QED BY <1>1, <1>2, <1>3, <1>4

\* Reading, saving and the clock leave alone what is known of the door; a reboot
\* forgets it.
LEMMA OpennessStep ==
  ASSUME TypeOK, OpennessIsKnown, [Next]_vars
  PROVE  OpennessIsKnown'
<1>1. CASE DoorStep
  BY <1>1, DoorTypeStep
<1>2. CASE Reboot
  BY <1>2 DEF Reboot, OpennessIsKnown, InSync
<1>3. CASE UNCHANGED doorVars
  BY <1>3 DEF doorVars, OpennessIsKnown, InSync
<1>4. DoorStep \/ Reboot \/ UNCHANGED doorVars
  BY DEF Next, vars, Tick, ClockSteps, ClockSyncs, SetCloseSchedule, DoesNotFire, ReserveDay,
     StartWarning, WarningFails, WarningEnds
<1> QED BY <1>1, <1>2, <1>3, <1>4

(***************************************************************************)
(* The inductive invariant holds in every state.                           *)
(***************************************************************************)
THEOREM Invariance == Spec => []IInv
<1>1. Init => IInv
  BY InitIInv
<1>2. IInv /\ [Next]_vars => IInv'
  BY TypeStep, BeginningsStep, OpennessStep, ReservedStep, EligibleStep DEF IInv
<1> QED BY <1>1, <1>2, PTL DEF Spec

(***************************************************************************)
(* Every variable keeps its type, and the firmware never believes the door *)
(* to have been open for longer than it has, unless a closing of it went   *)
(* unheard while the opener was out of sync.                               *)
(***************************************************************************)
THEOREM TypeCorrect == Spec => []TypeOK
<1>1. IInv => TypeOK
  BY DEF IInv
<1> QED BY <1>1, Invariance, PTL

(***************************************************************************)
(* A night is not missed: once the watchdog has had its turn in a tick of  *)
(* the window, a door known open since a minute before it has the window   *)
(* reserved.                                                               *)
(***************************************************************************)
THEOREM EligibleFires == Spec => []EligibleWindowFires
<1>1. IInv => EligibleWindowFires
  BY DEF IInv
<1> QED BY <1>1, Invariance, PTL

(***************************************************************************)
(* The schedule fires only on an open door that the firmware believes to   *)
(* have been open since before the scheduled minute, and that has been, if *)
(* no closing of it went unheard; unless the clock was stepped back.       *)
(***************************************************************************)
THEOREM OpenBefore == Spec => FiresOnlyIfOpenBefore
<1>1. IInv /\ [Next]_vars =>
        [Fires /\ shift >= 0 =>
              /\ opened_at # Never /\ open_since < began[sched.minute]
              /\ ~missed => opened_at < began[sched.minute]]_vars
  <2> SUFFICES ASSUME IInv, [Next]_vars, Fires, shift >= 0
               PROVE /\ opened_at # Never /\ open_since < began[sched.minute]
                     /\ ~missed => opened_at < began[sched.minute]
    OBVIOUS
  <2>1. StartWarning
    BY DoorFrame DEF Fires, Next, vars, Tick, ClockSteps, ClockSyncs, SetCloseSchedule, Reboot,
       DoesNotFire, ReserveDay, StartWarning, WarningFails, WarningEnds, Cancelled, fireVars
  <2>2. /\ open_since # Never /\ open_since < began[sched.minute]
        /\ opened_at # Never
    BY <2>1 DEF StartWarning, IInv, ReservedForAnOpenDoor
  <2>3. /\ open_since \in Nat /\ (~missed => opened_at \in 0..open_since)
        /\ began[sched.minute] \in Int
    BY <2>2, LocalType DEF IInv, TypeOK, Never
  <2> QED BY <2>2, <2>3
<1> QED BY <1>1, Invariance, PTL DEF Spec, FiresOnlyIfOpenBefore

-----------------------------------------------------------------------------
(* The recorded days.                                                      *)

LEMMA ScheduleType ==
  ASSUME NEW s \in Schedules
  PROVE  /\ s.zone \in Nat /\ s.zone >= DayTicks /\ s.minute * Grain \in Nat
         /\ s.minute * Grain <= DayTicks - Grain
  BY MinuteType, TimeAssumption DEF Schedules

LEMMA FurthestType ==
  ASSUME TypeOK, NEW s \in Schedules
  PROVE  Furthest(s) \in Nat
<1>1. /\ s.zone \in Nat /\ s.zone >= DayTicks /\ s.minute * Grain \in Nat
      /\ s.minute * Grain <= DayTicks - Grain
  BY ScheduleType
<1>2. now \in Nat /\ shift \in Int
  BY LocalType
<1> DEFINE k == s.minute * Grain
<1>3. k \in Nat /\ k <= DayTicks - Grain /\ DayTicks \in Nat /\ Grain \in Nat
  BY <1>1, DayTicksType
<1> HIDE DEF k
<1>4. s.zone - k \in Nat
  BY <1>1, <1>3
<1> QED BY <1>2, <1>4 DEF Furthest, k

\* The window the clock is in, and how far it is into it.
LEMMA WindowAndPlace ==
  ASSUME TypeOK
  PROVE  /\ CurrentWindow \in Nat /\ DayTicks * CurrentWindow \in Nat
         /\ Into(sched.minute, Local) \in 0..(DayTicks - 1)
         /\ Furthest(sched) =
              DayTicks * CurrentWindow + Into(sched.minute, Local)
                + (IF shift < 0 THEN -shift ELSE 0)
<1> DEFINE k == sched.minute * Grain
           x == Local - k
<1>1. /\ Local \in Int /\ k \in Nat /\ now \in Nat /\ shift \in Int /\ sched.zone \in Nat
      /\ CurrentWindow \in Nat /\ sched \in Schedules
      /\ Into(sched.minute, Local) \in 0..(DayTicks - 1)
  BY LocalType, MinuteType, WindowOfTheFace, IntoType, TimeAssumption DEF TypeOK
<1>2. x \in Int /\ CurrentWindow = x \div DayTicks /\ Into(sched.minute, Local) = x % DayTicks
  BY <1>1 DEF CurrentWindow, Into
<1>3. x = now + (sched.zone - k) + shift
  BY <1>1 DEF Local, LocalTick
<1> HIDE DEF k, x
<1>4. x = DayTicks * CurrentWindow + Into(sched.minute, Local)
  BY <1>2, DivMod, DayTicksType
<1>5. DayTicks * CurrentWindow \in Nat
  <2>1. /\ DayTicks * CurrentWindow \in Int
        /\ DayTicks * 0 <= DayTicks * CurrentWindow /\ DayTicks * 0 = 0
    BY <1>1, DayTicksType, Distributes, MultiplesInOrder
  <2> QED BY <2>1
<1>6. Furthest(sched) = now + (sched.zone - k) + (IF shift > 0 THEN shift ELSE 0)
  BY DEF Furthest, k
<1>7. Furthest(sched) = x + (IF shift < 0 THEN -shift ELSE 0)
  BY <1>1, <1>3, <1>6
<1> QED BY <1>1, <1>4, <1>5, <1>7

\* The window the clock stands in is reached; and when the check passes no later one has
\* been, so that the recorded day is an earlier one.
LEMMA ReservedDayIsNew ==
  ASSUME StepsBackAreSmall, IInv, MayFire, Reached(last_day, sched)
  PROVE  last_day < CurrentWindow
<1> DEFINE m == sched.minute
           into == Into(m, Local)
           back == IF shift < 0 THEN -shift ELSE 0
           k == Since(m) * Grain
<1>1. TypeOK /\ BeginningsAreKnown /\ shift \in Int /\ last_day \in Nat
  BY LocalType DEF IInv, TypeOK
<1>2. /\ CurrentWindow \in Nat /\ DayTicks * CurrentWindow \in Nat
      /\ into \in 0..(DayTicks - 1)
      /\ Furthest(sched) = DayTicks * CurrentWindow + into + back
  BY <1>1, WindowAndPlace
<1>3. back + Window * Grain <= DayTicks /\ back \in Nat
  <2>1. shift >= 0 \/ \E d \in StepsBack : shift = -d
    BY <1>1, TimeAssumption DEF TypeOK, Steps
  <2>2. CASE shift >= 0
    <3>1. Window \in Int /\ Grain \in Nat /\ DayMin \in Int /\ Window <= DayMin
          /\ Window * Grain = Grain * Window
      BY TimeAssumption, DayTicksType, Distributes
    <3>2. Grain * Window <= Grain * DayMin
      BY <3>1, MultiplesInOrder
    <3>3. back = 0
      BY <1>1, <2>2
    <3> QED BY <3>1, <3>2, <3>3, DayTicksType
  <2>3. CASE \E d \in StepsBack : shift = -d
    BY <1>1, <2>3, TimeAssumption, DayTicksType DEF StepsBackAreSmall
  <2> QED BY <2>1, <2>2, <2>3
<1>4. into < Window * Grain
  <2>1. ShouldFire(m)
    BY DEF MayFire
  <2>2. PICK g \in 0..(Grain - 1) : into = k + g
    BY <1>1, WindowOfTheFace
  <2>3. k \in Nat /\ Since(m) \in Nat /\ (Since(m) + 1) * Grain = k + Grain
    BY <1>1, WindowOfTheFace
  <2>4. Since(m) + 1 <= Window
    BY <2>1, <2>3, DayTicksType DEF ShouldFire
  <2>5. /\ Grain * (Since(m) + 1) <= Grain * Window
        /\ Grain * (Since(m) + 1) = (Since(m) + 1) * Grain /\ Grain * Window = Window * Grain
    <3>1. Since(m) + 1 \in Int /\ Window \in Int /\ Grain \in Nat /\ Grain \in Int
      BY <2>3, DayTicksType
    <3> QED BY <2>4, <3>1, MultiplesInOrder, Distributes
  <2> HIDE DEF k, into
  <2> QED BY <2>2, <2>3, <2>5, DayTicksType
<1>5. last_day # CurrentWindow
  BY <1>1, PassingCheck
<1> HIDE DEF into, back
<1>6. DayTicks * last_day < DayTicks * CurrentWindow + DayTicks
  <2>1. DayTicks * last_day <= Furthest(sched) /\ DayTicks * last_day \in Int
    BY <1>1, DayTicksType, Distributes DEF Reached
  <2> QED BY <1>2, <1>3, <1>4, <2>1, DayTicksType
<1>7. last_day <= CurrentWindow
  BY <1>1, <1>2, <1>6, DayTicksType, MultiplesInOrder
<1> QED BY <1>1, <1>2, <1>5, <1>7

LEMMA SumsInOrder ==
  ASSUME NEW n \in Int, NEW p \in Int, n <= p, NEW a \in Int, NEW b \in Int, a <= b,
         NEW c \in Int, NEW x, x = n + c + a, NEW y, y = p + c + b
  PROVE  x <= y
  OBVIOUS

\* Reading the settings back, or seeing time pass, no recorded day gets ahead.
LEMMA ReachedStays ==
  ASSUME TypeOK, TypeOK', now' >= now, shift' = shift \/ shift = 0
  PROVE  \A s \in Schedules, day \in Nat : Reached(day, s) => Reached(day, s)'
<1> SUFFICES ASSUME NEW s \in Schedules, NEW day \in Nat, Reached(day, s)
             PROVE Reached(day, s)'
  OBVIOUS
<1> DEFINE c == s.zone - s.minute * Grain
<1>1. c \in Int
  <2>1. s.zone \in Nat /\ s.minute * Grain \in Nat
    BY ScheduleType
  <2> QED BY <2>1
<1>2. /\ Furthest(s) = now + c + (IF shift > 0 THEN shift ELSE 0)
      /\ Furthest(s)' = now' + c + (IF shift' > 0 THEN shift' ELSE 0)
  BY DEF Furthest
<1> HIDE DEF c
<1>3. now \in Int /\ shift \in Int /\ now' \in Int /\ shift' \in Int
  <2>1. now' \in Int /\ shift' \in Int
    BY TimeAssumption DEF TypeOK, Steps
  <2> QED BY <2>1, LocalType
<1>4. /\ Furthest(s) \in Int /\ Furthest(s)' \in Int
      /\ (IF shift > 0 THEN shift ELSE 0) <= (IF shift' > 0 THEN shift' ELSE 0)
  BY <1>1, <1>2, <1>3
<1>5. Furthest(s) <= Furthest(s)'
  <2> DEFINE a == IF shift > 0 THEN shift ELSE 0
             b == IF shift' > 0 THEN shift' ELSE 0
  <2>1. a \in Int /\ b \in Int /\ a <= b /\ now <= now'
    BY <1>3, <1>4
  <2>2. Furthest(s) = now + c + a /\ Furthest(s)' = now' + c + b
    BY <1>2
  <2> HIDE DEF a, b
  <2> QED BY <1>1, <1>3, <2>1, <2>2, SumsInOrder
<1>6. DayTicks * day \in Int
  BY DayTicksType, Distributes
<1>7. DayTicks * day <= Furthest(s)
  BY DEF Reached
<1>8. DayTicks * day <= Furthest(s)'
  BY <1>4, <1>5, <1>6, <1>7
<1> QED BY <1>8 DEF Reached

LEMMA ReachedNow ==
  ASSUME TypeOK
  PROVE  /\ Reached(CurrentWindow, sched)
         /\ \A s \in Schedules : Reached(0, s)
<1>1. Reached(CurrentWindow, sched)
  <2>1. shift \in Int
    BY LocalType
  <2> QED BY <2>1, WindowAndPlace, DayTicksType DEF Reached
<1>2. \A s \in Schedules : Reached(0, s)
  BY FurthestType, DayTicksType DEF Reached
<1> QED BY <1>1, <1>2

LEMMA ReachedOnlyByTime ==
  ASSUME NEW day, NEW s, NEW t, t.minute = s.minute, t.zone = s.zone, Reached(day, s)
  PROVE  Reached(day, t)
  BY DEF Reached, Furthest

LEMMA SameReached ==
  ASSUME UNCHANGED <<now, shift>>
  PROVE  \A day, s : Reached(day, s)' <=> Reached(day, s)
  BY DEF Reached, Furthest

LEMMA DaysStep ==
  ASSUME IInv, TypeOK', DaysAreReached, [Next]_vars
  PROVE  DaysAreReached'
<1>0. /\ TypeOK /\ sched \in Schedules /\ nvs.sched \in Schedules /\ last_day \in Nat
      /\ nvs.day \in Nat /\ previous_day \in Nat /\ now \in Nat
  BY LocalType DEF IInv, TypeOK
<1>1. CASE /\ UNCHANGED <<sched, last_day, nvs, previous_day>> /\ now' >= now
           /\ shift' = shift \/ shift = 0
           /\ stage' = "reserved" => stage = "reserved"
  <2>1. \A s \in Schedules, day \in Nat : Reached(day, s) => Reached(day, s)'
    BY <1>0, <1>1, ReachedStays
  <2>2. PICK s \in Schedules, day \in Nat, u \in Schedules, saved \in Nat, before \in Nat :
          /\ sched = s /\ last_day = day /\ nvs.sched = u /\ nvs.day = saved
          /\ previous_day = before
    BY <1>0
  <2>3. /\ Reached(day, s)' /\ Reached(saved, u)'
        /\ stage = "reserved" => Reached(before, s)'
    BY <2>1, <2>2 DEF DaysAreReached
  <2>4. /\ sched' = s /\ last_day' = day /\ nvs'.sched = u /\ nvs'.day = saved
        /\ previous_day' = before
    BY <1>1, <2>2
  <2> QED BY <1>1, <2>3, <2>4 DEF DaysAreReached, Reached, Furthest
<1>2. ASSUME /\ UNCHANGED <<now, shift>>
             /\ Reached(last_day', sched') /\ Reached(nvs'.day, nvs'.sched)
             /\ stage' = "reserved" => Reached(previous_day', sched')
      PROVE  DaysAreReached'
  BY <1>2 DEF DaysAreReached, Reached, Furthest
<1>3. CASE SetCloseSchedule
  <2>1. PICK e \in BOOLEAN, m \in Minutes, z \in Zones :
          LET in == [enabled |-> e, minute |-> m, zone |-> z]
              time_changed == m # sched.minute \/ z # sched.zone
              day == IF time_changed THEN 0 ELSE last_day
          IN \/ /\ Saves(in, day)
                /\ sched' = in /\ last_day' = day /\ stage' = Cancelled
             \/ /\ SaveFails(in, day)
                /\ UNCHANGED <<sched, last_day, stage>>
    BY <1>3 DEF SetCloseSchedule
  <2> DEFINE in == [enabled |-> e, minute |-> m, zone |-> z]
             day == IF m # sched.minute \/ z # sched.zone THEN 0 ELSE last_day
  <2>2. Reached(day, in)
    <3>1. CASE m # sched.minute \/ z # sched.zone
      BY <1>0, <3>1, ReachedNow, SchedType
    <3>2. CASE ~(m # sched.minute \/ z # sched.zone)
      <4>1. in.minute = sched.minute /\ in.zone = sched.zone /\ day = last_day
        BY <3>2
      <4> HIDE DEF in, day
      <4> QED BY <4>1, ReachedOnlyByTime DEF DaysAreReached
    <3> QED BY <3>1, <3>2
  <2>3. UNCHANGED <<now, shift>> /\ stage' # "reserved"
    BY <1>3, <2>1 DEF SetCloseSchedule, clockVars, GuardFree, Cancelled
  <2>4. nvs' = nvs \/ nvs' = [sched |-> in, day |-> day]
    BY <2>1 DEF Saves, SaveFails
  <2>5. \/ sched' = sched /\ last_day' = last_day
        \/ sched' = in /\ last_day' = day
    BY <2>1
  <2> HIDE DEF in, day
  <2>6. Reached(last_day', sched') /\ Reached(nvs'.day, nvs'.sched)
    BY <2>2, <2>4, <2>5 DEF DaysAreReached
  <2> QED BY <1>2, <2>3, <2>6
<1>4. CASE Reboot
  <2>1. /\ UNCHANGED <<now, shift, nvs>> /\ sched' = nvs.sched /\ last_day' = nvs.day
        /\ stage' = "idle"
    BY <1>4 DEF Reboot
  <2> QED BY <1>2, <2>1 DEF DaysAreReached
<1>5. CASE ReserveDay
  <2>1. /\ UNCHANGED <<now, shift, sched>> /\ stage = "idle"
        /\ \/ /\ nvs' = [sched |-> sched, day |-> CurrentWindow]
              /\ last_day' = CurrentWindow /\ previous_day' = last_day
           \/ /\ nvs' = nvs \/ nvs' = [sched |-> sched, day |-> CurrentWindow]
              /\ UNCHANGED <<last_day, stage>>
    BY <1>0, <1>5, WindowOfTheFace DEF ReserveDay, clockVars, MayFire, Saves, SaveFails
  <2>2. Reached(CurrentWindow, sched)
    BY <1>0, ReachedNow
  <2> QED BY <1>2, <2>1, <2>2 DEF DaysAreReached
<1>6. CASE WarningFails
  <2>1. /\ UNCHANGED <<now, shift, sched>> /\ stage = "reserved" /\ stage' = "idle"
        /\ last_day' = previous_day \/ last_day' = last_day
        /\ nvs' = nvs \/ nvs' = [sched |-> sched, day |-> previous_day]
    BY <1>6 DEF WarningFails, clockVars, Saves, SaveFails
  <2> QED BY <1>2, <2>1 DEF DaysAreReached
<1>7. CASE Tick \/ ClockSteps
  BY <1>0, <1>1, <1>7 DEF Tick, ClockSteps, schedVars, fireVars
<1>8. CASE ClockSyncs \/ DoesNotFire
  BY <1>0, <1>1, <1>8 DEF ClockSyncs, DoesNotFire, clockVars, schedVars, fireVars
<1>9. CASE DoorStep
  BY <1>0, <1>1, <1>9, DoorFrame
<1>10. CASE StartWarning \/ WarningEnds
  BY <1>0, <1>1, <1>10 DEF StartWarning, WarningEnds, clockVars, schedVars
<1>11. CASE UNCHANGED vars
  BY <1>0, <1>1, <1>11 DEF vars, clockVars, schedVars, fireVars
<1> QED BY <1>3, <1>4, <1>5, <1>6, <1>7, <1>8, <1>9, <1>10, <1>11 DEF Next

\* When the settings and what has fired stay, and nothing is newly reserved.
LEMMA FiredStays ==
  ASSUME FiredIsRecorded, UNCHANGED <<sched, last_day, nvs, fired>>,
         \/ stage' # "reserved"
         \/ UNCHANGED <<stage, previous_day, now, shift>>
  PROVE  FiredIsRecorded'
<1>1. CASE stage' # "reserved"
  BY <1>1 DEF FiredIsRecorded
<1>2. CASE UNCHANGED <<stage, previous_day, now, shift>>
  <2>1. CurrentWindow' = CurrentWindow
    BY <1>2 DEF CurrentWindow, Local, LocalTick
  <2> QED BY <1>2, <2>1 DEF FiredIsRecorded
<1> QED BY <1>1, <1>2

LEMMA FiredStep ==
  ASSUME StepsBackAreSmall, IInv, DaysAreReached, FiredIsRecorded, [Next]_vars
  PROVE  FiredIsRecorded'
<1>0. /\ TypeOK /\ last_day \in Nat /\ nvs.day \in Nat /\ previous_day \in Nat
      /\ \A w \in fired : w \in Int
      /\ CurrentWindow \in Nat
  BY WindowOfTheFace DEF IInv, TypeOK
<1>1. CASE SetCloseSchedule
  <2>1. PICK e \in BOOLEAN, m \in Minutes, z \in Zones :
          LET in == [enabled |-> e, minute |-> m, zone |-> z]
              time_changed == m # sched.minute \/ z # sched.zone
              day == IF time_changed THEN 0 ELSE last_day
          IN /\ fired' = IF time_changed THEN {} ELSE fired
             /\ \/ /\ Saves(in, day)
                   /\ sched' = in /\ last_day' = day /\ stage' = Cancelled
                \/ /\ SaveFails(in, day)
                   /\ UNCHANGED <<sched, last_day, stage>>
    BY <1>1 DEF SetCloseSchedule
  <2>2. stage' # "reserved"
    BY <1>1, <2>1 DEF SetCloseSchedule, GuardFree, Cancelled
  <2>3. CASE m # sched.minute \/ z # sched.zone
    <3>1. fired' = {}
      BY <2>1, <2>3
    <3> QED BY <2>2, <3>1 DEF FiredIsRecorded
  <2>4. CASE ~(m # sched.minute \/ z # sched.zone)
    <3>1. /\ fired' = fired /\ last_day' = last_day
          /\ sched'.minute = sched.minute /\ sched'.zone = sched.zone
          /\ \/ nvs' = nvs
             \/ /\ nvs'.day = last_day /\ nvs'.sched.minute = sched.minute
                /\ nvs'.sched.zone = sched.zone
      BY <2>1, <2>4 DEF Saves, SaveFails
    <3> QED BY <2>2, <3>1 DEF FiredIsRecorded
  <2> QED BY <2>3, <2>4
<1>2. CASE Reboot
  <2>1. /\ UNCHANGED <<nvs, fired>> /\ sched' = nvs.sched /\ last_day' = nvs.day
        /\ stage' = "idle"
    BY <1>2 DEF Reboot
  <2> QED BY <2>1 DEF FiredIsRecorded
<1>3. CASE ReserveDay
  <2>1. /\ UNCHANGED <<now, shift, sched, fired>> /\ stage = "idle" /\ MayFire
        /\ \/ /\ nvs' = [sched |-> sched, day |-> CurrentWindow]
              /\ last_day' = CurrentWindow /\ previous_day' = last_day
           \/ /\ nvs' = nvs \/ nvs' = [sched |-> sched, day |-> CurrentWindow]
              /\ UNCHANGED <<last_day, stage>>
    BY <1>0, <1>3, WindowOfTheFace DEF ReserveDay, clockVars, MayFire, Saves, SaveFails
  <2>2. last_day < CurrentWindow
    BY <2>1, ReservedDayIsNew DEF DaysAreReached
  <2>3. \A w \in fired : w <= last_day /\ w < CurrentWindow /\ w <= CurrentWindow
    BY <1>0, <2>2 DEF FiredIsRecorded
  <2>4. CurrentWindow' = CurrentWindow
    BY <2>1 DEF CurrentWindow, Local, LocalTick
  <2>5. \/ nvs'.sched = nvs.sched /\ nvs'.day = nvs.day
        \/ nvs'.sched = sched /\ nvs'.day = CurrentWindow
    BY <2>1
  <2>6. CASE stage' = "reserved"
    <3>1. /\ nvs' = [sched |-> sched, day |-> CurrentWindow]
          /\ last_day' = CurrentWindow /\ previous_day' = last_day
      BY <2>1, <2>6
    <3> QED BY <2>1, <2>3, <2>4, <3>1 DEF FiredIsRecorded
  <2>7. CASE stage' # "reserved"
    <3>1. \A w \in fired : w <= last_day' /\ w <= nvs'.day
      BY <2>1, <2>3, <2>5 DEF FiredIsRecorded
    <3>2. fired # {} => nvs'.sched.minute = sched.minute /\ nvs'.sched.zone = sched.zone
      BY <2>5 DEF FiredIsRecorded
    <3> QED BY <2>1, <2>7, <3>1, <3>2 DEF FiredIsRecorded
  <2> QED BY <2>6, <2>7
<1>4. CASE StartWarning
  <2>1. /\ UNCHANGED <<sched, last_day, nvs>> /\ stage = "reserved" /\ stage' = "armed"
        /\ fired' = fired \cup {CurrentWindow}
    BY <1>4 DEF StartWarning, schedVars
  <2> QED BY <1>0, <2>1 DEF FiredIsRecorded
<1>5. CASE WarningFails
  <2>1. /\ UNCHANGED <<sched, fired>> /\ stage = "reserved" /\ stage' = "idle"
        /\ last_day' = previous_day \/ last_day' = last_day
        /\ nvs' = nvs \/ nvs' = [sched |-> sched, day |-> previous_day]
    BY <1>5 DEF WarningFails, Saves, SaveFails
  <2> QED BY <2>1 DEF FiredIsRecorded
<1>6. CASE Tick \/ ClockSteps
  <2>1. stage' # "reserved" /\ UNCHANGED <<sched, last_day, nvs, fired>>
    BY <1>6 DEF Tick, ClockSteps, schedVars, fireVars, GuardFree, IInv, ReservedForAnOpenDoor
  <2> QED BY <2>1, FiredStays
<1>7. CASE ClockSyncs \/ DoesNotFire
  BY <1>7, FiredStays DEF ClockSyncs, DoesNotFire, schedVars, fireVars, GuardFree
<1>8. CASE DoorStep
  BY <1>8, DoorFrame, FiredStays
<1>9. CASE WarningEnds
  BY <1>9, FiredStays DEF WarningEnds, schedVars
<1>10. CASE UNCHANGED vars
  BY <1>10, FiredStays DEF vars, clockVars, schedVars, fireVars
<1> QED BY <1>1, <1>2, <1>3, <1>4, <1>5, <1>6, <1>7, <1>8, <1>9, <1>10 DEF Next

(***************************************************************************)
(* A window fires once, whatever saves fail and wherever a reboot falls,   *)
(* when a step back of the clock and the window fit into a day.            *)
(***************************************************************************)
THEOREM Once ==
  ASSUME StepsBackAreSmall
  PROVE  Spec => OncePerWindow
<1>1. Init => OnceInv
  <2> SUFFICES ASSUME Init PROVE OnceInv
    OBVIOUS
  <2>1. IInv
    BY InitIInv
  <2>2. /\ TypeOK /\ last_day = 0 /\ nvs = [sched |-> sched, day |-> 0] /\ stage = "idle"
        /\ fired = {} /\ sched \in Schedules
    BY <2>1 DEF Init, IInv, TypeOK
  <2>3. DaysAreReached
    BY <2>2, ReachedNow DEF DaysAreReached
  <2> QED BY <2>1, <2>2, <2>3 DEF OnceInv, FiredIsRecorded
<1>2. OnceInv /\ [Next]_vars => OnceInv'
  <2> SUFFICES ASSUME OnceInv, [Next]_vars PROVE OnceInv'
    OBVIOUS
  <2>1. IInv'
    BY TypeStep, BeginningsStep, OpennessStep, ReservedStep, EligibleStep DEF OnceInv, IInv
  <2>2. DaysAreReached' /\ FiredIsRecorded'
    BY <2>1, DaysStep, FiredStep DEF OnceInv, IInv
  <2> QED BY <2>1, <2>2 DEF OnceInv
<1>3. OnceInv /\ [Next]_vars => [Fires => CurrentWindow \notin fired]_vars
  <2> SUFFICES ASSUME OnceInv, [Next]_vars, Fires PROVE CurrentWindow \notin fired
    OBVIOUS
  <2>1. stage = "reserved"
    BY DoorFrame DEF Fires, Next, vars, Tick, ClockSteps, ClockSyncs, SetCloseSchedule, Reboot,
       DoesNotFire, ReserveDay, StartWarning, WarningFails, WarningEnds, Cancelled, fireVars
  <2>2. CurrentWindow \in Nat
    BY WindowOfTheFace DEF OnceInv, IInv
  <2> QED BY <2>1, <2>2 DEF OnceInv, FiredIsRecorded
<1> QED BY <1>1, <1>2, <1>3, PTL DEF Spec, OncePerWindow
=============================================================================
