---------------------------- MODULE Accessories ----------------------------
(***************************************************************************)
(* The light, the lock, the motion sensor and the Learn tile between the   *)
(* opener and HomeKit.  Unlike the door they are pushed without the mutex  *)
(* of main/gdo-blaq-homekit.cpp: gdolib's callback task and the watchdog's *)
(* resend may be in the middle of a push of the same accessory at once.    *)
(* And unlike the door's target, a write of HomeKit goes to the            *)
(* characteristic directly, past the queue and the deduplicating copy, and *)
(* may cross a report on its way.  (main/homekit.cpp 298-322, 585-600,     *)
(* 693-828.)  The queue is also full because its consumer starts late.     *)
(***************************************************************************)
EXTENDS Naturals, Sequences

CONSTANTS
  Kinds,        \* the accessories of this instance
  Capacity,     \* length of gdo_notif_event_q
  MaxInputs     \* bound on what the outside does

ASSUME AccessoryAssumption ==
  /\ Kinds \subseteq {"light", "lock", "motion", "learn"}
  /\ Capacity \in Nat \ {0} /\ MaxInputs \in Nat

Unknown == "MAX"
Readings == {"OFF", "ON"}      \* clear, unlocked and inactive are OFF

Writable == Kinds \ {"motion"}

(***************************************************************************)
(* A push sends one message, that of the lock two: its target, then its    *)
(* current state.                                                          *)
(***************************************************************************)
Characteristics == Kinds \cup (IF "lock" \in Kinds THEN {"lock_target"} ELSE {})
FirstOf(x) == IF x = "lock" THEN "lock_target" ELSE x
WrittenBy(x) == FirstOf(x)     \* what a write of HomeKit goes to
Messages == [dest : Characteristics, value : Readings]

VARIABLES
  status,      \* external: gdolib's status
  owed,        \* external: callbacks gdolib has yet to make
  commanded,   \* external: the command each accessory was given and has not answered
  inputs,      \* what the outside did so far, against MaxInputs
  last,        \* last_light, last_lock, last_motion, last_learn of gdo-blaq-homekit.cpp
  copy,        \* those of homekit.cpp: the value last queued
  push,        \* where the callback task and the watchdog are in a push
  queue,       \* gdo_notif_event_q
  learn_supported,
  consuming,   \* hap_start() returned: HomeKit writes, the queue is drained
  write,       \* a write gdolib accepted and HomeKit does not show yet
  hap,         \* what HomeKit shows
  written,     \* history: what HomeKit shows of it is its own write
  collided,    \* history: two first pushes of one accessory overlapped
  half_from    \* history: the lock's copy when a half of it was dropped, until both are sent

outsideVars == <<status, owed, commanded, inputs>>
homeVars == <<learn_supported, consuming, write, hap>>
pushVars == <<last, copy, push, queue>>
historyVars == <<written, collided, half_from>>
vars == <<outsideVars, homeVars, pushVars, historyVars>>

Tasks == {"handler", "watchdog"}
NotPushing == [at |-> "idle", kind |-> "none", value |-> Unknown]
NoWrite == [kind |-> "none", value |-> Unknown]

Init ==
  /\ status = [x \in Kinds |-> Unknown] /\ owed = {}
  /\ commanded = [x \in Kinds |-> Unknown] /\ inputs = 0
  /\ last = [x \in Kinds |-> Unknown] /\ copy = [x \in Kinds |-> Unknown]
  /\ push = [t \in Tasks |-> NotPushing]
  /\ queue = <<>> /\ learn_supported = TRUE /\ consuming = FALSE
  /\ write = NoWrite /\ hap = [c \in Characteristics |-> "OFF"]
  /\ written = {} /\ collided = {} /\ half_from = Unknown

-----------------------------------------------------------------------------
(* gdolib and the opener (external).                                       *)

Reports(x, v) ==
  /\ status' = [status EXCEPT ![x] = v] /\ owed' = owed \cup {x}

\* A first report, a wall button, another remote control, somebody moves.
Changes(x) ==
  /\ inputs < MaxInputs /\ inputs' = inputs + 1
  /\ \E v \in Readings \ {status[x]} : Reports(x, v)
  /\ UNCHANGED <<commanded, homeVars, pushVars, historyVars>>

\* The opener follows a command or not.  Its answer takes the line longer than HomeKit's
\* thread takes to return.
Answers(x) ==
  /\ commanded[x] # Unknown /\ write.kind # x
  /\ commanded' = [commanded EXCEPT ![x] = Unknown]
  /\ \/ status[x] # commanded[x] /\ Reports(x, commanded[x])
     \/ UNCHANGED <<status, owed>>
  /\ UNCHANGED <<inputs, homeVars, pushVars, historyVars>>

-----------------------------------------------------------------------------
(* The pushes: notify_homekit_light(), _learn(), _current_lock(), _motion().  *)
(* The comparison with the copy and the send are one step; if the other    *)
(* task came between, the same value would merely be sent twice.           *)

Starts(t, x, v) == push' = [push EXCEPT ![t] = [at |-> "offer", kind |-> x, value |-> v]]
Goes(t, at) == push' = [push EXCEPT ![t].at = at]
Stops(t) == push' = [push EXCEPT ![t] = NotPushing]

Room_Assumed == TRUE                          \* MUTANT: the queue is never full
Room == Len(queue) < Capacity
Sends(t, c) == queue' = Append(queue, [dest |-> c, value |-> push[t].value])

Wanted(t) ==
  /\ push[t].value # copy[push[t].kind]
  /\ push[t].kind = "learn" => learn_supported

\* A full queue refuses the message after 20 ms, and the copy stays as it is.
Offer(t) ==
  /\ push[t].at = "offer"
  /\ IF Wanted(t) /\ Room
     THEN /\ Sends(t, FirstOf(push[t].kind))
          /\ Goes(t, IF push[t].kind = "lock" THEN "second" ELSE "commit")
     ELSE Stops(t) /\ UNCHANGED queue
  /\ UNCHANGED <<outsideVars, homeVars, last, copy, historyVars>>

\* notify_homekit_current_lock(): both halves are queued, or both are offered again.
AfterHalf_Commit(t) ==                        \* MUTANT: half a push is committed
  Stops(t) /\ copy' = [copy EXCEPT ![push[t].kind] = push[t].value]
AfterHalf(t) == Stops(t) /\ UNCHANGED copy

Both(x) == \A t \in Tasks : push[t].kind = x /\ push[t].at \in {"second", "commit"}

Second(t) ==
  /\ push[t].at = "second"
  /\ IF Room
     THEN /\ Sends(t, "lock") /\ Goes(t, "commit")
          /\ UNCHANGED <<copy, half_from, collided>>
     ELSE /\ AfterHalf(t) /\ UNCHANGED queue
          /\ half_from' = copy["lock"]
          /\ collided' = IF Both("lock") THEN collided \cup {"lock"} ELSE collided
  /\ UNCHANGED <<outsideVars, homeVars, last, written>>

CommitCopy(t) ==
  /\ push[t].at = "commit"
  /\ LET x == push[t].kind
     IN  /\ copy' = [copy EXCEPT ![x] = push[t].value]
         /\ collided' = IF Both(x) THEN collided \cup {x} ELSE collided
         /\ half_from' = IF x = "lock" THEN Unknown ELSE half_from
  /\ Stops(t)
  /\ UNCHANGED <<outsideVars, homeVars, last, queue, written>>

-----------------------------------------------------------------------------
(* gdolib's callback task and the watchdog.                                *)

\* gdo_event_handler(): pushed on every event, whatever was recorded before.
Event(x) ==
  /\ push["handler"].at = "idle" /\ x \in owed
  /\ owed' = owed \ {x}
  /\ last' = [last EXCEPT ![x] = status[x]]
  /\ Starts("handler", x, status[x])
  /\ UNCHANGED <<status, commanded, inputs, homeVars, copy, queue, historyVars>>

\* process_door_position() ends with a push of the light, at each report of the door.
DoorEvent ==
  /\ push["handler"].at = "idle" /\ "light" \in Kinds /\ status["light"] # Unknown
  /\ last' = [last EXCEPT !["light"] = status["light"]]
  /\ Starts("handler", "light", status["light"])
  /\ UNCHANGED <<outsideVars, homeVars, copy, queue, historyVars>>

\* resend_last_states_to_homekit(): the known ones, one after the other, but for Learn.
Reoffered == { x \in Kinds \ {"learn"} : last[x] # Unknown }

Resend(x) ==
  /\ push["watchdog"].at = "idle" /\ x \in Reoffered
  /\ Starts("watchdog", x, last[x])
  /\ UNCHANGED <<outsideVars, homeVars, last, copy, queue, historyVars>>

-----------------------------------------------------------------------------
(* HomeKit: homekit_task_entry() and its write callbacks.                  *)

HomeKitStarts ==
  /\ ~consuming /\ consuming' = TRUE
  /\ UNCHANGED <<outsideVars, pushVars, learn_supported, write, hap, historyVars>>

\* The protocol is not known to be V2: no Learn tile.  SyncRecovery models the wait.
HideLearn ==
  /\ ~consuming /\ learn_supported /\ learn_supported' = FALSE
  /\ UNCHANGED <<outsideVars, pushVars, consuming, write, hap, historyVars>>

\* light_svc_set(), gdo_svc_set(), learn_svc_set(): what gdolib refuses changes nothing.
Write(x) ==
  /\ consuming /\ write = NoWrite
  /\ commanded[x] = Unknown             \* bound: one command to an accessory at a time
  /\ x = "learn" => learn_supported
  /\ inputs < MaxInputs /\ inputs' = inputs + 1
  /\ \E v \in Readings :
       write' = [kind |-> x, value |-> v] /\ commanded' = [commanded EXCEPT ![x] = v]
  /\ UNCHANGED <<status, owed, learn_supported, consuming, hap, pushVars, historyVars>>

\* hap_char_update_val() of the very characteristic that was written
WriteReturns ==
  /\ write # NoWrite /\ write' = NoWrite
  /\ hap' = [hap EXCEPT ![WrittenBy(write.kind)] = write.value]
  /\ written' = written \cup {write.kind}
  /\ UNCHANGED <<outsideVars, pushVars, learn_supported, consuming, collided, half_from>>

Deliver ==
  /\ consuming /\ queue # <<>>
  /\ LET e == Head(queue)
     IN  /\ hap' = IF e.dest = "learn" /\ ~learn_supported THEN hap
                   ELSE [hap EXCEPT ![e.dest] = e.value]
         /\ written' = { x \in written : WrittenBy(x) # e.dest }
  /\ queue' = Tail(queue)
  /\ UNCHANGED <<outsideVars, learn_supported, consuming, write, last, copy, push, collided,
                 half_from>>

-----------------------------------------------------------------------------
PushStep(t) == Offer(t) \/ Second(t) \/ CommitCopy(t)
HandlerStep == DoorEvent \/ (\E x \in Kinds : Event(x)) \/ PushStep("handler")
WatchdogStep == (\E x \in Kinds : Resend(x)) \/ PushStep("watchdog")
OpenerStep == \E x \in Kinds : Changes(x) \/ Answers(x)
HomeKitStep == HomeKitStarts \/ HideLearn \/ (\E x \in Writable : Write(x)) \/ WriteReturns

Next == OpenerStep \/ HandlerStep \/ WatchdogStep \/ HomeKitStep \/ Deliver
Spec == Init /\ [][Next]_vars

-----------------------------------------------------------------------------
Pushes == [at : {"offer", "second", "commit"}, kind : Kinds, value : Readings]
Writes == [kind : Writable, value : Readings]

\* Every variable keeps its type, and the queue its length.
TypeOK ==
  /\ status \in [Kinds -> Readings \cup {Unknown}] /\ owed \subseteq Kinds
  /\ commanded \in [Kinds -> Readings \cup {Unknown}] /\ inputs \in 0..MaxInputs
  /\ last \in [Kinds -> Readings \cup {Unknown}]
  /\ copy \in [Kinds -> Readings \cup {Unknown}]
  /\ push \in [Tasks -> Pushes \cup {NotPushing}]
  /\ queue \in Seq(Messages) /\ Len(queue) <= Capacity
  /\ learn_supported \in BOOLEAN /\ consuming \in BOOLEAN
  /\ write \in Writes \cup {NoWrite}
  /\ hap \in [Characteristics -> Readings]
  /\ written \subseteq Kinds /\ collided \subseteq Kinds
  /\ half_from \in Readings \cup {Unknown}

(***************************************************************************)
(* Nothing is under way and a pass of the watchdog would queue nothing:    *)
(* what HomeKit shows now it will go on showing.                           *)
(***************************************************************************)
Quiet ==
  /\ owed = {} /\ queue = <<>> /\ write = NoWrite /\ consuming
  /\ \A x \in Kinds : commanded[x] = Unknown
  /\ \A t \in Tasks : push[t] = NotPushing
  /\ \A x \in Reoffered : copy[x] = last[x]

Shows(x) == IF x = "lock" THEN {hap["lock"], hap["lock_target"]} ELSE {hap[x]}

\* The lock went back to what was last sent while half of a newer state was under way.
Stranded == "lock" \in Kinds /\ half_from # Unknown /\ last["lock"] = half_from

(***************************************************************************)
(* HomeKit ends up with the state the firmware last heard of, of the lock  *)
(* both halves, however many pushes or halves of one a full queue dropped, *)
(* whichever stale value the watchdog offered meanwhile and whenever       *)
(* HomeKit wrote.  Not covered: what HomeKit wrote after all reports, two  *)
(* tasks that push one accessory at once, and a stranded lock, see         *)
(* LockTargetFollows.  The watchdog does not offer the Learn state again,  *)
(* so there only what was queued counts.                                   *)
(***************************************************************************)
QuietShowsAccessories ==
  Quiet => \A x \in Kinds \ (written \cup collided) :
             /\ last[x] # Unknown /\ copy[x] = last[x]
             /\ x = "lock" => ~Stranded
             /\ x = "learn" => learn_supported
             => Shows(x) = {last[x]}

(***************************************************************************)
(* homekit.cpp:783-786, "A change that did not come from HomeKit ... has   *)
(* to move Lock Target State as well, otherwise Current and Target         *)
(* disagree and the Home app shows "Locking..." or "Unlocking..." until the  *)
(* next HomeKit write."                                                    *)
(***************************************************************************)
LockTargetFollows ==
  Quiet /\ "lock" \in Kinds \ (written \cup collided) => hap["lock"] = hap["lock_target"]

-----------------------------------------------------------------------------
(* The inductive invariant: what makes QuietShowsAccessories hold.         *)

CharacteristicsOf(x) == {x, FirstOf(x)}

\* What of characteristic c is shown once the queue is empty, if HomeKit did not write.
Carried(c) == \E i \in DOMAIN queue : queue[i].dest = c
LastCarried(c, v) ==
  \A i \in DOMAIN queue :
    queue[i].dest = c /\ (\A j \in DOMAIN queue : j > i => queue[j].dest # c)
    => queue[i].value = v
WillShow(x, c, v) ==
  /\ LastCarried(c, v)
  /\ Carried(c) \/ hap[c] = v \/ (x \in written /\ c = WrittenBy(x))

\* A push that sent something and did not commit it yet, and that it is the only one.
Unfinished(t, x) == push[t].kind = x /\ push[t].at \in {"second", "commit"}
Alone(t, x) == \A u \in Tasks : Unfinished(u, x) <=> u = t

\* Committed values are what will be shown, unless half of a lock's push was dropped.
CommittedIsShown(x) ==
  (\A t \in Tasks : ~Unfinished(t, x)) /\ copy[x] # Unknown
  /\ (x = "lock" => half_from = Unknown)
  => \A c \in CharacteristicsOf(x) : WillShow(x, c, copy[x])

\* Of an unfinished push, what it sent.
SentIsShown(x) ==
  \A t \in Tasks : Alone(t, x) =>
    /\ WillShow(x, FirstOf(x), push[t].value)
    /\ push[t].at = "commit" => WillShow(x, x, push[t].value)

PushesHold ==
  \A x \in Kinds \ collided :
    (x = "learn" => learn_supported) => CommittedIsShown(x) /\ SentIsShown(x)

\* A half was dropped with the copy of now; only the lock has halves; known is reported.
HalfIsOfTheCopy == half_from # Unknown => "lock" \in Kinds /\ half_from = copy["lock"]
OnlyTheLockHasTwo == \A t \in Tasks : push[t].at = "second" => push[t].kind = "lock"
OwedIsKnown == \A x \in owed : status[x] # Unknown

IInv == TypeOK /\ PushesHold /\ HalfIsOfTheCopy /\ OnlyTheLockHasTwo /\ OwedIsKnown
=============================================================================
