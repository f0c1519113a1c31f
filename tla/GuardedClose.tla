---------------------------- MODULE GuardedClose ----------------------------
(***************************************************************************)
(* What the owner of the door is promised, whoever wants it closed: a      *)
(* close is asked of the opener only when a whole warning has sounded that *)
(* nothing disturbed, with the opener in sync and its beam clear, and one  *)
(* warning announces one close.  Nothing is said of how a disturbance is   *)
(* noticed: DoorControl does it with counters, see its Promise.            *)
(***************************************************************************)
EXTENDS Naturals

CONSTANT Whole      \* how long a warning must sound, in ticks

VARIABLES
  sounding,         \* the warnings that sound and that nothing has disturbed
  ready,            \* the opener is in sync and its beam is clear
  closes            \* how many closes were asked of the opener

promiseVars == <<sounding, ready, closes>>

Init == sounding = {} /\ ready = FALSE /\ closes = 0

AllNew(ws) == \A w \in ws : w.age = 0

\* A warning starts beside those that sound.
Start ==
  /\ sounding \subseteq sounding' /\ AllNew(sounding' \ sounding)
  /\ UNCHANGED <<ready, closes>>

\* A request, the door, the beam, a button or a setting ends them all; a
\* request for a close starts its own.
Disturb ==
  /\ sounding' \cap sounding = {} /\ AllNew(sounding')
  /\ UNCHANGED <<ready, closes>>

Sound ==
  /\ sounding' = { [w EXCEPT !.age = @ + 1] : w \in sounding }
  /\ UNCHANGED <<ready, closes>>

\* A warning may end without its close.
GiveUp ==
  /\ \E w \in sounding : sounding' = sounding \ {w}
  /\ UNCHANGED <<ready, closes>>

Close ==
  /\ ready
  /\ \E w \in sounding : w.age >= Whole /\ sounding' = sounding \ {w}
  /\ closes' = closes + 1
  /\ UNCHANGED ready

OpenerChanges == ready' \in BOOLEAN /\ UNCHANGED <<sounding, closes>>

Next == Start \/ Disturb \/ Sound \/ GiveUp \/ Close \/ OpenerChanges

Spec == Init /\ [][Next]_promiseVars
=============================================================================
