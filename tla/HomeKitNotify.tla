--------------------------- MODULE HomeKitNotify ---------------------------
(***************************************************************************)
(* The notification half of main/homekit.cpp: producers push state changes *)
(* into a bounded queue, one consumer task writes them to the HomeKit      *)
(* characteristics.  Each push is deduplicated against the last value that *)
(* was queued, and that copy is committed only once the queue took it.     *)
(*                                                                         *)
(* A channel is a record of the queue and, per characteristic, the copy    *)
(* last queued.  Pushes are operators from channel to channel, so that a   *)
(* handler composes them in the order it makes them.  Light, motion, learn *)
(* and lock push the way the obstruction does and are not repeated here.   *)
(***************************************************************************)
EXTENDS Naturals, Sequences

CONSTANT Capacity   \* length of gdo_notif_event_q
ASSUME CapacityAssumption == Capacity \in Nat \ {0}

DoorStates == { "MAX", "OPEN", "CLOSED", "OPENING", "CLOSING", "STOPPED" }
Ends == { "OPEN", "CLOSED" }
BeamStates == { "MAX", "CLEAR", "BLOCKED" }

\* The characteristics, and what HomeKit can be shown in each.
Values == [ current |-> DoorStates, target |-> Ends, beam |-> BeamStates ]
Messages == UNION { [dest : {c}, value : Values[c]] : c \in DOMAIN Values }

Copies == [current : DoorStates, target : Ends \cup {"NONE"}, beam : BeamStates]
Channels == [queue : UNION { [1..n -> Messages] : n \in 0..Capacity },
             queued : Copies]

NothingYet == [current |-> "MAX", target |-> "NONE", beam |-> "MAX"]
EmptyChannel == [queue |-> <<>>, queued |-> NothingYet]

\* What HomeKit shows; and what the services are created with, before any notification.
Displays == [current : DoorStates, target : Ends, beam : BeamStates]
AtCreation == [current |-> "OPEN", target |-> "OPEN", beam |-> "CLEAR"]

\* map_gdo_to_homekit_state(), and every beam reading but BLOCKED is "clear".
Shown(c, v) ==
  IF v # "MAX" THEN v ELSE IF c = "current" THEN "STOPPED" ELSE "CLEAR"

(***************************************************************************)
(* One push.  A full queue refuses it after 20 ms; then the copy is not    *)
(* committed, so that the same value may be offered again.                 *)
(***************************************************************************)
Push_CommitFirst(ch, c, v) ==                 \* MUTANT: records a dropped push too
  IF ch.queued[c] = v THEN ch
  ELSE [queue |-> IF Len(ch.queue) < Capacity
                  THEN Append(ch.queue, [dest |-> c, value |-> Shown(c, v)])
                  ELSE ch.queue,
        queued |-> [ch.queued EXCEPT ![c] = v]]
Push_Unbounded(ch, c, v) ==                   \* MUTANT: the queue is never full
  IF ch.queued[c] = v THEN ch
  ELSE [queue |-> Append(ch.queue, [dest |-> c, value |-> Shown(c, v)]),
        queued |-> [ch.queued EXCEPT ![c] = v]]
Sendable(ch, c, v) == ch.queued[c] # v /\ Len(ch.queue) < Capacity
Send(ch, c, v) ==
  [ch EXCEPT !.queue = Append(@, [dest |-> c, value |-> Shown(c, v)])]
Commit(ch, c, v) == [ch EXCEPT !.queued[c] = v]
Push(ch, c, v) ==
  IF Sendable(ch, c, v) THEN Commit(Send(ch, c, v), c, v) ELSE ch

\* notify_homekit_target_door_state_change(); "NONE" stands for no push at all
NotifyTarget(ch, t) == IF t = "NONE" THEN ch ELSE Push(ch, "target", t)

\* notify_homekit_current_door_state_change()
NotifyCurrent(ch, d) == Push(ch, "current", d)

\* notify_homekit_obstruction()
NotifyObstruction(ch, b) == Push(ch, "beam", b)

\* resend_last_states_to_homekit(): what is known is offered again, the target is not.
Resend(ch, door, beam) ==
  LET afterDoor == IF door = "MAX" THEN ch ELSE NotifyCurrent(ch, door)
  IN  IF beam = "MAX" THEN afterDoor ELSE NotifyObstruction(afterDoor, beam)

\* The consumer loop of homekit_task_entry(): one event, one characteristic.
Received(ch, hap) == [hap EXCEPT ![Head(ch.queue).dest] = Head(ch.queue).value]
Drained(ch) == [ch EXCEPT !.queue = Tail(@)]

\* The value characteristic c will have once the queue is empty.
Arriving(ch, hap, c) ==
  LET S == { i \in DOMAIN ch.queue : ch.queue[i].dest = c }
  IN  IF S = {} THEN hap[c]
      ELSE ch.queue[CHOOSE i \in S : \A j \in S : j <= i].value

\* The copy a producer deduplicates against is what HomeKit will show.
CopyArrives(ch, hap, c) ==
  ch.queued[c] \notin {"MAX", "NONE"} => Arriving(ch, hap, c) = Shown(c, ch.queued[c])
=============================================================================
