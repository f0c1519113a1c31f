---------------------------- MODULE DoorTracker ----------------------------
(***************************************************************************)
(* What the firmware believes about the door, and what HomeKit is shown.   *)
(* gdolib (external) decodes frames into a status and calls back from its  *)
(* own task; the handlers of main/gdo-blaq-homekit.cpp infer a door state, *)
(* track the transition and push to HomeKit; the watchdog ends transitions *)
(* whose last frame was lost.  Handler and watchdog share last_door,       *)
(* s_door_in_transition and s_transition_target; only the write of         *)
(* last_door is under the mutex, so both are split where the other may     *)
(* come between.  Whether a door request is sent at all is DoorControl's   *)
(* matter: here a warned close ends either way.                            *)
(***************************************************************************)
EXTENDS HomeKitNotify, FiniteSets

CONSTANTS
  Protocols,   \* subset of {"V1", "V2"}: Security+ 1.0 and 2.0
  Inputs,      \* what the outside does in this instance
  MaxInputs    \* bound on its steps

ASSUME ProtocolAssumption == Protocols # {} /\ Protocols \subseteq {"V1", "V2"}
ASSUME InputAssumption ==
  /\ Inputs \subseteq {"link", "stop", "motor", "beam", "command"}
  /\ MaxInputs \in Nat

\* door_position: within 200 of an end, elsewhere, or -1 (no reading yet).
Positions == { "NONE", "OPEN", "PARTWAY", "CLOSED" }
Moving == { "OPENING", "CLOSING" }
Status == [ synced : BOOLEAN, door : DoorStates, position : Positions, motor : BOOLEAN,
            target : Ends \cup {"NONE"}, beam : BeamStates ]

VARIABLES
  protocol,
  status,             \* external: gdolib's status
  owed,               \* external: callbacks gdolib has yet to make
  inputs,             \* counts the steps of the outside but syncs, against MaxInputs
  last_door, last_obstruction,
  in_transit,         \* s_door_in_transition
  transition_target,
  late,               \* the tracked transition has outlived its timeout
  handler,            \* gdolib's callback task: where it is, what it inferred
  watchdog,           \* the watchdog: where it is, the status it sampled
  close,              \* a HomeKit close: "none", "warning" or "superseded"
  accepted,           \* the HomeKit thread: a target not yet queued, or "NONE"
  unanswered,         \* the retry budget still owes the latest request a verdict
  channel, hap,       \* see HomeKitNotify
  overlapped          \* history: a callback and a step of the watchdog overlapped

outsideVars == <<protocol, status, owed, inputs>>
trackVars   == <<last_door, last_obstruction, in_transit, transition_target, late>>
requestVars == <<close, accepted, unanswered>>
vars == <<outsideVars, trackVars, handler, watchdog, requestVars, channel, hap,
          overlapped>>

Idle == [at |-> "idle", door |-> "MAX", position |-> "NONE"]
Asleep == [at |-> "sleep", door |-> "MAX", position |-> "NONE", target |-> "NONE"]
InVerdict == watchdog.at \in {"verdict", "settle"}

Init ==
  /\ protocol \in Protocols
  /\ status = [synced |-> FALSE, door |-> "MAX", position |-> "NONE",
               motor |-> FALSE, target |-> "NONE", beam |-> "MAX"]
  /\ owed = {} /\ inputs = 0
  /\ last_door = "MAX" /\ last_obstruction = "MAX"
  /\ in_transit = FALSE /\ transition_target = "MAX" /\ late = FALSE
  /\ handler = Idle /\ watchdog = Asleep
  /\ close = "none" /\ accepted = "NONE" /\ unanswered = FALSE
  /\ channel = EmptyChannel /\ hap = AtCreation
  /\ overlapped = FALSE

-----------------------------------------------------------------------------
(* gdolib (external).  Every change of its status is followed by a callback. *)

Outside(s, events) ==
  /\ inputs < MaxInputs \/ events = {"synced"}
  /\ inputs' = IF events = {"synced"} THEN inputs ELSE inputs + 1
  /\ status' = s
  /\ owed' = owed \cup events
  /\ overlapped' = (overlapped \/ InVerdict)
  /\ UNCHANGED <<protocol, trackVars, handler, watchdog, requestVars, channel, hap>>

\* A status frame.  The position follows an end; a moving door names its target.
Frame ==
  \E d \in DoorStates \ {"MAX", status.door} :
    /\ d = "STOPPED" => "stop" \in Inputs
    /\ Outside([status EXCEPT
                  !.door = d,
                  !.position = IF d \in Ends THEN d ELSE @,
                  !.motor = d \in Moving,
                  !.target = CASE d = "OPENING" -> "OPEN" [] d = "CLOSING" -> "CLOSED"
                               [] OTHER -> @],
               {"position"})

\* The motor is heard before, or instead of, the frame that names the direction.
MotorOn ==
  /\ "motor" \in Inputs /\ ~status.motor
  /\ Outside([status EXCEPT !.motor = TRUE], {"motor"})

Other(d) == IF d = "OPEN" THEN "CLOSED" ELSE "OPEN"
Heading == CASE status.door = "OPENING" -> "OPEN" [] status.door = "CLOSING" -> "CLOSED"
             [] status.door \in Ends -> Other(status.door) [] OTHER -> "NONE"

\* Dead reckoning while the motor runs: the position gets ahead of the frames.
Interpolate ==
  /\ status.motor /\ Heading # "NONE"
  /\ status.position \notin {"NONE", Heading}
  /\ Outside([status EXCEPT !.position = IF @ = "PARTWAY" THEN Heading ELSE "PARTWAY"],
             {"position"})

Beam ==
  /\ "beam" \in Inputs
  /\ \E b \in BeamStates \ {"MAX", status.beam} :
       Outside([status EXCEPT !.beam = b], {"beam"})

\* The first synchronization, or one after the link was lost.
Synchronize == ~status.synced /\ Outside([status EXCEPT !.synced = TRUE], {"synced"})
LoseLink ==
  "link" \in Inputs /\ status.synced /\ Outside([status EXCEPT !.synced = FALSE], {})

-----------------------------------------------------------------------------
(* What handlers and watchdog have in common.                              *)

\* An unknown position, -1, is clamped to 10000: it counts as closed.
ReadsAs(position, d) ==
  IF d = "CLOSED" THEN position \in {"CLOSED", "NONE"} ELSE position = d

\* process_door_position(): only a door that was never reported is guessed.
Inferred(s) ==
  IF s.door # "MAX" THEN s.door
  ELSE IF \E d \in Ends : ReadsAs(s.position, d)
  THEN CHOOSE d \in Ends : ReadsAs(s.position, d)
  ELSE "MAX"

\* A reported end is believed only where the position agrees.
Confirmed(d, position) == d \in Ends => ReadsAs(position, d)

TargetOf(d) ==
  CASE d \in {"OPEN", "OPENING"} -> "OPEN"
    [] d \in {"CLOSED", "CLOSING"} -> "CLOSED"
    [] OTHER -> "NONE"

\* set_last_door_state(), but for the push: a new state cancels a sounding close.
SetLastDoor(d) ==
  /\ last_door' = d
  /\ close' = IF d # last_door /\ close = "warning" THEN "superseded" ELSE close

-----------------------------------------------------------------------------
(* gdolib's callback task: gdo_event_handler(), one callback at a time.    *)

Takes(event) ==
  /\ handler.at = "idle" /\ event \in owed
  /\ owed' = owed \ {event}
  /\ overlapped' = (overlapped \/ InVerdict)

\* The target of a position event: tracked, not yet re-read, direction first on V2.
PositionTarget(d) ==
  IF protocol = "V1" THEN (IF d \in Moving THEN TargetOf(d) ELSE "NONE")
  ELSE IF in_transit THEN TargetOf(transition_target)
  ELSE status.target

(***************************************************************************)
(* process_door_position(), first half: target, then transition tracking.  *)
(* Called for a position event and again when synchronization completes,   *)
(* because an event that arrives before it is dropped.                     *)
(***************************************************************************)
CatchesUp_Never(event) == event = "position"  \* MUTANT: no catch-up after a sync
CatchesUp(event) == event \in {"position", "synced"}

StartsTracking(d) == d \in Moving /\ (~in_transit \/ transition_target # d)

TrackPosition ==
  /\ \E event \in {"position", "synced"} :
       /\ Takes(event)
       /\ IF status.synced /\ CatchesUp(event)
          THEN LET d == Inferred(status)
               IN  /\ channel' = NotifyTarget(channel, PositionTarget(d))
                   /\ in_transit' = IF d \in Moving THEN TRUE
                                    ELSE in_transit /\ ~Confirmed(d, status.position)
                   /\ transition_target' = IF d \in Moving THEN d ELSE transition_target
                   /\ late' = (late /\ ~StartsTracking(d))
                   /\ handler' = [at |-> "show", door |-> d, position |-> status.position]
          ELSE UNCHANGED <<channel, in_transit, transition_target, late, handler>>
  /\ UNCHANGED <<protocol, status, inputs, last_door, last_obstruction, watchdog,
                 requestVars, hap>>

(***************************************************************************)
(* ... second half: a new state that the position does not contradict.  A  *)
(* jump from end to end shows a moving door first.  That push alone is not *)
(* under the mutex: the watchdog may come between its send and its commit, *)
(* or before the state is written.                                         *)
(***************************************************************************)
ShowsState(d, position) == d # last_door /\ Confirmed(d, position)

Toward(d) == IF d = "OPEN" THEN "OPENING" ELSE "CLOSING"
SendsToward ==
  /\ ShowsState(handler.door, handler.position)
  /\ handler.door \in Ends /\ last_door = Other(handler.door)
  /\ Sendable(channel, "current", Toward(handler.door))

ShowUnchanged ==
  /\ overlapped' = (overlapped \/ InVerdict)
  /\ UNCHANGED <<outsideVars, last_obstruction, in_transit, transition_target, late,
                 watchdog, accepted, unanswered, hap>>

SendToward ==
  /\ handler.at = "show" /\ SendsToward
  /\ handler' = [handler EXCEPT !.at = "commit"]
  /\ channel' = Send(channel, "current", Toward(handler.door))
  /\ UNCHANGED <<last_door, close>> /\ ShowUnchanged

CommitToward ==
  /\ handler.at = "commit"
  /\ handler' = [handler EXCEPT !.at = "write"]
  /\ channel' = Commit(channel, "current", Toward(handler.door))
  /\ UNCHANGED <<last_door, close>> /\ ShowUnchanged

\* A stopped door is shown at the nearer end, if a position was ever read.
NearerEnds(position) ==
  CASE position = "PARTWAY" -> Ends [] position = "NONE" -> {"NONE"} [] OTHER -> {position}
RestTargets(d, position) ==
  CASE d = "STOPPED" -> NearerEnds(position) [] d \in Moving -> {"NONE"}
    [] OTHER -> {TargetOf(d)}

ShowPosition ==
  /\ \/ handler.at = "show" /\ ~SendsToward
     \/ handler.at = "write"
  /\ handler' = Idle
  /\ LET d == handler.door
     IN  IF handler.at = "write" \/ ShowsState(d, handler.position)
         THEN /\ SetLastDoor(d)
              /\ \E t \in RestTargets(d, handler.position) :
                   channel' = NotifyTarget(NotifyCurrent(channel, d), t)
         ELSE UNCHANGED <<last_door, channel, close>>
  /\ ShowUnchanged

\* GDO_CB_EVENT_MOTOR, On: from an end the direction is known ...
MotorDirection == CASE last_door = "CLOSED" -> "OPENING" [] last_door = "OPEN" -> "CLOSING"
                    [] OTHER -> "MAX"
MotorEvent ==
  /\ Takes("motor")
  /\ IF MotorDirection # "MAX"
     THEN /\ SetLastDoor(MotorDirection)
          /\ channel' = NotifyCurrent(channel, MotorDirection)
          /\ handler' = [Idle EXCEPT !.at = "motor", !.door = MotorDirection]
     ELSE UNCHANGED <<last_door, channel, close, handler>>
  /\ UNCHANGED <<protocol, status, inputs, last_obstruction, in_transit,
                 transition_target, late, watchdog, accepted, unanswered, hap>>

\* ... and once it is shown the target follows and tracking starts.
MotorTracks_FramesOnly(d) ==                  \* MUTANT: only a frame starts tracking
  UNCHANGED <<in_transit, transition_target, late>>
MotorTracks(d) == in_transit' = TRUE /\ transition_target' = d /\ late' = FALSE

TrackMotor ==
  /\ handler.at = "motor"
  /\ handler' = Idle
  /\ channel' = NotifyTarget(channel, TargetOf(handler.door))
  /\ MotorTracks(handler.door)
  /\ overlapped' = (overlapped \/ InVerdict)
  /\ UNCHANGED <<outsideVars, last_door, last_obstruction, watchdog, requestVars, hap>>

\* GDO_CB_EVENT_OBSTRUCTION: under the mutex, in one piece.
ObstructionEvent ==
  /\ Takes("beam")
  /\ last_obstruction' = status.beam
  /\ channel' = NotifyObstruction(channel, status.beam)
  /\ close' = IF status.beam # last_obstruction /\ close = "warning" THEN "superseded"
              ELSE close
  /\ UNCHANGED <<protocol, status, inputs, last_door, in_transit, transition_target,
                 late, handler, watchdog, accepted, unanswered, hap>>

-----------------------------------------------------------------------------
(* The HomeKit request thread, the close warnings and the consumer task.   *)

\* send_door_request(): gdolib takes the request or not, and if so may ignore it.
Sends(t, ok) ==
  /\ unanswered' = TRUE
  /\ status' \in IF ok THEN {status, [status EXCEPT !.target = t]} ELSE {status}

Command ==
  /\ "command" \in Inputs
  /\ inputs < MaxInputs /\ inputs' = inputs + 1
  /\ overlapped' = (overlapped \/ InVerdict)

\* gdo_svc_set(), Open: the request first, the target of HomeKit after it.
WriteOpen ==
  /\ Command /\ accepted = "NONE"
  /\ \E ok \in BOOLEAN :
       /\ Sends("OPEN", ok)
       /\ accepted' = IF ok THEN "OPEN" ELSE "NONE"
  /\ close' = IF close = "warning" THEN "superseded" ELSE close
  /\ UNCHANGED <<protocol, owed, trackVars, handler, watchdog, channel, hap>>

\* gdo_svc_set(), Close: a warning, unless one sounds or the door is closed already.
WriteClose ==
  /\ Command /\ accepted = "NONE"
  /\ close # "warning"
  /\ accepted' = "CLOSED"
  /\ close' = IF status.synced /\ ~in_transit /\ status.door = "CLOSED" THEN close
              ELSE "warning"
  /\ UNCHANGED <<protocol, status, owed, trackVars, handler, watchdog, unanswered,
                 channel, hap>>

\* gdo_svc_set(): queue_homekit_target() once the request was accepted.
QueueTarget ==
  /\ accepted # "NONE"
  /\ channel' = NotifyTarget(channel, accepted)
  /\ accepted' = "NONE"
  /\ UNCHANGED <<outsideVars, trackVars, handler, watchdog, close, unanswered, hap,
                 overlapped>>

\* user_close_task(), five seconds on: a close not sent gives HomeKit's target back.
GivesBack == NotifyTarget(channel, IF status.door \in Ends THEN status.door ELSE "NONE")

WarningEnds ==
  /\ close # "none" /\ close' = "none" /\ accepted = "NONE"
  /\ \E ok \in BOOLEAN :
       /\ ok => close = "warning" /\ status.synced /\ status.beam = "CLEAR"
       /\ IF ok THEN Sends("CLOSED", TRUE) /\ UNCHANGED channel
          ELSE UNCHANGED <<status, unanswered>> /\ channel' = GivesBack
  /\ UNCHANGED <<protocol, owed, inputs, trackVars, handler, watchdog, accepted, hap,
                 overlapped>>

\* auto_close_warning_complete_cb(), sched_close_warning_complete_cb(): a close sent
AutomaticClose ==
  /\ Command
  /\ status.synced /\ status.door = "OPEN"
  /\ status.beam = "CLEAR" /\ last_obstruction = "CLEAR"
  /\ Sends("CLOSED", TRUE)
  /\ channel' = NotifyTarget(channel, "CLOSED")
  /\ UNCHANGED <<protocol, owed, trackVars, handler, watchdog, close, accepted, hap>>

\* homekit_task_entry()
Deliver ==
  /\ channel.queue # <<>>
  /\ hap' = Received(channel, hap)
  /\ channel' = Drained(channel)
  /\ UNCHANGED <<outsideVars, trackVars, handler, watchdog, requestVars, overlapped>>

-----------------------------------------------------------------------------
(* gdo_watchdog_task().  Its pass does these things in the order written;  *)
(* only the verdict on a transition keeps what it read across steps, so    *)
(* the others are free to happen whenever the watchdog is not in one.      *)

\* Seconds pass: not while a callback is owed, nor within a handler, verdict or request.
TransitGetsLate ==
  /\ in_transit /\ ~late /\ late' = TRUE
  /\ owed = {} /\ handler.at = "idle"
  /\ watchdog.at = "sleep" /\ accepted = "NONE"
  /\ UNCHANGED <<outsideVars, last_door, last_obstruction, in_transit, transition_target,
                 handler, watchdog, requestVars, channel, hap, overlapped>>

\* A transition has taken too long: sample the status ...
TransitIsLate ==
  /\ watchdog.at = "sleep" /\ in_transit /\ late
  /\ watchdog' = [at |-> "verdict", door |-> status.door, position |-> status.position,
                  target |-> status.target]
  /\ overlapped' = (overlapped \/ handler.at # "idle")
  /\ UNCHANGED <<outsideVars, trackVars, handler, requestVars, channel, hap>>

\* ... stop tracking ...
VerdictClears ==
  /\ watchdog.at = "verdict"
  /\ in_transit' = FALSE
  /\ watchdog' = [watchdog EXCEPT !.at = "settle"]
  /\ UNCHANGED <<outsideVars, last_door, last_obstruction, transition_target, late,
                 handler, requestVars, channel, hap, overlapped>>

\* What the sample says of a door that should have arrived.
Resolved(sample) ==
  IF sample.door \in Ends \cup {"STOPPED"} THEN sample.door
  ELSE IF \E d \in Ends : ReadsAs(sample.position, d)
  THEN CHOOSE d \in Ends : ReadsAs(sample.position, d)
  ELSE "STOPPED"

\* The target is put right where the opener's own target is not where the door is.
VerdictTarget(sample) ==
  LET d == Resolved(sample)
  IN  IF d \in Ends /\ sample.target \notin {"NONE", d} THEN d ELSE "NONE"

\* ... and write the verdict.
VerdictSettles ==
  /\ watchdog.at = "settle"
  /\ watchdog' = Asleep
  /\ LET d == Resolved(watchdog)
         ch == IF d = last_door THEN channel ELSE NotifyCurrent(channel, d)
     IN  SetLastDoor(d) /\ channel' = NotifyTarget(ch, VerdictTarget(watchdog))
  /\ UNCHANGED <<outsideVars, last_obstruction, in_transit, transition_target, late,
                 handler, accepted, unanswered, hap, overlapped>>

RequestPending ==
  /\ status.synced /\ ~in_transit
  /\ status.door \in Ends /\ status.target = Other(status.door)

\* The retry budget is done with a request it once sees not pending.
RequestMoved ==
  /\ watchdog.at = "sleep" /\ unanswered /\ ~RequestPending
  /\ unanswered' = FALSE
  /\ UNCHANGED <<outsideVars, trackVars, handler, watchdog, close, accepted, channel,
                 hap, overlapped>>

\* RETRY_REVERT: a pending one is given up, and HomeKit's target with it.
GiveUp ==
  /\ watchdog.at = "sleep" /\ unanswered /\ RequestPending /\ accepted = "NONE"
  /\ unanswered' = FALSE
  /\ channel' = NotifyTarget(channel, status.door)
  /\ UNCHANGED <<outsideVars, trackVars, handler, watchdog, close, accepted, hap,
                 overlapped>>

\* resend_last_states_to_homekit(), at the end of every pass
OffersAgain_Never == channel                  \* MUTANT: dropped pushes stay dropped
OffersAgain == Resend(channel, last_door, last_obstruction)

ResendLastStates ==
  /\ watchdog.at = "sleep"
  /\ channel' = OffersAgain
  /\ overlapped' = (overlapped \/ (handler.at = "commit" /\ channel' # channel))
  /\ UNCHANGED <<outsideVars, trackVars, handler, watchdog, requestVars, hap>>

-----------------------------------------------------------------------------
OpenerStep == Frame \/ MotorOn \/ Interpolate \/ Beam \/ Synchronize \/ LoseLink
HandlerStep ==
  \/ TrackPosition \/ SendToward \/ CommitToward \/ ShowPosition
  \/ MotorEvent \/ TrackMotor \/ ObstructionEvent
HomeKitStep == WriteOpen \/ WriteClose \/ QueueTarget \/ WarningEnds \/ AutomaticClose
WatchdogStep ==
  \/ TransitGetsLate \/ TransitIsLate \/ VerdictClears \/ VerdictSettles
  \/ RequestMoved \/ GiveUp \/ ResendLastStates

Next ==
  OpenerStep \/ HandlerStep \/ HomeKitStep \/ WatchdogStep \/ Deliver

Spec == Init /\ [][Next]_vars

-----------------------------------------------------------------------------
(* Properties.                                                             *)

Handlers == [at : {"idle", "show", "commit", "write", "motor"},
             door : DoorStates, position : Positions]
Watchdogs == [at : {"sleep", "verdict", "settle"},
              door : DoorStates, position : Positions, target : Ends \cup {"NONE"}]

\* Every variable keeps its type, and the queue its length.
TypeOK ==
  /\ protocol \in Protocols /\ status \in Status
  /\ owed \subseteq {"position", "synced", "motor", "beam"} /\ inputs \in 0..MaxInputs
  /\ last_door \in DoorStates /\ last_obstruction \in BeamStates
  /\ in_transit \in BOOLEAN /\ transition_target \in Moving \cup {"MAX"}
  /\ late \in BOOLEAN
  /\ handler \in Handlers /\ (handler.at = "motor" => handler.door \in Moving)
  /\ watchdog \in Watchdogs
  /\ close \in {"none", "warning", "superseded"}
  /\ accepted \in Ends \cup {"NONE"} /\ unanswered \in BOOLEAN
  /\ channel \in Channels
  /\ hap \in Displays
  /\ overlapped \in BOOLEAN

(***************************************************************************)
(* The copy a producer deduplicates against is what HomeKit will show once *)
(* the queue is empty, although five tasks push, the queue drops, and      *)
(* several values of one characteristic may be under way: a repeated state *)
(* is never swallowed while HomeKit is left with another one.  The one     *)
(* push outside the mutex can break it for the current state: between its  *)
(* send and its commit, and later only if the watchdog came in between.    *)
(***************************************************************************)
CopyIsUpset(c) == c = "current" /\ (overlapped \/ handler.at = "commit")

CopyIsWhatArrives == \A c \in DOMAIN hap : CopyIsUpset(c) \/ CopyArrives(channel, hap, c)

(***************************************************************************)
(* Nothing is under way: no callback owed or being handled, no transition  *)
(* tracked, no request or warning outstanding, nothing in the queue, and a *)
(* pass of the watchdog would offer nothing new.  Every task runs until it *)
(* gets there, so what holds then is what the user is left with.           *)
(***************************************************************************)
Quiet ==
  /\ owed = {} /\ handler.at = "idle"
  /\ watchdog.at = "sleep" /\ ~in_transit /\ ~unanswered
  /\ close = "none" /\ accepted = "NONE"
  /\ channel.queue = <<>> /\ OffersAgain = channel

(***************************************************************************)
(* HomeKit shows the door and the beam the firmware last heard of, however *)
(* many pushes a full queue dropped on the way and wherever the watchdog   *)
(* came in between.  A door last heard of as moving is the exception, if   *)
(* watchdog and callback overlapped: the push outside the mutex may have   *)
(* left a copy of just that state which no message carries, and no verdict *)
(* follows, see MovingIsWatched.                                           *)
(***************************************************************************)
MayBeSwallowed == overlapped /\ last_door \in Moving
QuietShowsLastStates ==
  Quiet => /\ last_door # "MAX" /\ ~MayBeSwallowed => hap.current = last_door
           /\ last_obstruction # "MAX" => hap.beam = last_obstruction

(***************************************************************************)
(* A door that came to rest at an end is reported there, whatever frames,  *)
(* syncs, motor events and requests came before, unless the watchdog and a *)
(* callback overlapped.                                                    *)
(***************************************************************************)
RestsAt(d) == status.synced /\ status.door = d /\ status.position = d
RestIsReported ==
  \A d \in Ends : Quiet /\ RestsAt(d) /\ ~overlapped => last_door = d

(***************************************************************************)
(* A moving door on show is one the watchdog watches, so that it cannot    *)
(* move forever if its last frame is lost, unless the watchdog and a       *)
(* callback overlapped: s_door_in_transition is cleared without the mutex. *)
(***************************************************************************)
MovingIsWatched ==
  last_door \in Moving /\ handler.at = "idle" /\ ~InVerdict /\ ~overlapped => in_transit

-----------------------------------------------------------------------------
(* The inductive invariant: what makes the properties above hold.          *)

\* Target and beam are pushed in one piece.  The copy of the current state is ahead of
\* nothing but a moving door; without an overlap what the handler sent is what arrives.
CopiesHold ==
  /\ CopyArrives(channel, hap, "target") /\ CopyArrives(channel, hap, "beam")
  /\ handler.at # "commit" =>
       \/ CopyArrives(channel, hap, "current")
       \/ overlapped /\ channel.queued.current \in Moving
  /\ handler.at = "commit" /\ ~overlapped =>
       Arriving(channel, hap, "current") = Toward(handler.door)

\* A handler and a verdict in progress at once are an overlap ...
OverlapIsRecorded == handler.at # "idle" /\ InVerdict => overlapped

\* ... so that otherwise the watchdog's sample still is the status, and what the handler
\* inferred too, unless another callback will bring what is newer.
SampleIsFresh ==
  InVerdict /\ ~overlapped =>
    watchdog.door = status.door /\ watchdog.position = status.position
Showing == handler.at \in {"show", "commit", "write"}
InferenceIsFresh ==
  Showing => \/ "position" \in owed
             \/ handler.door = Inferred(status) /\ handler.position = status.position

\* A door at rest is shown there, or something that will show it there is under way.
RestWillBeReported ==
  \A d \in Ends : RestsAt(d) /\ ~overlapped =>
    \/ last_door = d \/ owed \cap {"position", "synced"} # {}
    \/ handler.at # "idle" \/ in_transit \/ watchdog.at = "settle"

\* A moving door is watched, or something that will show it at rest is under way.
WillShowRest ==
  Showing /\ handler.door \notin Moving /\ Confirmed(handler.door, handler.position)
MovingWillBeWatched ==
  last_door \in Moving /\ ~overlapped =>
    in_transit \/ watchdog.at = "settle" \/ handler.at = "motor" \/ WillShowRest
InferredMovingIsWatched ==
  Showing /\ handler.door \in Moving /\ ~overlapped => in_transit

Tracking ==
  /\ OverlapIsRecorded /\ SampleIsFresh /\ InferenceIsFresh
  /\ RestWillBeReported /\ MovingWillBeWatched /\ InferredMovingIsWatched

IInv == TypeOK /\ CopiesHold /\ Tracking
=============================================================================
