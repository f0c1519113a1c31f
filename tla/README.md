# A verification development for gdo-blaq-homekit

TLA+ models of the firmware in `main/`, checked with TLC on small instances; their
safety properties are proved with TLAPS for every value of the parameters.
Paths and line numbers are those of the repository; `GDO` stands for
`main/gdo-blaq-homekit.cpp`.

## 1. The system

A garage-door controller on an ESP32. gdolib speaks Security+ 1.0 / 2.0 with the
opener over a UART, esp-homekit-sdk speaks HomeKit, esp_http_server serves a
diagnostics page. These libraries are external; what is modelled of them is only
what the firmware relies on.

| Component (code) | State it keeps | Operations | Interacts with | What is hard | What makes it correct |
|---|---|---|---|---|---|
| Door control (GDO 206-349, 1356-1751) | close generation, command id, pending-close slot, auto-close flag and clock, schedule flag, retry budget | open, close, end of a warning, watchdog pass, settings | gdolib calls and callbacks, warning tasks, HomeKit thread, diag server; one recursive mutex (`ControlGuard`) | a warning lasts 5 s outside the mutex while everything else may happen | no close without a whole undisturbed warning and a clear beam; slot and flags always released |
| Door position inference (GDO 384-667, 1246-1302, 1509-1641) | last door, transition target and start, learned travel time | position event, motor event, late-transition verdict | door control, HomeKit | missing and stale frames | never reports an end position the sensor contradicts; no transition for ever |
| Scheduled close (`close_schedule.h`, GDO 957-1064, 1413-1485, `clock_sync.cpp`) | schedule, last day fired (RAM and NVS), open-since clock | check, edit, load at boot | door control, NVS, SNTP | minute granularity, midnight, reboot in the window, stepped clock, failing saves | once a night, and only a door open before the minute |
| HomeKit notifications (`homekit.cpp` 503-828) | queue of 32, last delivered values | notify, resend, consumer | GDO, HAP | full queue, one-shot events, superseded target | HomeKit's view converges to the real state |
| Light, lock, motion and Learn accessories (GDO 1185-1231, 1322-1328, `homekit.cpp` 282-307, 591-606, 692-828) | what was last heard, what was last queued | event, push, re-offer, HomeKit write | GDO, watchdog, HAP | two tasks push without a lock, a push in two halves, writes past the queue | HomeKit's view converges, the lock's target with its state |
| Opener synchronisation (GDO 695-865, 1074-1183, 1784-1828) | rolling code, client id, protocol, pairing fault, identified flag | load, save, recover, wait for the protocol | gdolib, NVS, HomeKit task | reset between saves, noise, a protocol only probed | codes never go back; V2 is never overwritten; no Learn tile without evidence |
| Settings store (GDO 836-928) | NVS keys and RAM copies | save then publish | door control | failing writes | RAM never runs ahead of NVS |
| Diagnostics server (`diag_webserver.cpp` 1652-1974) | server handle, three flags | first start, restart on reconnect | Wi-Fi events | no lock at all | one server, one restart task, no reconnect lost |
| Firmware update (`diag_webserver.cpp` 378-654, 1870-1923) | OTA slots, blocked and pending marks | receive, confirm, cancel, expire, roll back, accept at the start | NVS, OTA API, bootloader, admin credentials | reset or failing write between any two steps | only what was confirmed runs; only what was proven is offered for rollback; a bad image is left |
| Admin credentials (`diag_webserver.cpp` 185-354) | one blob in NVS, three keys of older releases, RAM copies | load, enrol, change, authorise | NVS | failing write, lost answer, unreadable NVS | the owner is not locked out, enrolment does not reopen |
| Activity history, log ring, error counters | rings and counters | record, read | every task | wrap-around, all under one lock each | readers see a true suffix |
| Wi-Fi provisioning, page HTML/JSON, parsing, scripts | - | - | - | - | - |

`PROJECT.json` lists every component with its status and every hazard with the
line where it bites.

## 2. The modules

| Module | Models | Composes |
|---|---|---|
| `RetryBudget` | `retry_budget.h`: operators on a budget record | - |
| `GuardedClose` | what the owner is promised of every close: an abstract specification of three variables | - |
| `DoorControl` | the control core: requests, warnings, auto-close, schedule arbitration, settings, watchdog | `RetryBudget` (EXTENDS), implements `GuardedClose` (INSTANCE) |
| `DoorControlProofs`, `DoorControlRefinement` | theorems about `DoorControl`; that it implements `GuardedClose` | `DoorControl`, TLAPS |
| `CloseSchedule` | which night and minute the schedule may fire on; clock, NVS, reboot | - |
| `DiagServer` | life cycle of the web server and its flags | - |
| `HomeKitNotify` | the queue to the HomeKit task and the copies pushes are compared with: operators on a channel record | - |
| `DoorTracker` | what the firmware believes about the door and what HomeKit is shown: callbacks, transition tracking, the watchdog's verdict, targets | `HomeKitNotify` (EXTENDS) |
| `Accessories` | light, lock, motion and Learn: events, pushes of two tasks, HomeKit writes | - |
| `SyncRecovery` | protocol and rolling code: retries, pairing fault, NVS, resets; the wait that decides about the Learn tile | - |
| `AdminCredentials` | the admin password: NVS, boot, enrolment, change: actions on its own variables | - |
| `FirmwareUpdate` | slots, uploads, confirmation, rollback, the accepting start, resets | `AdminCredentials` (EXTENDS) |
| `CloseScheduleProofs`, `DiagServerProofs`, `DoorTrackerProofs`, `AccessoriesProofs`, `SyncRecoveryProofs`, `FirmwareUpdateProofs` | theorems about the module of that name | that module, TLAPS |

`DoorControl` and `DoorTracker` look at the same handlers from two sides and are
kept apart: the first keeps the counters and flags that decide about closing and
leaves the door states to chance, the second keeps the door states and leaves to
chance whether a close is sent. `Accessories` has the same queue as
`HomeKitNotify` but not its operators: there a push is one step or cut in two under
the rules of the door's mutex, here there is no mutex and the lock's push has two
messages. `FirmwareUpdate` and `AdminCredentials` share the httpd task, the start that
waits for the network, and the resets; an upload needs a password to be set.

### DoorControl

*State.* Each file-scope variable of GDO that decides about closing is a
variable with its own or an obvious name (`user_pending` is
`s_user_close_pending`, `auto_triggered` is `s_auto_close_triggered`, ...).
`opener` is what `gdo_get_status()` would return now. `warnings` is the set of
warning tasks in flight, each with the generation it carries; `pc`, `lag` and
`snapshot` are the watchdog's program counter, the age of the `now` it read and
the locals it keeps across a warning. `resends`, `wd_quiet`, `last_close` and the field `quiet` of a warning are history: no
action reads them to decide.

*Actions.* One per handler, and the watchdog loop cut where it reads without the
mutex what it uses later: `CheckTransit` samples the status and
`ResolveTransit` writes the verdict; `CheckRetry` decides, `RetryResends` acts
after the watchdog's own warning; `CheckAutoClose` tests outside the mutex,
`ArmAutoClose`/`AbandonPass` test again under it.

*Abstractions.*
- Opening, Closing and Stopped are one door value, PARTWAY: no control decision
  distinguishes them. That a change between two of them bumps the generation is
  the parameter `other` of `SetLastDoorState`.
- Which state `process_door_position()` infers is what the opener says, or
  nothing at all when the raw position contradicts it (a stuttering step).
  Whether a transition is late, and what a mid-range verdict is, is a
  nondeterministic choice.
- Time is kept as ages in ticks. Steps take no time; `Tick` happens only while
  the watchdog sleeps or sounds a warning. A warning ends between `WarnTicks`
  and `WarnMax` ticks after it was armed. The open clock and the budget's age
  saturate just above every value they are compared with.
- `gdo_get_status()` never fails here (in this firmware it only copies a
  struct); every call that can fail for lack of memory, queue space or flash
  can (`failure`).
- "ignored": gdolib drops a request for where the door already is. Whether it
  then updates `door_target` is not in this repository, so both are allowed.
- `sched_window` says whether `CloseSchedule`'s arithmetic lets the schedule
  fire; `SkipSchedule` is always possible, since the day may not be saved or
  the door not open for long enough.
- HomeKit notifications are outputs that no control decision reads. They are
  left out here.
- `MaxGen` and `MaxCmd` bound the two counters; the actions that count are
  disabled at the bound (`RoomToSend` keeps a command id for every armed
  warning). Nothing else is bounded.

*The promise.* `GuardedClose` says what the counters are for, without them: a set
of warnings that sound undisturbed, whether the opener is ready, how many closes
were asked. `Promise` maps `DoorControl` to it: `Sounding` is the undisturbed
warnings and, while the watchdog itself warns before a retry, that warning;
`last_close.count` counts closes. Every step of every task must be a step of
`GuardedClose` or a stutter, so a disturbance ends all warnings at once wherever in
the code it happens, no warning is shortened, and one warning gives one close. The
last is more than `CloseIsWarnedAndQuiet` says: two closes for one warning would satisfy
it. (`sched` checks the refinement, `auto` the invariant.)

### CloseSchedule

*State.* `sched`/`last_day` are the RAM copies, `nvs` the versioned blob,
`open_since` is `s_door_continuously_open_since_ms` (lost at a reboot) beside
the true `opened_at`. `opener` says whether the opener is in sync and, if so, whether
anything else hinders a close. `stage` is the firing: the day is saved (`reserved`), the
warning started (`armed`), disturbed (`cancelled`). `began` remembers when the
local clock last came to each minute, and `fired` the windows that fired. `missed` is
history too: the door was not open at some time since `open_since`.

*Actions.* `ReserveDay`, `StartWarning` and `WarningFails` are the three parts
of `sched_close_check()` that flash and memory can separate; the mutex is held
across them, so only `Reboot` may come between. A save that reports failure
leaves NVS old or new. `ClockSteps` steps the wall clock (daylight saving,
SNTP) and not the monotonic one. The door moves whether or not it is heard: `DoorOpens`
and `DoorCloses` reach `open_since` (`Hears`) only in sync, since position events are
dropped otherwise (GDO:435); `OpenerSyncs` is the catch-up, which hears where the door is
and not where it has been, and a door still, or again, OPEN keeps its open-since
(GDO:397). Out of sync a motor event or the verdict on a late transition may change
what the firmware believes (`DoorGuessed`). `Tick` needs the watchdog to have looked once:
a tick stands for half a minute, the watchdog's period is five seconds.

Days are counted from an origin at least two days before the first tick rather than
with `close_schedule_days_from_civil()`: the firmware compares the value for equality
only, and a clock that SNTP has set shows a day long after that function's day 0. So
the day 0 that means "never fired" is no day of a window (`TimeAssumption`).

### DiagServer

Every read and write of `s_server`, `s_server_started_once`,
`s_restart_task_running` and `s_restart_again` is a step: nothing protects
them. `httpd_start()` writes the handle in one step and the registrations
follow in another. esp_http_server is external: `instances` counts servers that
hold the port, and a start fails while there is one. A registration that fails stops the
server (`HttpdRegister`), but for that of `pre_close_buzzer_uri` (`LeftHalf`,
`diag_webserver.cpp:1770`), which returns with the server running; `half` marks such a
server. A reconnect event may be handled at any
time, also while the first start is under way. Two variables are history: `raced` (a
restart task was created before the first start was over) and `promised` (a pass is
still to begin for an event that came while a restart task was in its loop).

### HomeKitNotify and DoorTracker

*State.* `status` is gdolib's status, `owed` the callbacks it has yet to make;
`last_door`, `last_obstruction`, `in_transit` and `transition_target` are the
variables of GDO without their prefix. `channel` is the queue with the last value
queued of each characteristic (`queued_*` in `homekit.cpp`), `hap` what
HomeKit shows. `handler` and `watchdog` say where gdolib's callback task and the
watchdog are and what they carry. `close`, `accepted` and `unanswered` keep of the
requests only what decides which target is pushed. `overlapped` is history: a
callback has run while the watchdog was in a verdict, or the watchdog has pushed
while a callback was between a send and its commit. `QuietShowsLastStates` excuses a
door last heard of as moving where that happened: the push outside the mutex may leave
a copy of just that state with no message to carry it.

*Actions.* A position event is `TrackPosition` (target, tracking) and then
`ShowPosition`; a motor event is `MotorEvent` and then `TrackMotor`; the verdict on
a late transition is `TransitIsLate` (sample), `VerdictClears` (flag) and
`VerdictSettles`. The cuts are where the code leaves or has not entered the mutex
and the other task reads what is written. The transitional push of GDO:600-604 is
the one push outside the mutex and is cut once more: `SendToward`, `CommitToward`.

*Abstractions.*
- gdolib is external: frames, motor, interpolated positions and beam change its
  status in any order; each change owes a callback, and callbacks of one kind
  merge, since a callback reads the status as it is when it runs.
- `door_position` is `CLOSED` or `OPEN` within 200 of an end (the tolerance of
  GDO:535-538 and 1560-1584), `PARTWAY` elsewhere, `NONE` for -1. Where the code
  compares with the middle (GDO:650), PARTWAY is nearer to either end.
- Learned travel times only set how long a transition may take; `late` is a choice
  made while nothing is owed, since seconds pass and callbacks take milliseconds.
- Light, lock, learn and motion have a module of their own, `Accessories`.
- What must hold in the end is an invariant of `Quiet` states, in which every task
  has done what it has to, instead of a liveness property: a task that has
  something to do is never blocked here, and the resend is what ends last.

### Accessories

*State.* `last` is what GDO last heard (`last_light`, ...), `copy` what
`homekit.cpp` last queued, `push` where each of the two tasks is in a push, `queue`
the queue, `hap` what HomeKit shows. `consuming` is set when `hap_start()` returns,
up to half a minute after the first events: until then nothing drains the queue.
`written`, `collided` and `half_from` are history.

*Actions.* `Event`, `DoorEvent` (the light at the end of
`process_door_position()`) and `Resend` begin a push; `Offer` compares with the copy
and sends, `Second` sends the other half of the lock, `CommitCopy` writes the copy.
None is under a mutex: the `ControlGuard` of `resend_last_states_to_homekit()` is
not taken by the callback task here. `Write` is a HomeKit write that gdolib accepts,
`WriteReturns` its direct update of the characteristic, `Answers` what the opener
makes of it; what gdolib refuses changes nothing. `HideLearn` and `HomeKitStarts` are
the two moments of `homekit_task_entry()` that the pushes depend on.

*Abstractions.* A state is ON or OFF. gdolib sends a callback for each change and
callbacks of one kind merge. An accessory has one command outstanding at a time. Wi-Fi
setup mode, in which HomeKit never starts, is a behaviour without `HomeKitStarts`.

### SyncRecovery

*State.* The variables `s_sync_retry_count` and `s_gdo_pairing_fault`, the age of
`s_sync_first_failure_ms`, the NVS namespace `gdo_rolling`, and `handler`, the
place of the SYNCED callback between its writes. `opener` and `gdo` are
external: the opener's protocol and counter, gdolib's protocol and code.
`unsynced_for` is history.

*Actions.* `SyncFailed` and `SyncSucceeded` are the two branches of the callback,
`SaveProtocol` and `SaveRollingState` the two writes a reset may separate; `Reset`
ends in what `gdo_load_persisted_rolling_state()` seeds. A synchronization on the
opener's protocol succeeds with a code beyond the opener's counter; noise can make
one fail or look like Security+ 1.0.

*Abstractions.* Codes count in jumps (+100 is 1). The client id goes with the
code and is left out. A write that reports failure leaves the old value or the new
one. `nvs_flash_init()` erasing a partition it cannot read is left out: nothing the
properties speak of survives it. The UART shutdown before a restart is left out.

*The tile.* gdolib without a pinned protocol sets `status->protocol` to whatever it
is probing (`Probes`); `Identified` is the flag the callback sets on evidence,
`DecideTile` what the HomeKit task makes of it, once per boot. `reprobed` is
history: gdolib went on to another protocol between evidence and reading. `MaxTrouble` bounds what goes wrong (noise, other
controls, lost links, failing reads, refused calls, resets).

### AdminCredentials and FirmwareUpdate

*State.* `blob` and `legacy` are what NVS holds of the password, `password` the RAM
copy; `stored` is a handler between its write to NVS and its answer. `acked` and
`asked` are history: what the owner was told, and asked for since. `image`, `mark` and
`trial` describe the two slots: the content, the eligibility mark in NVS, and the
bootloader's own state; `running`, `selected` and `started` say what runs, what the
bootloader is to start, and how far the start has come. `pending` is the upload that
is shown and waits for Confirm. `image.by`, `image.proven` and `unrestarted` are history.

*Actions.* `UploadBlocks`, `UploadErases` and `UploadEnds` are the parts of
`firmware_receive()` that a reset may separate: the mark is written, the slot erased,
the image complete. `Confirm`, `Cancel`, `RollBack` and `Restart` are the handlers,
`ServerStarts`, `MarkValid` and `RecordEligible` the end of the first start. `Reset` is possible at
every step and includes the bootloader's choice. A handler runs to its end before the
next (one httpd task), so between handlers nothing interleaves; resets, failing writes
and lost answers do.

*Abstractions.* The bootloader and the OTA calls are external and modelled by what
the code relies on (a new image is tried once; a reset before it is marked valid
brings the other back). An image either comes up as far as the server or never does; it
may be of an older release that knows neither marks nor the new credentials, and such a
release updates on its own (`OldRelease`). A password is a model value: hashing and
the rules for its text are left out, and so is the origin check. Expiry of a pending
upload and Cancel are one action.

## 3. The runs

| Run | Question | Result |
|---|---|---|
| `auto` | Does the auto-close clock follow the door, and may two auto warnings overlap? | holds |
| `sched` | May a close run after anything disturbed it, or two for one warning? Do schedule, auto-close and user close keep apart, under button, beam, edits and failures? Does the core implement `GuardedClose`? | holds |
| `release` | Is everything pending given up at last? | holds; the auto-close while the link stays up and unless an Open was taken after it |
| `schedule` | Does the schedule fire once, in time, and only for doors open before? | holds; the last as far as the firmware hears of the door |
| `diag` | One restart task, one server, registered as a whole, a pass for each reconnect that comes in time? | holds; handle and pages where no restart raced the first start and the buzzer switch could be registered |
| `view` | Is HomeKit left with what the firmware last heard, and the firmware with where the door is? Is a moving door watched? | holds, the last two unless watchdog and callback overlap |
| `sync` | Does V2 stay, does the saved code only grow, do the jumps catch up, is a fault earned, is a Learn tile shown on evidence only? | holds; the tile unless gdolib changes the protocol in between |
| `update` | With resets anywhere: does only a confirmed image run, is only a proven one offered for rollback, is a bad one left, can the owner be locked out or enrolment reopen? | holds, unless the restart after a confirmation cannot be started |
| `accessories` | Is HomeKit left with what was last heard of light, lock, motion and Learn? | holds where HomeKit did not write last and no two first pushes overlap |
| `stuck` | ... is the auto-close given up also after a blip of the link? (README.md:94) | no: finding |
| `saving` | Is a door opened after the scheduled time left alone? (close_schedule.h:50) | not when daylight saving ends: finding |
| `half` | Does the lock's target follow its state? (homekit.cpp:782, 791) | not when half a push was dropped: finding |

*Bounds.* In `DoorControl` the counters allow up to four generations (three in
`sched`, where nearly every input is on, and in `release` and `stuck`: door and beam
become known, and one request overtakes) and two commands: a request and one that
overtakes it. The tests on the counters only ask
whether a value is still the current one. Warnings of one or two ticks against
timeouts of two and three make a warning end before, with and after a timeout. Each
run switches on the inputs its question needs (`Inputs`); the theorems cover all of
them together. `CloseSchedule_window` runs with a day of four minutes, a
window of two and two ticks a minute over nine ticks, two minutes to choose and two zones:
the window of the later minute lies across midnight, a step of the clock is as long as
a window or longer, and with it the clock comes to a second night. `MayLoseSync` lets
the opener fall out of sync at any time; it is off in `saving` (a day of six minutes, a
window of three), whose counterexample needs only the clock. `DiagServer` has two slots
for restart tasks, so that a second one could be seen, and four reconnects.
`DoorTracker` has a queue of two, so that it overflows at once (the mutants that
drop the resend or unbound the queue are found), and three steps of the outside,
not counting synchronizations: a door that leaves one end and comes to the other
while one more thing happens. The interpolated position, the queue and the verdict
then interleave with each of them in over a million states. `SyncRecovery` lets four
things go wrong with a jump that doubles twice: enough for the cap to be reached
and for a reset after a lost confirmation. `FirmwareUpdate` writes three images and
stores two passwords, so that each slot is overwritten while the other runs and a
rollback can meet either; resets are unbounded. `Accessories` has the queue of two and
three steps of the outside as well: a change, one back, and a write of HomeKit, over a
queue that the two halves of one lock push fill. `CHECK_DEADLOCK FALSE` is said where the
horizon or the bound on events ends the exploration.

*Fairness.* `DoorControl!Fairness`: time passes, a warning task and the watchdog
run (FreeRTOS schedules every ready task). No report of the opener is assumed: gdolib
sends one only on a change or at a sync, and cannot be asked for another (GDO:358,
413-415). `PendingSlotFreed` asks nothing more. `AutoCloseGivenUp` is conditional: on the
link staying up, on the door staying open, and on no Open that the opener took after the
auto-close (`OpenOvertook`); opens, closes, refusals and the beam are otherwise free.
`SyncRecovery!Fairness`: gdolib ends
a synchronization it began, and its callback runs; `CatchesUp` asks for nothing
where one more thing goes wrong. `FirmwareUpdate!FairSpec`: a device whose image does
not come up is reset at some time (it crashes, or its owner pulls the plug); nothing
else is assumed, and `BadUpdateIsLeft` needs no more.

### What the findings say

- `stuck`: `retry_budget_step()` marks a command done as soon as one tick sees
  it not pending. `pending` is also false while the opener is out of sync, so
  one blip spends the budget without the REVERT that clears
  `s_auto_close_triggered`: auto-close and schedule stay off until the door moves.
  The condition `opener.synced` in `AutoCloseGivenUp` is only an eventual one, so the
  blip violates it.
- `saving`: with the schedule at 00:57 and clocks going back from 02:00 to
  01:00, the minute 01:00 lies inside the window a second time.
- `half`: the lock changes while the queue has room for one message. Its target is
  queued, its current state is not, and `last_lock` keeps the older value so that
  "the next call retries both halves together". If the lock then returns to the
  older state, each retry sees `lock == last_lock` and returns, and HomeKit keeps a
  target nobody asked for.

Disagreements that are in the models without a run of their own:

- README.md:94 also says that an auto-close the opener never acted on no longer blocks
  auto-close and schedule. If a HomeKit Open follows before the retry budget is spent, the
  newer command asks an open door to open: it is not pending, `retry_budget_step()` is
  done at once (retry_budget.h:32), no REVERT comes, and `gdo_control_open()` (GDO:255-261)
  does not clear `s_auto_close_triggered`. The flag stays set until the door moves, with
  the link up. Without `~OpenOvertook` TLC finds this for `AutoCloseGivenUp`.
- README.md:171 says that a door closed at the set time, or opened after it, is left
  alone. Position events are dropped while the opener is out of sync (GDO:435), and a door
  found OPEN again keeps its open-since (GDO:397-401). A door that closes and opens again
  meanwhile, without a motor event, looks open all along, and the schedule may close it
  although it was opened after the minute. Without `~missed` TLC finds this for
  `FiresOnlyIfOpenBefore`.
- diag_webserver.cpp:1770-1773: where every other failed registration stops the server,
  that of `pre_close_buzzer_uri` does not. In a restart task half of the pages are served
  until the next network event stops that server. In the first start the retry five
  seconds later calls `httpd_start()` against the port that is still held; it fails, sets
  the handle to null, and unless a network event came in those five seconds nothing
  can stop the server any more: the retries go on for ever. Without
  `~(half /\ FirstIsStarting)` TLC finds this for `HandleIsTheServer`, without `half` the
  missing pages for `IdleServerIsComplete`.
- retry_budget.h:13 promises at most one retry of a command. The watchdog samples
  command N, warns for five seconds and then revalidates the generation only
  (GDO:1663-1668); a user close whose warning ends in that time becomes command N+1
  without changing the generation. It is sent a second time at once and a third time
  by its own budget (`RetryResends`). `RetriesAreBounded` says that this is the worst.
- diag_webserver.cpp:1928-1931 says that the guard of line 1961 avoids racing the first
  start. `httpd_start()` writes `s_server` long before that start is over, so a reconnect
  in between passes it; two tasks may then start and stop the same server, and one is
  lost with its port. `HandleIsTheServer` without `~raced` is violated at once.
- GDO:641 guards against the -1 position only for a target. At a first
  synchronization with neither state nor position, line 423 makes it 10000 and the
  door is reported closed until the first frame (`ReadsAs`, `Inferred`).
- README.md:55 says that only an image that has booted with the new settings is
  offered for rollback. A release that knows no marks may overwrite a slot that is
  marked eligible, and the mark stays (`OldRelease`); with a run of its own TLC finds
  such a slot offered. `MarkIsEarned` excludes what such a release wrote.
- The result of `xTaskCreate(delayed_restart_task, ...)` is ignored at
  diag_webserver.cpp:598 and 651. The new slot is then selected and nothing restarts; a
  later upload overwrites it, and the next reset starts what nobody confirmed. Without
  `~unrestarted` TLC finds this for `OnlyConfirmedRuns`.
- The Learn tile: between evidence and reading (GDO:1801-1810) gdolib may have gone on
  to probe V2, and the tile is shown for an opener that was heard as V1. Without
  `~reprobed` TLC finds this for `TileIsProven`.
- The pushes of light, lock and motion share no mutex. Where the first pushes of the
  callback task and of the watchdog overlap (both see the copy at its initial MAX),
  the copy may end with one value and the queue with the other (`collided`).
- homekit.cpp:594-597 updates a characteristic only once gdolib accepted the command,
  so that no state the opener was never told about stays shown "with nothing to
  correct it". The update goes past the copy: a command that gdolib accepts and the
  opener ignores stays shown all the same, since no report differs from the copy and
  the resend sees nothing to do (`written`).
- GDO:1744 says that the last known states are offered again; Learn is not (`Reoffered`).

- The `continue` at GDO:1717 skips the scheduled-close check of that pass,
  although GDO:1412 says it is called every tick (`AbandonPass`).
- A REVERT for an older command clears `s_auto_close_triggered` while a later
  auto-close warning sounds and the door stays open, although GDO:938 says only
  leaving OPEN clears it (`CheckRetry`); the close that follows is still warned.
- A request that gdolib refuses still gets a new id, and the retry reads the target
  gdolib was left with: an Open that was not acted on can be carried out after a
  newer Close was refused (GDO:1643-1650; `RetryResends`).
- A reconnect that tests `s_restart_task_running` just before the restart task
  clears it, and writes `s_restart_again` just after, gets no pass
  (diag_webserver.cpp:1953-1966; `AskAgain`).
- README.md:93 says dropped pushes are offered again; targets are not
  (GDO:1487-1494; `Resend`).
- The transitional push of GDO:600-604 is outside the mutex that GDO:378-383 gives
  as the way to keep pushes in order. The watchdog's resend in between leaves the
  copy and the queue disagreeing (`CopyIsUpset`), until the next change.
- `s_door_in_transition` is cleared at GDO:1586 without the mutex, after the status
  was sampled. A transition whose first frame is handled in between loses its
  tracking while OPENING or CLOSING is shown, and nothing watches it any more.
  Without the restriction `~overlapped`, TLC finds this for `MovingIsWatched` in
  two steps of the outside; it has the symptoms of the incident of GDO:1261-1272.
  In the same way the verdict can overwrite the end a callback has just reported
  (`RestIsReported`).
- A verdict puts HomeKit's target right only where the opener's own target differs
  (GDO:1605-1621), so HomeKit may be left with a target nothing pursues.

## 4. What is proved

Every safety invariant and every action property that a passing run checks is a
theorem, for every value of the constants: any number of warnings, restart tasks,
events, passwords, uploads, edits and reboots, a queue of any length, a day of any
number of minutes. Each module has an inductive invariant `IInv` written out in its last
section; TLC checked each on the instance of the module's run before it was proved.
`Invariance` in each proof module has one step per action (a lemma where the step is
long), and the properties follow from it in theorems of their own.

### Assumptions

Only what the modules assume of their constants, all evaluated by TLC on every run:

- `TimingAssumption` (`DoorControl`): a warning is no longer than `WarnMax`, and every
  timeout the setter accepts is longer than that (one minute against five seconds).
- `TimeAssumption` (`CloseSchedule`): the window is shorter than a day, and all days are
  after day 0, also after a step back.
- `PowerAssumption` (`SyncRecovery`): `2 ^ n` lies between 1 and `2 ^ MaxShift` for the `n`
  up to `MaxShift`. It is arithmetic, which the provers do not know of `^`.
- The others give types and that sets and bounds are not empty.

One theorem has a hypothesis of its own: `Once` needs `StepsBackAreSmall`, that a step
back of the clock and the window fit into a day. Daylight saving takes back an hour and
the window is five minutes. After a step back of more than that the clock may stand in an
earlier window that fired too and whose day is no longer the recorded one.

### Door control

The safety invariants alone are not inductive, because what a warning decides at its end
depends on what happened to the counters since it was armed:

- `WarningsAreDated`: a warning's generation never exceeds the current one, and a
  warning of the current generation is undisturbed. With the test at its end this
  gives `ClosesAreWarned`.
- `ClockHidesAutoWarning`: while an auto warning sounds, either the flag is set
  or the open clock is younger than the warning, hence below every timeout. This
  is why no second auto warning can overwrite the two globals the first will
  read, although door motion clears the flag under it (`AutoWarningIsAlone`,
  lemma `NothingSoundsWhenDue`).
- `RetriesAreCharged` (`RetriesBounded`): what may still be resent is covered by what the
  budget of the latest command has not been charged with, plus the one retry of an older
  command whose warning was already sounding.

`PromiseIsKept` is the refinement: each action is a step of `GuardedClose` or a
stutter. What has to be shown of each sender is that its warning is among those that
sound, which is what `WarningsAreDated` says; of every other step, that it disturbs all
warnings or none. The watchdog's own warning starts at age zero (`PassIsPrompt`).

### Scheduled close

`ClockFace` is the arithmetic of `close_schedule.h` for every local time and minute: the
whole minutes since the scheduled one, modulo a day, are those of the time into the
window rounded down, and the day that `close_schedule_window_day()` names is the
quotient of the time since the scheduled minute. From there:

- `BeginningsAreKnown`: until it is stepped the clock tells when each minute last
  began; a step forward can only skip the beginning of one. Together with
  `ReservedForAnOpenDoor` (what the reservation was made for holds until the warning
  starts, since the mutex is held) this is `OpenBefore`: the open-since the firmware
  keeps is before the minute, and so is the true opening unless a closing went unheard
  (`OpennessIsKnown`, and the part of `TypeOK` about `missed`); and `EligibleFires` reads the same
  equality in the other direction, for every minute at which the check says no.
- `DaysAreReached` (no recorded day, in RAM or NVS, is one whose window the clock has not
  come to) and `FiredIsRecorded` (no recorded day is before a window that fired, whatever
  save or reservation was lost or undone) are kept together; when the check passes, the
  recorded day is then an earlier window, so the one that fires is new (`Once`).

### Diagnostics server

`ClaimIsHeld` says that `s_restart_task_running` is set exactly from `Claim` to the last act
of the task it is for, which makes two tasks impossible (`RestartIsAlone`) without a lock.
`StartsFromNothing` and `PortIsHeldOnce` carry `HandleIsExact` and `ServerIsComplete`, for
behaviours without a restart that raced the first start, and with the exceptions that a
server left half-registered (`half`) makes in the code. `EventIsNoted` gives `EventsGetPasses`.

### Door tracker and accessories

Both rest on what the queue will bring: `CopyArrives` and `WillShow` say which value of a
characteristic is shown once the queue is empty, and sending, delivering and dropping are
shown to keep it for a queue of any length (lemmas `SendArrives`, `DeliveryKeepsArriving`;
the last message of a characteristic exists because indices are bounded). `CopiesHold` and
`PushesHold` then follow the copies through pushes that are cut in two: between the send
and the commit the copy is behind what was sent, and only the pusher knows. `Tracking`
says for each place of the callback task and of the watchdog what it still has to do for
a door that rests or moves, and gives `RestIsShown` and `MovingIsNotForgotten`.

### Opener synchronisation

`SyncedIsConfirmed` and `HandlerSavesAhead` relate NVS, gdolib's code and the opener's counter
at each place a reset may cut the handler, hence `SavedCodeAdvances` and `ConfirmedStays`;
`StreakIsTimed` bounds the age of the failures by the time out of sync (`FaultsAreEarned`);
`EvidenceCounts` follows the evidence to the Learn tile (`TilesAreProven`).

### Firmware update and credentials

`StoredIsKnown` and `LoadedOrUnset` say what a boot at this moment would read, including
between a handler's write and its answer (`OwnerIsKnown`, `EnrolmentIsOnce`). `ShownIsUnmarked`
keeps the slot that is written or shown unmarked (`RollbackIsSafe`). `StartsAreVetted` says that
what the bootloader could start now was vetted: it is what runs, or what ran before it
and no upload touches while the new image is on trial (`ConfirmedRuns`, as long as no restart
failed to start).

### Only model-checked

The liveness properties (`AutoCloseGivenUp`, `PendingSlotFreed`, `CatchesUp`,
`BadUpdateIsLeft`), which are beyond the prover; and the runs that expect a violation.

## 5. Not modelled

Listed with reasons in `PROJECT.json`:

- The activity history, the log ring buffer and the error counters: each operation
  runs under one lock, so nothing interleaves; what is left is the arithmetic of a ring,
  within the reach of a host test.
- The HTML page and JSON, parsing of forms and zones, the rules for the text of a
  password and the origin check: string handling without state.
- The Wi-Fi provisioning patch (a third-party component), the build scripts, the LED:
  I/O without a property.
- Of the settings: loading the auto-close and buzzer settings at boot and the learned travel
  times. A failing save of them is in `DoorControl` (`SettingSaved`).

## 6. Plan

All safety and action properties of the runs are proved. What is left to prove:

1. `DoorTracker`: `QuietShowsLastStates` and `MovingIsWatched` excuse overlaps of watchdog
   and callback. Which of them are harmless is known to TLC only; a finer history than
   `overlapped` would narrow the excuse.
2. The safety parts of what the liveness properties rest on: that a pending slot always has
   a task that will release it is `PendingSlotIsOwned`; for `AutoCloseGivenUp`, that a set
   flag has a warning, a close or a retry to come as long as the link stays up and no
   Open follows.
3. `AdminCredentials` beside `FirmwareUpdate`: an abstract specification of the owner's
   account (nobody, enrolled, changed) that both loading and changing implement.
