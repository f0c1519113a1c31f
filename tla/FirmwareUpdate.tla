--------------------------- MODULE FirmwareUpdate ---------------------------
(***************************************************************************)
(* Updates of the firmware over the diagnostics page, across resets: two   *)
(* slots, an upload that is shown before it is confirmed, the marks that   *)
(* decide whether the other slot may be rolled back to, and the start that *)
(* accepts a new image (main/diag_webserver.cpp).  It shares the httpd     *)
(* task, the start and the resets with AdminCredentials.                   *)
(*                                                                         *)
(* The bootloader and the OTA calls of ESP-IDF are external: what the code *)
(* relies on is that a newly selected image is tried once and that a reset *)
(* before it is marked valid brings the other one back.                    *)
(***************************************************************************)
EXTENDS AdminCredentials

CONSTANT MaxUploads   \* bound on the images written

ASSUME UpdateAssumption == MaxUploads \in Nat

Slots == {"ota_0", "ota_1"}
OtherSlot(s) == CHOOSE t \in Slots : t # s
NoSlot == "none"

(***************************************************************************)
(* An image either comes up as far as the server (healthy) or never does.  *)
(* old: of a release that knows neither the marks nor the new settings.    *)
(* by, proven are history: whom the slot's content is from, and whether it *)
(* has come up with the new settings.                                      *)
(***************************************************************************)
Image == [complete : BOOLEAN, old : BOOLEAN, healthy : BOOLEAN, proven : BOOLEAN,
          by : {"nobody", "shown", "withdrawn", "confirmed", "elsewhere"}]
Erased == [complete |-> FALSE, old |-> FALSE, healthy |-> FALSE, proven |-> FALSE,
           by |-> "nobody"]
Trials == {"valid", "new", "pending", "aborted"}

VARIABLES
  image,           \* what each slot holds
  selected,        \* external: the slot the bootloader is to start
  trial,           \* external: the state it keeps of each slot
  running,         \* the slot that runs
  started,         \* how far wait_for_network_and_start_task() has come
  mark,            \* NVS gdo_ota: "unknown", "blocked" or "eligible" of each slot
  pending,         \* s_ota_pending_partition
  upload,          \* firmware_receive(): "idle", "blocked" or "writing"
  restarting,      \* delayed_restart_task exists
  unrestarted,     \* history: it could not be created, once
  uploads          \* images written so far

slotVars == <<image, selected, trial, running>>
serverVars == <<started, mark, pending, upload, restarting, unrestarted, uploads>>
vars == <<credentialVars, slotVars, serverVars>>

Init ==
  /\ InitCredentials
  /\ image = [s \in Slots |-> IF s = "ota_0"
       THEN [complete |-> TRUE, old |-> FALSE, healthy |-> TRUE, proven |-> FALSE,
             by |-> "confirmed"]
       ELSE Erased]
  /\ selected = "ota_0" /\ trial = [s \in Slots |-> "valid"] /\ running = "ota_0"
  /\ started = "boot" /\ mark = [s \in Slots |-> "unknown"]
  /\ pending = NoSlot /\ upload = "idle"
  /\ restarting = FALSE /\ unrestarted = FALSE /\ uploads = 0

Target == OtherSlot(running)      \* esp_ota_get_next_update_partition()
Runs == image[running]

-----------------------------------------------------------------------------
(* The bootloader (external).                                              *)

(***************************************************************************)
(* Whatever was on trial at a reset is given up.  The selected slot is     *)
(* tried, else the other, else the first; where it holds no whole image    *)
(* the other one's is started.                                             *)
(***************************************************************************)
AfterTrial == [s \in Slots |-> IF trial[s] = "pending" THEN "aborted" ELSE trial[s]]
NothingToTry == \A s \in Slots : AfterTrial[s] = "aborted"
SlotTried ==
  IF NothingToTry THEN "ota_0"
  ELSE IF AfterTrial[selected] # "aborted" THEN selected ELSE OtherSlot(selected)
SlotStarted == IF image[SlotTried].complete THEN SlotTried ELSE OtherSlot(SlotTried)

Reset ==
  /\ ForgetCredentials
  /\ running' = SlotStarted
  /\ selected' = IF NothingToTry THEN SlotStarted ELSE SlotTried
  /\ trial' = IF NothingToTry THEN [AfterTrial EXCEPT ![SlotStarted] = "valid"]
              ELSE [AfterTrial EXCEPT ![SlotTried] = IF @ = "new" THEN "pending" ELSE @]
  /\ started' = "boot" /\ pending' = NoSlot /\ upload' = "idle" /\ restarting' = FALSE
  /\ UNCHANGED <<image, mark, unrestarted, uploads>>

-----------------------------------------------------------------------------
(* wait_for_network_and_start_task(): the network is up.                   *)

\* Credentials are read and the server starts, again and again until both do.
ServerStarts ==
  /\ started = "boot" /\ Runs.healthy /\ ~Runs.old
  /\ LoadCredentials
  /\ started' = "server"
  /\ UNCHANGED <<slotVars, mark, pending, upload, restarting, unrestarted, uploads>>

\* Only then is the image accepted; its slot's mark follows in a step of its own.
MayMarkValid_AtBoot == started \in {"boot", "server"}     \* MUTANT: does not wait
MayMarkValid == started = "server"
MarkValid ==
  /\ MayMarkValid /\ ~Runs.old
  /\ \/ /\ trial' = [trial EXCEPT ![running] = "valid"]
        /\ image' = [image EXCEPT ![running].proven = TRUE]
        /\ started' = "valid"
     \/ /\ started' = "done" /\ UNCHANGED <<trial, image>>
  /\ UNCHANGED <<credentialVars, selected, running, mark, pending, upload, restarting,
                 unrestarted, uploads>>

\* A write to NVS may fail and leave the mark old or new.
RecordEligible ==
  /\ started = "valid"
  /\ started' = "done"
  /\ \E m \in {mark[running], "eligible"} : mark' = [mark EXCEPT ![running] = m]
  /\ UNCHANGED <<credentialVars, slotVars, pending, upload, restarting, unrestarted,
                 uploads>>

-----------------------------------------------------------------------------
(* The handlers.  Each runs to its end before the next one starts.         *)

HttpdIdle == started # "boot" /\ upload = "idle" /\ stored = NoPassword /\ ~Runs.old

\* authorize_mutation(): nothing is done for anybody while no password is set.
Authorized == HttpdIdle /\ password # NoPassword

SetPassword ==
  /\ HttpdIdle
  /\ \E new \in Passwords, changing \in BOOLEAN : StorePassword(new, changing)
  /\ UNCHANGED <<slotVars, serverVars>>

PasswordIsSet == PublishPassword /\ UNCHANGED <<slotVars, serverVars>>

\* ota_clear_pending(), with what becomes of an upload nobody may confirm now
Withdrawn ==
  IF pending = NoSlot THEN image ELSE [image EXCEPT ![pending].by = "withdrawn"]

UploadBlocks_Unmarked ==                      \* MUTANT: leaves the mark as it is
  /\ Authorized /\ uploads < MaxUploads
  /\ upload' = "blocked" /\ pending' = NoSlot /\ image' = Withdrawn
  /\ UNCHANGED <<credentialVars, selected, trial, running, started, mark, restarting,
                 unrestarted, uploads>>

\* firmware_receive(): the slot is blocked, in flash, before anything else.
UploadBlocks ==
  /\ Authorized /\ uploads < MaxUploads
  /\ \/ /\ mark' = [mark EXCEPT ![Target] = "blocked"]
        /\ upload' = "blocked" /\ pending' = NoSlot /\ image' = Withdrawn
     \/ /\ mark' \in {mark, [mark EXCEPT ![Target] = "blocked"]}
        /\ UNCHANGED <<upload, pending, image>>
  /\ UNCHANGED <<credentialVars, selected, trial, running, started, restarting,
                 unrestarted, uploads>>
\* esp_ota_begin() refuses while the running image is itself on trial.
UploadErases ==
  /\ upload = "blocked"
  /\ \/ /\ trial[running] # "pending"
        /\ image' = [image EXCEPT ![Target] = Erased] /\ upload' = "writing"
     \/ image' = image /\ upload' = "idle"
  /\ UNCHANGED <<credentialVars, selected, trial, running, started, mark, pending,
                 restarting, unrestarted, uploads>>

(***************************************************************************)
(* esp_ota_end() finds a whole image, which is then shown, or not.  An     *)
(* upload takes longer than the half second before a restart.              *)
(***************************************************************************)
UploadEnds ==
  /\ upload = "writing" /\ ~restarting
  /\ upload' = "idle" /\ uploads' = uploads + 1
  /\ \/ /\ \E old \in BOOLEAN, healthy \in BOOLEAN :
             image' = [image EXCEPT ![Target] =
                         [complete |-> TRUE, old |-> old, healthy |-> healthy,
                          proven |-> FALSE, by |-> "shown"]]
        /\ pending' = Target
     \/ UNCHANGED <<image, pending>>
  /\ UNCHANGED <<credentialVars, selected, trial, running, started, mark, restarting,
                 unrestarted>>

\* esp_ota_set_boot_partition(), then a task that restarts, if it can be created
Select(s) ==
  /\ selected' = s /\ trial' = [trial EXCEPT ![s] = "new"]
  /\ restarting' \in {TRUE, restarting}
  /\ unrestarted' = (unrestarted \/ ~restarting')

\* firmware_confirm_post_handler(), in time
Confirm ==
  /\ Authorized /\ pending # NoSlot
  /\ Select(pending)
  /\ image' = IF image[pending].by = "shown"
              THEN [image EXCEPT ![pending].by = "confirmed"] ELSE image
  /\ pending' = NoSlot
  /\ UNCHANGED <<credentialVars, running, started, mark, upload, uploads>>

\* The owner cancels, or ten minutes pass and the status page or Confirm sees it.
PendingAfterCancel_Kept == pending            \* MUTANT: only the page forgets
PendingAfterCancel == NoSlot
Cancel ==
  /\ HttpdIdle /\ pending # NoSlot
  /\ pending' = PendingAfterCancel /\ image' = Withdrawn
  /\ UNCHANGED <<credentialVars, selected, trial, running, started, mark, upload,
                 restarting, unrestarted, uploads>>

\* firmware_rollback_post_handler()
MayRollBack == image[Target].complete /\ mark[Target] = "eligible"
RollBack ==
  /\ Authorized /\ MayRollBack
  /\ Select(Target)
  /\ UNCHANGED <<credentialVars, image, running, started, mark, pending, upload, uploads>>

\* restart_post_handler()
Restart ==
  /\ Authorized /\ restarting' \in {TRUE, restarting}
  /\ UNCHANGED <<credentialVars, slotVars, started, mark, pending, upload, unrestarted,
                 uploads>>

(***************************************************************************)
(* External: a release from before the marks runs, and its owner updates   *)
(* with it.  It writes the other slot and selects it, and nothing else.    *)
(***************************************************************************)
OldRelease ==
  /\ Runs.old /\ Runs.healthy /\ uploads < MaxUploads
  /\ trial[running] = "valid" /\ started' = started
  /\ \E old \in BOOLEAN :
       image' = [image EXCEPT ![Target] = [complete |-> TRUE, old |-> old,
                   healthy |-> TRUE, proven |-> FALSE, by |-> "elsewhere"]]
  /\ selected' = Target /\ trial' = [trial EXCEPT ![Target] = "new"]
  /\ uploads' = uploads + 1
  /\ UNCHANGED <<credentialVars, running, mark, pending, upload, restarting, unrestarted>>
OldStarts ==
  /\ Runs.old /\ Runs.healthy /\ trial[running] = "pending"
  /\ trial' = [trial EXCEPT ![running] = "valid"]
  /\ UNCHANGED <<credentialVars, image, selected, running, serverVars>>

-----------------------------------------------------------------------------
Next ==
  \/ Reset \/ ServerStarts \/ MarkValid \/ RecordEligible
  \/ SetPassword \/ PasswordIsSet
  \/ UploadBlocks \/ UploadErases \/ UploadEnds
  \/ Confirm \/ Cancel \/ RollBack \/ Restart
  \/ OldRelease \/ OldStarts

\* An image that does not come up is reset: it crashes, or its owner does it.
GivesUp == ~Runs.healthy /\ Reset

Spec == Init /\ [][Next]_vars
FairSpec == Spec /\ WF_vars(GivesUp)

-----------------------------------------------------------------------------
\* Every variable keeps its type; what NVS and RAM hold of a password belongs together.
TypeOK ==
  /\ CredentialsTypeOK
  /\ image \in [Slots -> Image] /\ trial \in [Slots -> Trials]
  /\ selected \in Slots /\ running \in Slots
  /\ started \in {"boot", "server", "valid", "done"}
  /\ mark \in [Slots -> {"unknown", "blocked", "eligible"}]
  /\ pending \in Slots \cup {NoSlot} /\ upload \in {"idle", "blocked", "writing"}
  /\ restarting \in BOOLEAN /\ unrestarted \in BOOLEAN /\ uploads \in 0..MaxUploads

(***************************************************************************)
(* Enrolment is never open again once a password was reported as set, and  *)
(* never because credentials could not be read or are incomplete.          *)
(***************************************************************************)
EnrolmentStaysClosed == HttpdIdle /\ password = NoPassword => acked = NoPassword

(***************************************************************************)
(* A slot that is offered for rollback holds the very image that has come  *)
(* up with the new settings, whichever write failed and at whichever point *)
(* of an upload, a confirmation or a start the device was reset; except    *)
(* for what an older release, that knows no marks, wrote.                  *)
(***************************************************************************)
MarkIsEarned ==
  \A s \in Slots :
    mark[s] = "eligible" => image[s].proven \/ image[s].by = "elsewhere"

(***************************************************************************)
(* What runs is an image the owner confirmed: never an upload that was     *)
(* cancelled, expired, replaced or only shown, unless the restart that was *)
(* to follow a confirmation could not be started.                          *)
(***************************************************************************)
OnlyConfirmedRuns == ~unrestarted => Runs.by \in {"confirmed", "elsewhere"}

\* An update that never gets as far as its server is left for one that does.
BadUpdateIsLeft == ~Runs.healthy ~> Runs.healthy

-----------------------------------------------------------------------------
(* The inductive invariant behind the theorems of FirmwareUpdateProofs.    *)

\* What a handler has stored and not yet published is what a boot would read.
StoredIsKnown ==
  /\ stored # NoPassword => stored = blob /\ stored \in asked
  /\ acked # NoPassword => blob # NoPassword \/ legacy # "none"

\* A server runs with what the flash held: nothing was loaded only if nothing was set.
LoadedOrUnset == started # "boot" /\ password = NoPassword => acked = NoPassword

\* Whatever is being written or shown is in the other slot, whose mark is not eligible.
ShownIsUnmarked ==
  /\ upload # "idle" => mark[Target] # "eligible" /\ pending = NoSlot
  /\ pending # NoSlot => pending = Target /\ mark[Target] # "eligible"
  /\ started = "valid" => Runs.proven

\* An upload is under way only in a release of ours, within its bound.
UploadIsOurs == upload # "idle" => ~Runs.old /\ uploads < MaxUploads

Vetted(s) == image[s].by \in {"confirmed", "elsewhere"}

\* The other slot may be selected for a start only ...
OtherMayStart ==
  \/ trial[Target] = "pending"      \* ... which was tried in vain, and is given up
  \/ /\ trial[Target] = "new"       \* ... or for an image that was confirmed, with
     /\ restarting \/ Runs.old      \*     the restart under way before another upload
     /\ image[Target].complete => Vetted(Target)

(***************************************************************************)
(* What the bootloader could start at this moment was vetted: it is what   *)
(* runs, or, if that is on trial, what ran before, which no upload touches *)
(* meanwhile.                                                              *)
(***************************************************************************)
StartsAreVetted ==
  /\ \A s \in Slots : image[s].proven => Vetted(s)
  /\ Runs.complete /\ Vetted(running) /\ trial[running] \in {"valid", "pending"}
  /\ trial[running] = "pending" =>
       /\ image[Target].complete /\ Vetted(Target)
       /\ upload # "writing" /\ pending = NoSlot
  /\ selected = Target => OtherMayStart
  /\ pending # NoSlot =>
       ~Runs.old /\ image[pending].by = "shown" /\ ~image[pending].proven

IInv ==
  /\ TypeOK /\ StoredIsKnown /\ AcceptedIsKnown /\ LoadedOrUnset
  /\ UploadIsOurs /\ ShownIsUnmarked /\ MarkIsEarned /\ (~unrestarted => StartsAreVetted)
=============================================================================
