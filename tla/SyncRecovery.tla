---------------------------- MODULE SyncRecovery ----------------------------
(***************************************************************************)
(* How the firmware finds its opener again: the protocol and the rolling   *)
(* code it seeds from NVS at boot, the jumps it makes while synchronizing  *)
(* fails, the pairing fault it reports, and what it saves afterwards, with *)
(* a reset possible at every step.  (main/gdo-blaq-homekit.cpp 669-824,    *)
(* 1065-1170, 353-363.)  gdolib's synchronization is external: on the      *)
(* opener's own protocol it succeeds with a code beyond the opener's       *)
(* counter, and noise can make it fail or look like Security+ 1.0.  The    *)
(* client id is loaded and saved with the code and left out.               *)
(*                                                                         *)
(* Beside it the HomeKit task waits, once per boot, for evidence of the    *)
(* protocol to decide whether its accessory has a Learn tile, which cannot *)
(* be changed afterwards (main/homekit.cpp 335-357).                       *)
(***************************************************************************)
EXTENDS Naturals

CONSTANTS
  MaxShift,       \* the jump doubles this many times (4: +100 to +1600)
  FaultTimeout,   \* GDO_PAIRING_FAULT_TIMEOUT_MS, in ticks
  MaxTrouble      \* bound on what goes wrong

ASSUME ParameterAssumption ==
  MaxShift \in Nat /\ FaultTimeout \in Nat /\ MaxTrouble \in Nat

\* Arithmetic, true of every MaxShift, that the provers cannot derive of powers.
ASSUME PowerAssumption == \A n \in 0..MaxShift : 2 ^ n \in 1..2 ^ MaxShift

Protocols == { "V1", "V2" }
Saved == [protocol : Protocols \cup {"NONE"}, code : Nat]

VARIABLES
  opener,        \* external: its protocol and the last code it took
  nvs,           \* namespace gdo_rolling; code 0: never saved
  gdo,           \* external: gdolib's protocol, rolling code, synced, attempt under way
  s_sync_retry_count,
  failing_for,   \* age of s_sync_first_failure_ms
  s_gdo_pairing_fault,
  handler,       \* the SYNCED callback: where it is
  probed,        \* external: the protocol gdolib tries while it has none
  s_gdo_protocol_identified,
  learn,         \* learn_supported: "undecided", then "shown" or "hidden" until a reset
  reprobed,      \* history: the protocol changed between evidence and decision
  unsynced_for,  \* history: time out of synchronization, since the last one or the boot
  trouble        \* counts what goes wrong, against MaxTrouble

ramVars == <<s_sync_retry_count, failing_for, s_gdo_pairing_fault>>
tileVars == <<probed, s_gdo_protocol_identified, learn, reprobed>>
vars == <<opener, nvs, gdo, ramVars, handler, tileVars, unsynced_for, trouble>>

Fresh == [protocol |-> "NONE", code |-> 1, synced |-> FALSE, syncing |-> TRUE]

Init ==
  /\ opener \in [protocol : Protocols, counter : {1}]
  /\ nvs = [protocol |-> "NONE", code |-> 0]
  /\ gdo = Fresh
  /\ s_sync_retry_count = 0 /\ failing_for = 0 /\ s_gdo_pairing_fault = FALSE
  /\ handler = "idle" /\ unsynced_for = 0 /\ trouble = 0
  /\ probed = "NONE" /\ s_gdo_protocol_identified = FALSE
  /\ learn = "undecided" /\ reprobed = FALSE

GoesWrong == trouble < MaxTrouble /\ trouble' = trouble + 1

-----------------------------------------------------------------------------
(* gdolib and the opener (external).                                       *)

\* status->protocol, as the handlers see it
StatusProtocol == IF gdo.protocol # "NONE" THEN gdo.protocol ELSE probed
NotesChange ==
  reprobed' = (reprobed \/ (s_gdo_protocol_identified /\ learn = "undecided"
                             /\ StatusProtocol' # StatusProtocol))

\* The protocol of this attempt: the pinned one, or what auto-detection finds.
Detects(p) == gdo.protocol \in {"NONE", p}

SyncEnds(p, ok) ==
  /\ gdo.syncing /\ handler = "idle"
  /\ gdo' = [protocol |-> p, code |-> IF ok /\ p = "V2" THEN gdo.code + 1 ELSE gdo.code,
             synced |-> ok, syncing |-> FALSE]
  /\ opener' = IF ok /\ p = "V2" THEN [opener EXCEPT !.counter = gdo.code] ELSE opener
  /\ unsynced_for' = IF ok THEN 0 ELSE unsynced_for
  /\ handler' = "event"
  /\ probed' = "NONE"
  /\ NotesChange
  /\ UNCHANGED <<nvs, ramVars, s_gdo_protocol_identified, learn>>

SyncAnswered ==
  /\ Detects(opener.protocol)
  /\ SyncEnds(opener.protocol, opener.protocol = "V1" \/ gdo.code > opener.counter)
  /\ UNCHANGED trouble

\* A pinned protocol that is not the opener's own gets no answer.
SyncUnanswered ==
  /\ ~Detects(opener.protocol) /\ GoesWrong
  /\ SyncEnds(gdo.protocol, FALSE)

\* Noise: a failure, or one packet that looks like Security+ 1.0.
SyncDisturbed ==
  /\ GoesWrong
  /\ \/ \E p \in Protocols : Detects(p) /\ SyncEnds(p, FALSE)
     \/ Detects("V1") /\ SyncEnds("V1", TRUE)

\* Commands of the firmware while synced move both counters, other controls the opener's,
\* which never goes back.
CommandSent ==
  /\ GoesWrong /\ gdo.synced /\ gdo.protocol = "V2"
  /\ opener' = [opener EXCEPT !.counter = IF gdo.code > @ THEN gdo.code ELSE @]
  /\ gdo' = [gdo EXCEPT !.code = @ + 1]
  /\ UNCHANGED <<nvs, ramVars, handler, tileVars, unsynced_for>>
OpenerUsed ==
  /\ GoesWrong
  /\ opener' = [opener EXCEPT !.counter = @ + 2]
  /\ UNCHANGED <<nvs, gdo, ramVars, handler, tileVars, unsynced_for>>

LoseLink ==
  /\ GoesWrong /\ gdo.synced /\ handler = "idle"
  /\ gdo' = [gdo EXCEPT !.synced = FALSE]
  /\ UNCHANGED <<opener, nvs, ramVars, handler, tileVars, unsynced_for>>

\* request_gdo_status_recovery()
RequestSync ==
  /\ ~gdo.synced /\ ~gdo.syncing /\ handler = "idle"
  /\ gdo' = [gdo EXCEPT !.syncing = TRUE]
  /\ UNCHANGED <<opener, nvs, ramVars, handler, tileVars, unsynced_for, trouble>>

Aged(age) == IF age > FaultTimeout THEN age ELSE age + 1
Tick ==
  /\ ~gdo.synced /\ handler = "idle"
  /\ unsynced_for' = Aged(unsynced_for)
  /\ failing_for' = IF s_sync_retry_count > 0 THEN Aged(failing_for) ELSE failing_for
  /\ UNCHANGED <<opener, nvs, gdo, s_sync_retry_count, s_gdo_pairing_fault, handler,
                 tileVars, trouble>>

-----------------------------------------------------------------------------
(* GDO_CB_EVENT_SYNCED.                                                    *)

Jump_Uncapped(n) == 2 ^ (n - 1)              \* MUTANT: doubles for ever
Jump(n) == 2 ^ (IF n > MaxShift THEN MaxShift ELSE n - 1)

Retried_UntilFault(code) ==                  \* MUTANT: stops once it reported a fault
  [gdo EXCEPT !.code = code, !.syncing = ~s_gdo_pairing_fault]
Retried(code) == [gdo EXCEPT !.code = code, !.syncing = TRUE]

\* gdolib may refuse the code, and then nothing is retried, or the retry.
SyncFailed ==
  /\ handler = "event" /\ ~gdo.synced /\ handler' = "idle"
  /\ s_sync_retry_count' = s_sync_retry_count + 1
  /\ failing_for' = IF s_sync_retry_count = 0 THEN 0 ELSE failing_for
  /\ s_gdo_pairing_fault' = (s_gdo_pairing_fault \/ failing_for' > FaultTimeout)
  /\ LET code == gdo.code + Jump(s_sync_retry_count')
     IN  \/ gdo' = Retried(code) /\ UNCHANGED trouble
         \/ GoesWrong /\ gdo' \in {gdo, [gdo EXCEPT !.code = code]}
  /\ UNCHANGED <<opener, nvs, tileVars, unsynced_for>>

StreakEnds_KeepCount ==                      \* MUTANT: the retry count is not reset
  UNCHANGED <<s_sync_retry_count, failing_for>> /\ s_gdo_pairing_fault' = FALSE
StreakEnds == s_sync_retry_count' = 0 /\ failing_for' = 0 /\ s_gdo_pairing_fault' = FALSE

SyncSucceeded ==
  /\ handler = "event" /\ gdo.synced /\ handler' = "protocol"
  /\ StreakEnds
  /\ s_gdo_protocol_identified' = TRUE
  /\ UNCHANGED <<opener, nvs, gdo, probed, learn, reprobed, unsynced_for, trouble>>

\* A failed write leaves the old value or the new one, and the code goes on.
Written(old, new) == {new} \cup (IF trouble < MaxTrouble THEN {old} ELSE {})

\* gdo_save_synced_protocol(): only V2 may replace V2, if what was saved can be read.
Keeps_Never == FALSE                         \* MUTANT: the last sync wins
Keeps == gdo.protocol # "V2" /\ nvs.protocol = "V2"

\* A V1 session has no rolling code worth saving.
SavesCode_Any == TRUE                        \* MUTANT: saves it after a V1 sync too
SavesCode == gdo.protocol = "V2"

SaveProtocol ==
  /\ handler = "protocol"
  /\ handler' = IF SavesCode THEN "code" ELSE "idle"
  /\ \E readable \in BOOLEAN :
       /\ IF readable THEN UNCHANGED trouble ELSE GoesWrong
       /\ \E new \in IF readable /\ Keeps THEN {nvs.protocol}
                     ELSE Written(nvs.protocol, gdo.protocol) :
            nvs' = [nvs EXCEPT !.protocol = new]
  /\ UNCHANGED <<opener, gdo, ramVars, tileVars, unsynced_for>>

\* gdo_save_rolling_state(), after a synchronization only: flash wears out.
SaveRollingState ==
  /\ handler = "code" /\ handler' = "idle"
  /\ \E new \in Written(nvs.code, gdo.code) : nvs' = [nvs EXCEPT !.code = new]
  /\ UNCHANGED <<opener, gdo, ramVars, tileVars, unsynced_for, trouble>>

(***************************************************************************)
(* A reset, and gdo_load_persisted_rolling_state() of the next boot: what  *)
(* was saved is seeded before gdo_start(), where it can be read.           *)
(***************************************************************************)
Reset ==
  /\ GoesWrong
  /\ \E readable \in SUBSET {"protocol", "code"} :
       gdo' = [Fresh EXCEPT
                 !.protocol = IF "protocol" \in readable THEN nvs.protocol ELSE @,
                 !.code = IF "code" \in readable /\ nvs.code > 0 THEN nvs.code ELSE @]
  /\ s_sync_retry_count' = 0 /\ failing_for' = 0 /\ s_gdo_pairing_fault' = FALSE
  /\ handler' = "idle" /\ unsynced_for' = 0
  /\ probed' = "NONE" /\ s_gdo_protocol_identified' = FALSE
  /\ learn' = "undecided" /\ reprobed' = FALSE
  /\ UNCHANGED <<opener, nvs>>

-----------------------------------------------------------------------------
(* The Learn tile.                                                         *)

\* gdolib (external): without a pinned protocol it tries one after the other.
Probes(p) ==
  /\ gdo.syncing /\ gdo.protocol = "NONE" /\ learn = "undecided"
  /\ probed # p /\ probed' = p
  /\ UNCHANGED <<opener, nvs, gdo, ramVars, handler, s_gdo_protocol_identified, learn,
                 unsynced_for, trouble>>
  /\ NotesChange

(***************************************************************************)
(* gdo_event_handler(): a frame of the door, the light, the lock ... or    *)
(* noise like one of Security+ 1.0 proves the protocol it was received in. *)
(* The beam is a wire of this device and proves nothing, nor does a        *)
(* synchronization that failed.                                            *)
(***************************************************************************)
Evidence_AnyEvent == StatusProtocol # "NONE" /\ UNCHANGED trouble  \* MUTANT: the beam too
Evidence ==
  \/ StatusProtocol = opener.protocol /\ UNCHANGED trouble
  \/ StatusProtocol = "V1" /\ GoesWrong

Identified ==
  /\ handler = "idle" /\ learn = "undecided" /\ ~s_gdo_protocol_identified
  /\ Evidence
  /\ s_gdo_protocol_identified' = TRUE
  /\ UNCHANGED <<opener, nvs, gdo, ramVars, handler, probed, learn, reprobed, unsynced_for>>

(***************************************************************************)
(* homekit_task_entry(): the protocol is read once it was identified.      *)
(* After 32 s without evidence, or where it cannot be read, there is no    *)
(* tile.                                                                   *)
(***************************************************************************)
TileShown_Unproven == StatusProtocol = "V2"   \* MUTANT: trusts status->protocol
TileShown == s_gdo_protocol_identified /\ StatusProtocol = "V2"

DecideTile ==
  /\ learn = "undecided"
  /\ learn' \in {"hidden", IF TileShown THEN "shown" ELSE "hidden"}
  /\ probed' = "NONE"                         \* nobody looks any more
  /\ UNCHANGED <<opener, nvs, gdo, ramVars, handler, s_gdo_protocol_identified, reprobed,
                 unsynced_for, trouble>>

-----------------------------------------------------------------------------
SyncStep == SyncAnswered \/ SyncUnanswered \/ SyncDisturbed
HandlerStep == SyncFailed \/ SyncSucceeded \/ SaveProtocol \/ SaveRollingState
TileStep == (\E p \in Protocols : Probes(p)) \/ Identified \/ DecideTile
Next ==
  SyncStep \/ HandlerStep \/ RequestSync \/ Tick \/ TileStep
    \/ CommandSent \/ OpenerUsed \/ LoseLink \/ Reset

\* gdolib ends what it began, and its callback task runs.
Fairness == WF_vars(SyncAnswered) /\ WF_vars(HandlerStep)
Spec == Init /\ [][Next]_vars /\ Fairness

-----------------------------------------------------------------------------
\* Every variable keeps its type, and the capped jumps take the code no further beyond
\* the opener's counter than one jump, and one more for whatever went wrong.
TypeOK ==
  /\ opener \in [protocol : Protocols, counter : Nat]
  /\ nvs \in Saved
  /\ gdo \in [protocol : Protocols \cup {"NONE"}, code : Nat, synced : BOOLEAN,
              syncing : BOOLEAN]
  /\ gdo.code <= opener.counter + (trouble + 1) * 2 ^ MaxShift
  /\ s_sync_retry_count \in Nat /\ failing_for \in 0..FaultTimeout + 1
  /\ s_gdo_pairing_fault \in BOOLEAN
  /\ handler \in {"idle", "event", "protocol", "code"}
  /\ probed \in Protocols \cup {"NONE"} /\ s_gdo_protocol_identified \in BOOLEAN
  /\ learn \in {"undecided", "shown", "hidden"} /\ reprobed \in BOOLEAN
  /\ unsynced_for \in 0..FaultTimeout + 1 /\ trouble \in 0..MaxTrouble

(***************************************************************************)
(* A V2 opener that was confirmed once is never again taken for another,   *)
(* whatever noise looks like Security+ 1.0 later, across resets and failed *)
(* writes, unless the very read that protects it fails.                    *)
(***************************************************************************)
ConfirmedV2Stays ==
  [][nvs.protocol = "V2" /\ UNCHANGED trouble => nvs'.protocol = "V2"]_vars

(***************************************************************************)
(* The rolling code the next boot starts from never goes back, although a  *)
(* boot that cannot read it starts from gdolib's default, and a V1 session *)
(* has no code at all.                                                     *)
(***************************************************************************)
SavedCodeNeverGoesBack == [][nvs'.code >= nvs.code]_vars

\* The page reports a pairing fault only after synchronizing failed for the whole time.
FaultIsEarned == s_gdo_pairing_fault => unsynced_for > FaultTimeout \/ gdo.synced

(***************************************************************************)
(* A Learn tile, which HomeKit keeps until the next boot, is shown for an  *)
(* opener that can be taught only, whatever gdolib was trying when the     *)
(* evidence came, whatever failed and whatever was saved before a reset;   *)
(* except where gdolib went on to another protocol between the evidence    *)
(* and the moment the protocol was read.                                   *)
(***************************************************************************)
TileIsProven == learn = "shown" /\ ~reprobed => opener.protocol = "V2"

(***************************************************************************)
(* The jumps catch up: however far the opener has moved on since the code  *)
(* was saved, a synchronization under way leads to one unless something    *)
(* more goes wrong, if the protocol pinned is the opener's own.            *)
(***************************************************************************)
CatchesUp ==
  \A n \in 0..MaxTrouble :
    gdo.syncing /\ Detects(opener.protocol) /\ trouble = n ~> gdo.synced \/ trouble > n

-----------------------------------------------------------------------------
(* The inductive invariant behind the theorems of SyncRecoveryProofs.      *)

MaxJump == 2 ^ MaxShift

(***************************************************************************)
(* A synchronization has found a protocol, and on V2 took the opener's     *)
(* counter to the code it used; so nothing that was ever saved is beyond   *)
(* the opener's next code.                                                 *)
(***************************************************************************)
SyncedIsConfirmed ==
  /\ gdo.synced => gdo.protocol # "NONE" /\ ~gdo.syncing
  /\ gdo.synced /\ gdo.protocol = "V2" =>
       opener.protocol = "V2" /\ gdo.code <= opener.counter + 1
  /\ nvs.code <= opener.counter + 1

\* The handler of a successful synchronization saves a code no older than the saved one.
HandlerSavesAhead ==
  /\ handler \in {"protocol", "code"} => gdo.synced
  /\ handler = "code" => gdo.protocol = "V2"
  /\ handler # "idle" /\ gdo.synced /\ gdo.protocol = "V2" => gdo.code >= nvs.code
  /\ handler # "idle" => ~gdo.syncing

\* Before a failed attempt jumps it is no further ahead than what went wrong explains.
JumpsFromWithin ==
  handler = "event" /\ ~gdo.synced => gdo.code <= opener.counter + trouble * MaxJump

\* The fault is timed by the failures of one streak, within the time out of sync.
StreakIsTimed ==
  /\ ~gdo.synced => failing_for <= unsynced_for
  /\ gdo.synced /\ handler # "event" => failing_for = 0 /\ ~s_gdo_pairing_fault

\* Evidence of V2 that still counts is the opener's own.
EvidenceCounts ==
  learn = "undecided" /\ s_gdo_protocol_identified /\ ~reprobed /\ StatusProtocol = "V2"
    => opener.protocol = "V2"

IInv ==
  /\ TypeOK /\ SyncedIsConfirmed /\ HandlerSavesAhead /\ JumpsFromWithin
  /\ StreakIsTimed /\ FaultIsEarned /\ EvidenceCounts /\ TileIsProven
=============================================================================
