------------------------ MODULE FirmwareUpdateProofs ------------------------
(***************************************************************************)
(* Proofs, for any passwords and any number of writes and uploads, of the  *)
(* safety properties of AdminCredentials and FirmwareUpdate.               *)
(*                                                                         *)
(* A reset may come between any two steps, so each property needs to know  *)
(* what a reset would make of the present state: which password a boot     *)
(* would read (StoredIsKnown) and which image the bootloader would start   *)
(* (StartsAreVetted).  The credentials and the slots change in different   *)
(* steps and are treated apart.                                            *)
(***************************************************************************)
EXTENDS FirmwareUpdate, TLAPS

CredentialsInv == CredentialsTypeOK /\ StoredIsKnown /\ AcceptedIsKnown /\ LoadedOrUnset

SlotsTypeOK ==
  /\ image \in [Slots -> Image] /\ trial \in [Slots -> Trials]
  /\ selected \in Slots /\ running \in Slots
  /\ mark \in [Slots -> {"unknown", "blocked", "eligible"}]
  /\ pending \in Slots \cup {NoSlot} /\ upload \in {"idle", "blocked", "writing"}
ServerInv ==
  /\ started \in {"boot", "server", "valid", "done"}
  /\ restarting \in BOOLEAN /\ unrestarted \in BOOLEAN /\ uploads \in 0..MaxUploads
  /\ UploadIsOurs

SlotsInv ==
  SlotsTypeOK /\ ShownIsUnmarked /\ MarkIsEarned /\ (~unrestarted => StartsAreVetted)

\* The three parts of IInv, before a step and after it.
LEMMA Parts ==
  /\ IInv <=> CredentialsInv /\ SlotsInv /\ ServerInv
  /\ IInv' <=> CredentialsInv' /\ SlotsInv' /\ ServerInv'
BY DEF IInv, CredentialsInv, SlotsInv, ServerInv, TypeOK, SlotsTypeOK

-----------------------------------------------------------------------------
(* The passwords.                                                          *)

\* What a boot reads when nothing fails.
LEMMA BootReads ==
  /\ blob # NoPassword => LoadedPassword(TRUE) = {blob}
  /\ blob = NoPassword /\ legacy = "whole" => LoadedPassword(TRUE) = {LegacyPassword}
  /\ blob = NoPassword /\ legacy = "partial" => LoadedPassword(TRUE) = {}
  /\ blob = NoPassword /\ legacy \notin {"whole", "partial"} =>
       LoadedPassword(TRUE) = {NoPassword}
BY DEF LoadedPassword

LEMMA NothingUnread == LoadedPassword(FALSE) = {}
BY DEF LoadedPassword

LEMMA InitCredentialsInv == Init => CredentialsInv
<1> SUFFICES ASSUME Init PROVE CredentialsInv
  OBVIOUS
<1> USE CredentialsAssumption DEF Init, InitCredentials
<1>1. CredentialsTypeOK
  BY DEF CredentialsTypeOK
<1>2. AcceptedIsKnown
  BY BootReads DEF AcceptedIsKnown
<1> QED
  BY <1>1, <1>2 DEF CredentialsInv, StoredIsKnown, LoadedOrUnset

LEMMA CredentialsUntouched ==
  ASSUME CredentialsInv, UNCHANGED credentialVars, started' = "boot" => started = "boot",
         started = "boot" => started' = "boot"
  PROVE  CredentialsInv'
<1> USE DEF credentialVars
<1>1. LoadedPassword(TRUE)' = LoadedPassword(TRUE)
  BY DEF LoadedPassword
<1>2. AcceptedIsKnown'
  BY <1>1 DEF CredentialsInv, AcceptedIsKnown
<1> QED
  BY <1>2 DEF CredentialsInv, CredentialsTypeOK, StoredIsKnown, LoadedOrUnset

LEMMA ForgetKeeps ==
  ASSUME CredentialsInv, ForgetCredentials, started' = "boot"
  PROVE  CredentialsInv'
<1> USE DEF ForgetCredentials
<1>1. LoadedPassword(TRUE)' = LoadedPassword(TRUE)
  BY DEF LoadedPassword
<1>2. AcceptedIsKnown'
  BY <1>1 DEF CredentialsInv, AcceptedIsKnown
<1> QED
  BY <1>2 DEF CredentialsInv, CredentialsTypeOK, StoredIsKnown, LoadedOrUnset

LEMMA LoadKeeps ==
  ASSUME CredentialsInv, LoadCredentials
  PROVE  CredentialsInv'
<1> USE DEF LoadCredentials
<1>1. LoadedPassword(TRUE)' = LoadedPassword(TRUE)
  BY DEF LoadedPassword
<1>2. password' \in LoadedPassword(TRUE)
  BY NothingUnread
<1>3. AcceptedIsKnown'
  BY <1>1, <1>2 DEF CredentialsInv, AcceptedIsKnown
<1>4. password' \in Passwords \cup {NoPassword}
  BY <1>2, BootReads, CredentialsAssumption DEF CredentialsInv, CredentialsTypeOK
<1>5. password' = NoPassword => blob = NoPassword /\ legacy \notin {"whole", "partial"}
  BY <1>2, BootReads, CredentialsAssumption
<1>6. password' = NoPassword => acked = NoPassword
  BY <1>5 DEF CredentialsInv, CredentialsTypeOK, StoredIsKnown
<1> QED
  BY <1>3, <1>4, <1>6 DEF CredentialsInv, CredentialsTypeOK, StoredIsKnown, LoadedOrUnset

LEMMA StoreKeeps ==
  ASSUME CredentialsInv, stored = NoPassword, started' = started,
         NEW new \in Passwords, NEW changing \in BOOLEAN, StorePassword(new, changing)
  PROVE  CredentialsInv'
<1> USE DEF StorePassword, FailedWrite
<1>1. /\ blob' \in {blob, new} /\ stored' \in {stored, new} /\ asked' = asked \cup {new}
      /\ stored' # NoPassword => stored' = blob' /\ stored' = new
      /\ UNCHANGED <<legacy, password, acked>>
  OBVIOUS
<1>2. new # NoPassword
  BY CredentialsAssumption
<1>3. CredentialsTypeOK'
  <2>1. writes' \in 0..MaxWrites
    BY CredentialsAssumption DEF CredentialsInv, CredentialsTypeOK
  <2> QED
    BY <1>1, <2>1 DEF CredentialsInv, CredentialsTypeOK
<1>4. StoredIsKnown' /\ LoadedOrUnset'
  BY <1>1, <1>2 DEF CredentialsInv, StoredIsKnown, LoadedOrUnset
<1>5. LoadedPassword(TRUE)' \subseteq LoadedPassword(TRUE) \cup {new}
  <2>1. CASE blob' = new
    BY <1>2, <2>1 DEF LoadedPassword
  <2>2. CASE blob' = blob
    BY <1>1, <2>2 DEF LoadedPassword
  <2> QED
    BY <1>1, <2>1, <2>2
<1>6. AcceptedIsKnown'
  BY <1>1, <1>5 DEF CredentialsInv, AcceptedIsKnown
<1> QED
  BY <1>3, <1>4, <1>6 DEF CredentialsInv

LEMMA PublishKeeps ==
  ASSUME CredentialsInv, PublishPassword, started' = started
  PROVE  CredentialsInv'
<1> USE DEF PublishPassword
<1>1. stored = blob /\ stored \in asked /\ stored # NoPassword
  BY DEF CredentialsInv, StoredIsKnown
<1>2. CredentialsTypeOK'
  BY DEF CredentialsInv, CredentialsTypeOK
<1>3. StoredIsKnown' /\ LoadedOrUnset'
  BY <1>1 DEF CredentialsInv, StoredIsKnown, LoadedOrUnset
<1>4. LoadedPassword(TRUE)' = {stored}
  BY <1>1 DEF LoadedPassword
<1>5. AcceptedIsKnown'
  BY <1>1, <1>4 DEF CredentialsInv, AcceptedIsKnown
<1> QED
  BY <1>2, <1>3, <1>5 DEF CredentialsInv

-----------------------------------------------------------------------------
(* The two slots.                                                          *)

LEMMA TwoSlots ==
  /\ OtherSlot("ota_0") = "ota_1" /\ OtherSlot("ota_1") = "ota_0"
  /\ \A s \in Slots : /\ OtherSlot(s) \in Slots /\ OtherSlot(s) # s
                      /\ OtherSlot(OtherSlot(s)) = s
                      /\ \A t \in Slots : t = s \/ t = OtherSlot(s)
<1>1. \A s \in Slots : OtherSlot(s) \in Slots /\ OtherSlot(s) # s
  BY DEF Slots, OtherSlot
<1> QED
  BY <1>1 DEF Slots

Origins == {"nobody", "shown", "withdrawn", "confirmed", "elsewhere"}

\* A slot whose image changes hands holds the same image otherwise.
LEMMA HandOver ==
  ASSUME NEW w \in Image, NEW b \in Origins
  PROVE  /\ [w EXCEPT !.by = b] \in Image
         /\ [w EXCEPT !.by = b].by = b
         /\ [w EXCEPT !.by = b].complete = w.complete
         /\ [w EXCEPT !.by = b].proven = w.proven
         /\ [w EXCEPT !.by = b].old = w.old
BY DEF Image, Origins

LEMMA Prove ==
  ASSUME NEW w \in Image
  PROVE  /\ [w EXCEPT !.proven = TRUE] \in Image
         /\ [w EXCEPT !.proven = TRUE].proven
         /\ [w EXCEPT !.proven = TRUE].by = w.by
         /\ [w EXCEPT !.proven = TRUE].complete = w.complete
         /\ [w EXCEPT !.proven = TRUE].old = w.old
BY DEF Image

\* In a step that leaves the running slot, everything turns on it and on the other one.
LEMMA SlotView ==
  ASSUME SlotsTypeOK
  PROVE  /\ Target \in Slots /\ Target # running
         /\ \A s \in Slots : s = running \/ s = Target
         /\ Runs = image[running]
         /\ NoSlot \notin Slots
         /\ running' = running => Target' = Target
BY TwoSlots DEF SlotsTypeOK, Target, Runs, Slots, NoSlot

LEMMA InitSlotsInv == Init => SlotsInv /\ ServerInv
<1> SUFFICES ASSUME Init PROVE SlotsInv /\ ServerInv
  OBVIOUS
<1>1. ServerInv
  <2>1. uploads \in 0..MaxUploads
    BY UpdateAssumption DEF Init
  <2> QED
    BY <2>1 DEF Init, ServerInv, UploadIsOurs
<1>2. SlotsTypeOK
  <2>1. Erased \in Image
    BY DEF Erased, Image
  <2>2. [complete |-> TRUE, old |-> FALSE, healthy |-> TRUE, proven |-> FALSE,
         by |-> "confirmed"] \in Image
    BY DEF Image
  <2> QED
    BY <2>1, <2>2 DEF Init, SlotsTypeOK, Slots, Trials
<1>3. image["ota_0"].complete /\ image["ota_0"].by = "confirmed"
      /\ ~image["ota_0"].proven /\ ~image["ota_1"].proven
  BY DEF Init, Slots, Erased
<1>4. ShownIsUnmarked /\ MarkIsEarned
  BY DEF Init, ShownIsUnmarked, MarkIsEarned
<1>5. StartsAreVetted
  BY <1>2, <1>3, SlotView DEF Init, StartsAreVetted, Vetted, Slots
<1> QED
  BY <1>1, <1>2, <1>4, <1>5 DEF SlotsInv

-----------------------------------------------------------------------------
(* The start of the server, and the resets.                                *)

LEMMA SlotsUntouched ==
  ASSUME SlotsInv, UNCHANGED <<slotVars, mark, pending, upload>>,
         started' = "valid" => started = "valid",
         restarting => restarting', unrestarted => unrestarted'
  PROVE  SlotsInv'
<1> USE DEF slotVars
<1>1. SlotsTypeOK'
  BY DEF SlotsInv, SlotsTypeOK
<1>2. Target' = Target /\ Runs' = Runs
  BY DEF Target, Runs
<1>3. ShownIsUnmarked' /\ MarkIsEarned'
  BY <1>2 DEF SlotsInv, ShownIsUnmarked, MarkIsEarned
<1>4. ASSUME StartsAreVetted PROVE StartsAreVetted'
  BY <1>2, <1>4 DEF StartsAreVetted, OtherMayStart, Vetted
<1> QED
  BY <1>1, <1>3, <1>4 DEF SlotsInv

LEMMA ServerStartsKeeps == IInv /\ ServerStarts => IInv'
<1> SUFFICES ASSUME CredentialsInv, SlotsInv, ServerInv, ServerStarts PROVE IInv'
  BY Parts
<1> USE DEF ServerStarts
<1>1. CredentialsInv'
  BY LoadKeeps
<1>2. SlotsInv'
  BY SlotsUntouched
<1>3. ServerInv'
  BY DEF ServerInv, UploadIsOurs, slotVars, Runs
<1> QED
  BY <1>1, <1>2, <1>3, Parts

LEMMA MarkValidKeeps == IInv /\ MarkValid => IInv'
<1> SUFFICES ASSUME CredentialsInv, SlotsInv, ServerInv, MarkValid PROVE IInv'
  BY Parts
<1>1. CredentialsInv'
  BY CredentialsUntouched DEF MarkValid, MayMarkValid
<1>3. CASE started' = "done"
  <2>1. UNCHANGED <<slotVars, mark, pending, upload, restarting, unrestarted>>
    BY <1>3 DEF MarkValid, slotVars
  <2>2. SlotsInv'
    BY <1>3, <2>1, SlotsUntouched
  <2>3. ServerInv'
    BY <1>3, <2>1 DEF MarkValid, ServerInv, UploadIsOurs, Runs, slotVars
  <2> QED
    BY <1>1, <2>2, <2>3, Parts
<1>4. CASE started' # "done"
  <2> DEFINE t == [trial EXCEPT ![running] = "valid"]
             i == [image EXCEPT ![running].proven = TRUE]
  <2>1. trial' = t /\ image' = i
        /\ UNCHANGED <<selected, running, mark, pending, upload, restarting, unrestarted>>
    BY <1>4 DEF MarkValid
  <2>2. SlotsTypeOK /\ image \in [Slots -> Image] /\ running \in Slots
    BY DEF SlotsInv, SlotsTypeOK
  <2>3. image[running] \in Image
    BY <2>2
  <2>4. /\ i \in [Slots -> Image]
        /\ i[running].proven
        /\ i[running].by = image[running].by
        /\ i[running].complete = image[running].complete
        /\ i[running].old = image[running].old
        /\ \A s \in Slots : s # running => i[s] = image[s]
    BY <2>2, <2>3, Prove
  <2>5. /\ t \in [Slots -> Trials] /\ t[running] = "valid"
        /\ \A s \in Slots : s # running => t[s] = trial[s]
    BY <2>2 DEF SlotsTypeOK, Trials
  <2> HIDE DEF t, i
  <2>6. SlotsTypeOK'
    BY <2>1, <2>2, <2>4, <2>5 DEF SlotsTypeOK
  <2>7. Target' = Target /\ Target \in Slots /\ Target # running
        /\ \A s \in Slots : s = running \/ s = Target
    BY <2>1, <2>2, SlotView
  <2>8. ShownIsUnmarked'
    BY <2>1, <2>4, <2>7 DEF SlotsInv, ShownIsUnmarked, Runs
  <2>9. MarkIsEarned'
    BY <2>1, <2>4 DEF SlotsInv, MarkIsEarned
  <2>10. ASSUME StartsAreVetted PROVE StartsAreVetted'
    <3>1. pending # NoSlot => pending = Target
      BY DEF SlotsInv, ShownIsUnmarked
    <3>2. \A s \in Slots : image[s].by = i[s].by /\ image[s].old = i[s].old
      BY <2>4
    <3>3. \A s \in Slots : i[s].proven => i[s].by \in {"confirmed", "elsewhere"}
      BY <2>4, <2>10 DEF StartsAreVetted, Vetted, Runs
    <3>4. selected = Target => OtherMayStart'
      BY <2>1, <2>4, <2>5, <2>7, <2>10 DEF StartsAreVetted, OtherMayStart, Vetted, Runs
    <3> QED
      BY <2>1, <2>2, <2>4, <2>5, <2>7, <2>10, <3>1, <3>2, <3>3, <3>4
         DEF StartsAreVetted, Vetted, Runs
  <2>11. ServerInv'
    BY <2>1, <2>2, <2>4 DEF MarkValid, ServerInv, UploadIsOurs, Runs
  <2> QED
    BY <1>1, <2>1, <2>6, <2>8, <2>9, <2>10, <2>11, Parts DEF SlotsInv
<1> QED
  BY <1>3, <1>4

LEMMA RecordEligibleKeeps == IInv /\ RecordEligible => IInv'
<1> SUFFICES ASSUME CredentialsInv, SlotsInv, ServerInv, RecordEligible PROVE IInv'
  BY Parts
<1> USE DEF slotVars
<1>1. CredentialsInv'
  BY CredentialsUntouched DEF RecordEligible
<1>2. ServerInv'
  BY DEF RecordEligible, ServerInv, UploadIsOurs, Runs
<1>3. PICK m \in {mark[running], "eligible"} : mark' = [mark EXCEPT ![running] = m]
  BY DEF RecordEligible
<1>4. UNCHANGED <<slotVars, pending, upload, restarting, unrestarted>>
  BY DEF RecordEligible
<1>5. SlotsTypeOK /\ SlotsTypeOK'
  BY <1>3, <1>4 DEF SlotsInv, SlotsTypeOK
<1>6. Target' = Target /\ Runs' = Runs /\ Target # running
  BY <1>4, <1>5, SlotView DEF Runs
<1>7. \A s \in Slots : mark'[s] = mark[s] \/ (s = running /\ mark'[s] = "eligible")
  BY <1>3, <1>5 DEF SlotsTypeOK
<1>8. Runs.proven
  BY DEF RecordEligible, SlotsInv, ShownIsUnmarked
<1>9. ShownIsUnmarked'
  BY <1>4, <1>5, <1>6, <1>7, SlotView DEF SlotsInv, ShownIsUnmarked, RecordEligible
<1>10. MarkIsEarned'
  BY <1>4, <1>7, <1>8 DEF SlotsInv, MarkIsEarned, Runs
<1>11. ASSUME StartsAreVetted PROVE StartsAreVetted'
  BY <1>4, <1>6, <1>11 DEF StartsAreVetted, OtherMayStart, Vetted
<1> QED
  BY <1>1, <1>2, <1>4, <1>5, <1>9, <1>10, <1>11, Parts DEF SlotsInv

LEMMA ResetTypeOK ==
  ASSUME SlotsTypeOK, Reset
  PROVE  SlotsTypeOK'
<1>1. SlotTried \in Slots /\ SlotStarted \in Slots
  BY TwoSlots DEF SlotTried, SlotStarted, Slots, SlotsTypeOK
<1>2. AfterTrial \in [Slots -> Trials]
  BY DEF AfterTrial, SlotsTypeOK, Trials
<1>3. trial' \in [Slots -> Trials]
  BY <1>1, <1>2 DEF Reset, Trials
<1> QED
  BY <1>1, <1>3 DEF Reset, SlotsTypeOK

(***************************************************************************)
(* The bootloader gives up what was on trial.  With what runs marked valid *)
(* it tries the selected slot; with what runs on trial it goes back to the *)
(* other one, which was vetted before the trial began.                     *)
(***************************************************************************)
LEMMA ResetStartsVetted ==
  ASSUME SlotsTypeOK, StartsAreVetted, Reset
  PROVE  StartsAreVetted'
<1> DEFINE o == Target
           a == AfterTrial
<1>1. /\ o \in Slots /\ o # running /\ running \in Slots /\ selected \in Slots
      /\ \A s \in Slots : s = running \/ s = o
      /\ OtherSlot(running) = o /\ OtherSlot(o) = running
  BY SlotView, TwoSlots DEF SlotsTypeOK, Target
<1>2. /\ a \in [Slots -> Trials]
      /\ \A s \in Slots : a[s] = IF trial[s] = "pending" THEN "aborted" ELSE trial[s]
  BY DEF AfterTrial, SlotsTypeOK, Trials
<1>3. /\ image' = image /\ mark' = mark /\ pending' = NoSlot /\ upload' = "idle"
      /\ running' = SlotStarted
      /\ selected' = IF NothingToTry THEN SlotStarted ELSE SlotTried
      /\ trial' = IF NothingToTry THEN [a EXCEPT ![SlotStarted] = "valid"]
                  ELSE [a EXCEPT ![SlotTried] = IF @ = "new" THEN "pending" ELSE @]
  BY DEF Reset
<1>4. /\ image[running].complete /\ Vetted(running)
      /\ trial[running] \in {"valid", "pending"}
      /\ trial[running] = "pending" => image[o].complete /\ Vetted(o)
      /\ selected = o => OtherMayStart
      /\ \A s \in Slots : image[s].proven => Vetted(s)
  BY DEF StartsAreVetted, Runs
<1>5. SlotTried \in Slots /\ SlotStarted \in Slots
  BY <1>1, TwoSlots DEF SlotTried, SlotStarted, Slots
<1>6. NothingToTry <=> a[running] = "aborted" /\ a[o] = "aborted"
  BY <1>1 DEF NothingToTry
<1>7. Target' \in Slots /\ Target' = OtherSlot(running') /\ running' \in Slots
  BY <1>3, <1>5, TwoSlots DEF Target
<1>8. SlotTried = IF NothingToTry THEN "ota_0"
                  ELSE IF a[selected] # "aborted" THEN selected ELSE OtherSlot(selected)
  BY DEF SlotTried
<1>9. \A s \in Slots : Vetted(s)' <=> Vetted(s)
  BY <1>3 DEF Vetted
<1> HIDE DEF o, a
\* what is left to show of the slot that was started
<1>10. ASSUME /\ image[running'].complete /\ Vetted(running')
              /\ trial'[running'] \in {"valid", "pending"}
              /\ trial'[running'] = "pending" =>
                   image[OtherSlot(running')].complete /\ Vetted(OtherSlot(running'))
              /\ selected' = OtherSlot(running') =>
                   trial'[OtherSlot(running')] = "pending"
       PROVE  StartsAreVetted'
  BY <1>3, <1>4, <1>7, <1>9, <1>10 DEF StartsAreVetted, OtherMayStart, Runs
\* the running slot was accepted, and is started again
<1>11. CASE trial[running] = "valid" /\ SlotTried = running
  <2>1. SlotStarted = running
    BY <1>4, <1>11 DEF SlotStarted
  <2>2. ~NothingToTry
    BY <1>1, <1>2, <1>6, <1>11
  <2>3. trial'[running] = "valid"
    BY <1>1, <1>2, <1>3, <1>11, <2>2
  <2> QED
    BY <1>1, <1>3, <1>4, <1>10, <1>11, <2>1, <2>2, <2>3
\* the running slot was accepted, and the other one is tried
<1>12. CASE trial[running] = "valid" /\ SlotTried # running
  <2>1. ~NothingToTry
    BY <1>1, <1>2, <1>6, <1>12
  <2>2. selected = o /\ SlotTried = o /\ a[o] # "aborted"
    BY <1>1, <1>2, <1>8, <1>12, <2>1
  <2>3. trial[o] = "new" /\ (image[o].complete => Vetted(o))
    BY <1>1, <1>2, <1>4, <2>2 DEF OtherMayStart, o
  <2>4. trial'[o] = "pending" /\ trial'[running] = "valid"
    BY <1>1, <1>2, <1>3, <1>12, <2>1, <2>2, <2>3
  <2>5. CASE image[o].complete
    BY <1>1, <1>3, <1>4, <1>10, <2>1, <2>2, <2>3, <2>4, <2>5 DEF SlotStarted
  <2>6. CASE ~image[o].complete
    BY <1>1, <1>3, <1>4, <1>10, <2>1, <2>2, <2>4, <2>6 DEF SlotStarted
  <2> QED
    BY <2>5, <2>6
\* what runs was on trial: whatever was tried before holds a whole, vetted image
<1>13. CASE trial[running] = "pending"
  <2>1. a[running] = "aborted"
    BY <1>1, <1>2, <1>13
  <2>2. \A s \in Slots : image[s].complete /\ Vetted(s)
    BY <1>1, <1>4, <1>13
  <2>3. SlotStarted = SlotTried
    BY <1>5, <2>2 DEF SlotStarted
  <2>4. OtherSlot(running') \in Slots /\ OtherSlot(running') # running'
    BY <1>7, TwoSlots
  <2>5. CASE NothingToTry
    <3>1. trial'[running'] = "valid" /\ selected' = running'
      BY <1>2, <1>3, <1>5, <2>5
    <3> QED
      BY <1>7, <1>10, <2>2, <2>4, <3>1
  <2>6. CASE ~NothingToTry
    <3>1. SlotTried = o /\ a[o] # "aborted"
      BY <1>1, <1>6, <1>8, <2>1, <2>6
    <3>2. a[o] \in {"valid", "new"}
      BY <1>1, <1>2, <3>1 DEF Trials
    <3>3. trial'[o] \in {"valid", "pending"} /\ running' = o /\ selected' = o
      BY <1>1, <1>2, <1>3, <2>3, <2>6, <3>1, <3>2
    <3> QED
      BY <1>7, <1>10, <2>2, <2>4, <3>3
  <2> QED
    BY <2>5, <2>6
<1> QED
  BY <1>4, <1>11, <1>12, <1>13

LEMMA ResetKeeps == IInv /\ Reset => IInv'
<1> SUFFICES ASSUME CredentialsInv, SlotsInv, ServerInv, Reset PROVE IInv'
  BY Parts
<1>1. CredentialsInv'
  BY ForgetKeeps DEF Reset
<1>2. ServerInv'
  BY DEF Reset, ServerInv, UploadIsOurs
<1>3. ShownIsUnmarked' /\ MarkIsEarned'
  BY DEF Reset, SlotsInv, ShownIsUnmarked, MarkIsEarned
<1>4. SlotsTypeOK'
  BY ResetTypeOK DEF SlotsInv
<1>5. ~unrestarted' => StartsAreVetted'
  <2>1. unrestarted' = unrestarted
    BY DEF Reset
  <2> QED
    BY <2>1, ResetStartsVetted DEF SlotsInv
<1> QED
  BY <1>1, <1>2, <1>3, <1>4, <1>5, Parts DEF SlotsInv

-----------------------------------------------------------------------------
(* The handlers.                                                           *)

LEMMA SetPasswordKeeps == IInv /\ (SetPassword \/ PasswordIsSet) => IInv'
<1> SUFFICES ASSUME CredentialsInv, SlotsInv, ServerInv, SetPassword \/ PasswordIsSet
             PROVE  IInv'
  BY Parts
<1>1. UNCHANGED <<slotVars, serverVars>>
  BY DEF SetPassword, PasswordIsSet
<1>2. SlotsInv' /\ ServerInv'
  BY <1>1, SlotsUntouched DEF serverVars, slotVars, ServerInv, UploadIsOurs, Runs
<1>3. CredentialsInv'
  <2>1. started' = started
    BY <1>1 DEF serverVars
  <2>2. CASE SetPassword
    <3>1. stored = NoPassword
      BY <2>2 DEF SetPassword, HttpdIdle
    <3>2. PICK new \in Passwords, changing \in BOOLEAN : StorePassword(new, changing)
      BY <2>2 DEF SetPassword
    <3> QED
      BY <2>1, <3>1, <3>2, StoreKeeps
  <2>3. CASE PasswordIsSet
    BY <2>1, <2>3, PublishKeeps DEF PasswordIsSet
  <2> QED
    BY <2>2, <2>3
<1> QED
  BY <1>2, <1>3, Parts

\* A restart task that is asked for may fail to be created; one that exists stays.
LEMMA MayBeStarted ==
  ASSUME NEW a \in BOOLEAN, NEW b \in {TRUE, a}
  PROVE  b \in BOOLEAN /\ (a => b)
BY Zenon

LEMMA RestartKeeps == IInv /\ Restart => IInv'
<1> SUFFICES ASSUME CredentialsInv, SlotsInv, ServerInv, Restart PROVE IInv'
  BY Parts
<1>1. CredentialsInv'
  BY CredentialsUntouched DEF Restart
<1>2. ServerInv' /\ (restarting => restarting')
  <2>1. restarting' \in BOOLEAN /\ (restarting => restarting')
    BY MayBeStarted DEF Restart, ServerInv
  <2> QED
    BY <2>1 DEF Restart, ServerInv, UploadIsOurs, Runs, slotVars
<1>3. SlotsInv'
  BY <1>2, SlotsUntouched DEF Restart
<1> QED
  BY <1>1, <1>2, <1>3, Parts

\* Nobody may confirm the pending upload any more, and everything else is as it was.
WithdrawnFacts ==
  /\ Withdrawn \in [Slots -> Image]
  /\ \A s \in Slots :
       /\ Withdrawn[s].complete <=> image[s].complete
       /\ Withdrawn[s].proven <=> image[s].proven
       /\ Withdrawn[s].old <=> image[s].old
       /\ s # pending => Withdrawn[s] = image[s]

LEMMA WithdrawnIs == SlotsTypeOK => WithdrawnFacts
<1> SUFFICES ASSUME SlotsTypeOK PROVE WithdrawnFacts
  OBVIOUS
<1>1. image \in [Slots -> Image] /\ pending \in Slots \cup {NoSlot}
  BY DEF SlotsTypeOK
<1>2. CASE pending = NoSlot
  <2>1. Withdrawn = image
    BY <1>2 DEF Withdrawn
  <2> QED
    BY <1>1, <2>1 DEF WithdrawnFacts
<1>3. CASE pending # NoSlot
  <2> DEFINE i == [image EXCEPT ![pending].by = "withdrawn"]
  <2>1. Withdrawn = i
    BY <1>3 DEF Withdrawn
  <2>2. pending \in Slots /\ image[pending] \in Image
    BY <1>1, <1>3
  <2>3. /\ i \in [Slots -> Image]
        /\ \A s \in Slots : /\ s # pending => i[s] = image[s]
        /\ i[pending].complete = image[pending].complete
        /\ i[pending].proven = image[pending].proven
        /\ i[pending].old = image[pending].old
    BY <1>1, <2>2, HandOver DEF Origins
  <2> HIDE DEF i
  <2> QED
    BY <2>1, <2>3 DEF WithdrawnFacts
<1> QED
  BY <1>2, <1>3

(***************************************************************************)
(* Nothing that could be started is lost when an upload is withdrawn: only *)
(* the other slot's image can have been shown, and was never selected.     *)
(***************************************************************************)
LEMMA WithdrawKeepsStarts ==
  ASSUME SlotsTypeOK, ShownIsUnmarked, StartsAreVetted,
         UNCHANGED <<selected, trial, running, restarting>>,
         image' = Withdrawn, pending' = NoSlot, ~Runs.old,
         upload' # "writing" \/ upload' = upload
  PROVE  StartsAreVetted'
<1>1. WithdrawnFacts
  BY WithdrawnIs
<1>2. /\ Target \in Slots /\ Target # running /\ Target' = Target /\ running \in Slots
      /\ \A s \in Slots : s = running \/ s = Target
  BY SlotView DEF SlotsTypeOK
<1>3. pending # NoSlot => pending = Target
  BY DEF ShownIsUnmarked
<1>4. pending # running /\ NoSlot \notin Slots
  BY <1>2, <1>3, SlotView
<1>5. image'[running] = image[running]
  BY <1>1, <1>2, <1>4 DEF WithdrawnFacts
<1>6. pending # NoSlot => ~image[Target].proven /\ image[Target].by = "shown"
  BY <1>3 DEF StartsAreVetted
<1>7. \A s \in Slots : image'[s].proven => Vetted(s)'
  BY <1>1, <1>2, <1>3, <1>4, <1>5, <1>6 DEF WithdrawnFacts, StartsAreVetted, Vetted
<1>8. pending = NoSlot => image' = image
  BY DEF Withdrawn
<1>9. trial[running] = "pending" =>
        image'[Target].complete /\ Vetted(Target)' /\ upload # "writing"
  BY <1>2, <1>8 DEF StartsAreVetted, Vetted
<1>10. selected = Target => OtherMayStart'
  <2>1. selected = Target => OtherMayStart
    BY DEF StartsAreVetted
  <2>2. image'[Target].complete <=> image[Target].complete
    BY <1>1, <1>2 DEF WithdrawnFacts
  <2>3. pending # NoSlot => ~Vetted(Target)
    BY <1>6 DEF Vetted
  <2>4. Vetted(Target) => Vetted(Target)'
    BY <1>2, <1>8, <2>3 DEF Vetted
  <2> QED
    BY <1>2, <1>5, <2>1, <2>2, <2>4 DEF OtherMayStart, Runs
<1> QED
  BY <1>2, <1>5, <1>7, <1>9, <1>10 DEF StartsAreVetted, Runs, Vetted

LEMMA CancelKeeps == IInv /\ Cancel => IInv'
<1> SUFFICES ASSUME CredentialsInv, SlotsInv, ServerInv, Cancel PROVE IInv'
  BY Parts
<1> USE DEF Cancel, PendingAfterCancel
<1>1. CredentialsInv'
  BY CredentialsUntouched
<1>2. ServerInv'
  BY DEF ServerInv, UploadIsOurs, HttpdIdle
<1>3. WithdrawnFacts
  BY WithdrawnIs DEF SlotsInv
<1>4. SlotsTypeOK'
  BY <1>3 DEF WithdrawnFacts, SlotsInv, SlotsTypeOK
<1>5. Target' = Target /\ running # pending /\ running \in Slots
  BY SlotView DEF SlotsInv, ShownIsUnmarked, SlotsTypeOK
<1>6. ShownIsUnmarked'
  BY <1>3, <1>5 DEF WithdrawnFacts, SlotsInv, ShownIsUnmarked, Runs
<1>7. MarkIsEarned'
  <2> SUFFICES ASSUME NEW s \in Slots, mark[s] = "eligible"
               PROVE  image'[s].proven \/ image'[s].by = "elsewhere"
    BY DEF MarkIsEarned
  <2>1. s # pending
    BY DEF SlotsInv, ShownIsUnmarked
  <2> QED
    BY <1>3, <2>1 DEF WithdrawnFacts, SlotsInv, MarkIsEarned
<1>8. ASSUME StartsAreVetted PROVE StartsAreVetted'
  BY <1>8, WithdrawKeepsStarts DEF SlotsInv, HttpdIdle
<1> QED
  BY <1>1, <1>2, <1>4, <1>6, <1>7, <1>8, Parts DEF SlotsInv

LEMMA UploadBlocksKeeps == IInv /\ UploadBlocks => IInv'
<1> SUFFICES ASSUME CredentialsInv, SlotsInv, ServerInv, UploadBlocks PROVE IInv'
  BY Parts
<1>1. CredentialsInv'
  BY CredentialsUntouched DEF UploadBlocks
<1>3. SlotsTypeOK /\ WithdrawnFacts
  BY WithdrawnIs DEF SlotsInv
<1> DEFINE m == [mark EXCEPT ![Target] = "blocked"]
<1>4. /\ UNCHANGED <<selected, trial, running, started, restarting, unrestarted>>
      /\ upload = "idle" /\ ~Runs.old
      /\ mark' \in {mark, m}
      /\ \/ mark' = m /\ upload' = "blocked" /\ pending' = NoSlot /\ image' = Withdrawn
         \/ UNCHANGED <<upload, pending, image>>
  BY DEF UploadBlocks, Authorized, HttpdIdle
<1>5. /\ Target' = Target /\ Target \in Slots /\ Target # running /\ running \in Slots
      /\ NoSlot \notin Slots /\ running # pending
  BY <1>3, <1>4, SlotView DEF SlotsInv, ShownIsUnmarked, SlotsTypeOK
<1>6. /\ m \in [Slots -> {"unknown", "blocked", "eligible"}]
      /\ m[Target] = "blocked" /\ \A s \in Slots : m[s] = "eligible" => mark[s] = "eligible"
  BY <1>3, <1>5 DEF SlotsTypeOK
<1> HIDE DEF m
<1>7. SlotsTypeOK'
  BY <1>3, <1>4, <1>6 DEF WithdrawnFacts, SlotsTypeOK
<1>8. image'[running] = image[running]
  BY <1>3, <1>4, <1>5 DEF WithdrawnFacts
<1>2. ServerInv'
  BY <1>4, <1>8 DEF UploadBlocks, ServerInv, UploadIsOurs, Runs
<1>9. ShownIsUnmarked'
  BY <1>4, <1>5, <1>6, <1>8 DEF SlotsInv, ShownIsUnmarked, Runs
<1>10. MarkIsEarned'
  <2> SUFFICES ASSUME NEW s \in Slots, mark'[s] = "eligible"
               PROVE  image'[s].proven \/ image'[s].by = "elsewhere"
    BY DEF MarkIsEarned
  <2>1. mark[s] = "eligible" /\ s # pending
    BY <1>4, <1>5, <1>6 DEF SlotsInv, ShownIsUnmarked
  <2>2. image'[s] = image[s]
    BY <1>3, <1>4, <2>1 DEF WithdrawnFacts
  <2> QED
    BY <2>1, <2>2 DEF SlotsInv, MarkIsEarned
<1>11. ASSUME StartsAreVetted PROVE StartsAreVetted'
  <2>1. CASE image' = Withdrawn /\ pending' = NoSlot /\ upload' = "blocked"
    BY <1>3, <1>4, <1>11, <2>1, WithdrawKeepsStarts DEF SlotsInv
  <2>2. CASE UNCHANGED <<upload, pending, image>>
    BY <1>4, <1>5, <1>11, <2>2 DEF StartsAreVetted, OtherMayStart, Vetted, Runs
  <2> QED
    BY <1>4, <2>1, <2>2
<1> QED
  BY <1>1, <1>2, <1>4, <1>7, <1>9, <1>10, <1>11, Parts DEF SlotsInv

LEMMA UploadErasesKeeps == IInv /\ UploadErases => IInv'
<1> SUFFICES ASSUME CredentialsInv, SlotsInv, ServerInv, UploadErases PROVE IInv'
  BY Parts
<1>1. CredentialsInv'
  BY CredentialsUntouched DEF UploadErases
<1> DEFINE i == [image EXCEPT ![Target] = Erased]
<1>3. /\ UNCHANGED <<selected, trial, running, started, mark, pending, restarting,
                     unrestarted>>
      /\ upload # "idle"
      /\ \/ trial[running] # "pending" /\ image' = i /\ upload' = "writing"
         \/ image' = image /\ upload' = "idle"
  BY DEF UploadErases
<1>4. SlotsTypeOK /\ mark[Target] # "eligible" /\ pending = NoSlot
  BY <1>3 DEF SlotsInv, ShownIsUnmarked
<1>5. /\ Target' = Target /\ Target \in Slots /\ Target # running /\ running \in Slots
      /\ \A s \in Slots : s = running \/ s = Target
  BY <1>3, <1>4, SlotView DEF SlotsTypeOK
<1>6. Erased \in Image /\ ~Erased.complete /\ ~Erased.proven
  BY DEF Erased, Image
<1>7. /\ i \in [Slots -> Image] /\ i[running] = image[running]
      /\ ~i[Target].complete /\ ~i[Target].proven
  BY <1>4, <1>5, <1>6 DEF SlotsTypeOK
<1> HIDE DEF i
<1>8. SlotsTypeOK'
  BY <1>3, <1>4, <1>7 DEF SlotsTypeOK
<1>2. ServerInv'
  BY <1>3, <1>7 DEF UploadErases, ServerInv, UploadIsOurs, Runs
<1>9. ShownIsUnmarked'
  BY <1>3, <1>4, <1>5, <1>7 DEF SlotsInv, ShownIsUnmarked, Runs
<1>10. MarkIsEarned'
  BY <1>3, <1>4, <1>5, <1>7 DEF SlotsInv, MarkIsEarned
<1>11. ASSUME StartsAreVetted PROVE StartsAreVetted'
  BY <1>3, <1>4, <1>5, <1>7, <1>11 DEF StartsAreVetted, OtherMayStart, Vetted, Runs
<1> QED
  BY <1>1, <1>2, <1>3, <1>8, <1>9, <1>10, <1>11, Parts DEF SlotsInv

LEMMA UploadEndsKeeps == IInv /\ UploadEnds => IInv'
<1> SUFFICES ASSUME CredentialsInv, SlotsInv, ServerInv, UploadEnds PROVE IInv'
  BY Parts
<1>1. CredentialsInv'
  BY CredentialsUntouched DEF UploadEnds
<1>2. ServerInv'
  <2>1. uploads' \in 0..MaxUploads
    BY UpdateAssumption DEF UploadEnds, ServerInv, UploadIsOurs
  <2> QED
    BY <2>1 DEF UploadEnds, ServerInv, UploadIsOurs
<1>3. /\ UNCHANGED <<selected, trial, running, started, mark, restarting, unrestarted>>
      /\ upload = "writing" /\ upload' = "idle" /\ ~restarting
  BY DEF UploadEnds
<1>4. SlotsTypeOK /\ mark[Target] # "eligible" /\ pending = NoSlot
  BY <1>3 DEF SlotsInv, ShownIsUnmarked
<1>5. /\ Target' = Target /\ Target \in Slots /\ Target # running /\ running \in Slots
      /\ \A s \in Slots : s = running \/ s = Target
      /\ NoSlot \notin Slots
  BY <1>3, <1>4, SlotView DEF SlotsTypeOK
<1>6. CASE UNCHANGED <<image, pending>>
  <2>1. SlotsTypeOK'
    BY <1>3, <1>4, <1>6 DEF SlotsTypeOK
  <2>2. ShownIsUnmarked' /\ MarkIsEarned'
    BY <1>3, <1>4, <1>5, <1>6 DEF SlotsInv, ShownIsUnmarked, MarkIsEarned, Runs
  <2>3. ASSUME StartsAreVetted PROVE StartsAreVetted'
    BY <1>3, <1>4, <1>5, <1>6, <2>3 DEF StartsAreVetted, OtherMayStart, Vetted, Runs
  <2> QED
    BY <1>1, <1>2, <1>3, <2>1, <2>2, <2>3, Parts DEF SlotsInv
<1>7. CASE ~UNCHANGED <<image, pending>>
  <2>1. PICK old \in BOOLEAN, healthy \in BOOLEAN :
          image' = [image EXCEPT ![Target] =
                      [complete |-> TRUE, old |-> old, healthy |-> healthy,
                       proven |-> FALSE, by |-> "shown"]]
    BY <1>7 DEF UploadEnds
  <2> DEFINE w == [complete |-> TRUE, old |-> old, healthy |-> healthy,
                   proven |-> FALSE, by |-> "shown"]
  <2>2. pending' = Target
    BY <1>7 DEF UploadEnds
  <2>3. w \in Image /\ ~w.proven /\ w.by = "shown"
    BY DEF Image
  <2>4. image' = [image EXCEPT ![Target] = w]
    BY <2>1
  <2> HIDE DEF w
  <2>5. /\ image' \in [Slots -> Image] /\ image'[running] = image[running]
        /\ image'[Target] = w
    BY <1>4, <1>5, <2>3, <2>4 DEF SlotsTypeOK
  <2>6. SlotsTypeOK'
    BY <1>3, <1>4, <1>5, <2>2, <2>5 DEF SlotsTypeOK
  <2>7. ShownIsUnmarked'
    BY <1>3, <1>4, <1>5, <2>2, <2>5 DEF SlotsInv, ShownIsUnmarked, Runs
  <2>8. MarkIsEarned'
    BY <1>3, <1>4, <1>5, <2>5 DEF SlotsInv, MarkIsEarned
  <2>9. ASSUME StartsAreVetted PROVE StartsAreVetted'
    <3>1. ~Runs.old /\ trial[running] = "valid"
      BY <1>3, <2>9 DEF StartsAreVetted, ServerInv, UploadIsOurs
    <3>2. selected = Target => trial[Target] = "pending"
      BY <1>3, <2>9, <3>1 DEF StartsAreVetted, OtherMayStart
    <3> QED
      BY <1>3, <1>5, <2>2, <2>3, <2>5, <2>9, <3>1, <3>2
         DEF StartsAreVetted, OtherMayStart, Vetted, Runs
  <2> QED
    BY <1>1, <1>2, <1>3, <2>6, <2>7, <2>8, <2>9, Parts DEF SlotsInv
<1> QED
  BY <1>6, <1>7

\* esp_ota_set_boot_partition() for the other slot, with what the flags become
LEMMA SelectOther ==
  ASSUME SlotsTypeOK, ServerInv, Select(Target)
  PROVE  /\ selected' = Target /\ trial' \in [Slots -> Trials]
         /\ trial'[running] = trial[running] /\ trial'[Target] = "new"
         /\ restarting' \in BOOLEAN /\ unrestarted' \in BOOLEAN
         /\ unrestarted => unrestarted'
         /\ ~unrestarted' => restarting'
<1>1. selected' = Target /\ trial' = [trial EXCEPT ![Target] = "new"]
      /\ restarting' \in {TRUE, restarting} /\ (unrestarted' = (unrestarted \/ ~restarting'))
  BY DEF Select
<1>2. restarting' \in BOOLEAN
  BY <1>1, MayBeStarted DEF ServerInv
<1>3. unrestarted' \in BOOLEAN /\ (unrestarted' <=> unrestarted \/ ~restarting')
  BY <1>1, <1>2 DEF ServerInv
<1>4. /\ trial' \in [Slots -> Trials]
      /\ trial'[running] = trial[running] /\ trial'[Target] = "new"
  BY <1>1, SlotView DEF SlotsTypeOK, Trials
<1> QED
  BY <1>1, <1>2, <1>3, <1>4

LEMMA ConfirmKeeps == IInv /\ Confirm => IInv'
<1> SUFFICES ASSUME CredentialsInv, SlotsInv, ServerInv, Confirm PROVE IInv'
  BY Parts
<1>1. CredentialsInv'
  BY CredentialsUntouched DEF Confirm
<1>2. SlotsTypeOK /\ pending = Target /\ mark[Target] # "eligible"
  BY DEF Confirm, SlotsInv, ShownIsUnmarked
<1>3. Select(Target) /\ UNCHANGED <<running, started, mark, upload, uploads>>
      /\ upload = "idle" /\ pending' = NoSlot
  BY <1>2 DEF Confirm, Authorized, HttpdIdle
<1>4. /\ selected' = Target /\ trial' \in [Slots -> Trials]
      /\ trial'[running] = trial[running] /\ trial'[Target] = "new"
      /\ restarting' \in BOOLEAN /\ unrestarted' \in BOOLEAN
      /\ unrestarted => unrestarted'
      /\ ~unrestarted' => restarting'
  BY <1>2, <1>3, SelectOther
<1>5. /\ Target' = Target /\ Target \in Slots /\ Target # running /\ running \in Slots
      /\ \A s \in Slots : s = running \/ s = Target
      /\ NoSlot \notin Slots
  BY <1>2, <1>3, SlotView DEF SlotsTypeOK
<1>6. ServerInv'
  BY <1>3, <1>4 DEF ServerInv, UploadIsOurs
<1>7. /\ image' \in [Slots -> Image] /\ image'[running] = image[running]
      /\ image'[Target].proven = image[Target].proven
      /\ image[Target].by = "shown" => Vetted(Target)'
  <2>1. CASE image[Target].by = "shown"
    <3> DEFINE i == [image EXCEPT ![Target].by = "confirmed"]
    <3>1. image' = i
      BY <1>2, <2>1 DEF Confirm
    <3>2. image[Target] \in Image
      BY <1>2, <1>5 DEF SlotsTypeOK
    <3>3. /\ i \in [Slots -> Image] /\ i[running] = image[running]
          /\ i[Target].proven = image[Target].proven
          /\ i[Target].by = "confirmed"
      BY <1>2, <1>5, <3>2, HandOver DEF SlotsTypeOK, Origins
    <3> HIDE DEF i
    <3> QED
      BY <1>5, <3>1, <3>3 DEF Vetted
  <2>2. CASE image[Target].by # "shown"
    BY <1>2, <2>2 DEF Confirm, SlotsTypeOK
  <2> QED
    BY <2>1, <2>2
<1>8. SlotsTypeOK'
  BY <1>2, <1>3, <1>4, <1>5, <1>7 DEF SlotsTypeOK
<1>9. ShownIsUnmarked'
  BY <1>3, <1>5, <1>7 DEF SlotsInv, ShownIsUnmarked, Runs
<1>10. MarkIsEarned'
  BY <1>2, <1>3, <1>5, <1>7 DEF SlotsInv, MarkIsEarned
<1>11. ASSUME StartsAreVetted, restarting' PROVE StartsAreVetted'
  <2>1. image[Target].by = "shown" /\ trial[running] = "valid"
    BY <1>2, <1>5, <1>11 DEF StartsAreVetted, Confirm
  <2> QED
    BY <1>2, <1>3, <1>4, <1>5, <1>7, <1>11, <2>1
       DEF StartsAreVetted, OtherMayStart, Vetted, Runs
<1> QED
  BY <1>1, <1>4, <1>6, <1>8, <1>9, <1>10, <1>11, Parts DEF SlotsInv

LEMMA RollBackKeeps == IInv /\ RollBack => IInv'
<1> SUFFICES ASSUME CredentialsInv, SlotsInv, ServerInv, RollBack PROVE IInv'
  BY Parts
<1>1. CredentialsInv'
  BY CredentialsUntouched DEF RollBack
<1>2. SlotsTypeOK /\ mark[Target] = "eligible" /\ pending = NoSlot
  BY DEF RollBack, MayRollBack, SlotsInv, ShownIsUnmarked
<1>3. Select(Target) /\ UNCHANGED <<image, running, started, mark, pending, upload, uploads>>
      /\ upload = "idle"
  BY DEF RollBack, Authorized, HttpdIdle
<1>4. /\ selected' = Target /\ trial' \in [Slots -> Trials]
      /\ trial'[running] = trial[running] /\ trial'[Target] = "new"
      /\ restarting' \in BOOLEAN /\ unrestarted' \in BOOLEAN
      /\ unrestarted => unrestarted'
      /\ ~unrestarted' => restarting'
  BY <1>2, <1>3, SelectOther
<1>5. /\ Target' = Target /\ Target \in Slots /\ Target # running /\ running \in Slots
      /\ \A s \in Slots : s = running \/ s = Target
  BY <1>2, <1>3, SlotView DEF SlotsTypeOK
<1>6. ServerInv'
  BY <1>3, <1>4 DEF ServerInv, UploadIsOurs
<1>7. SlotsTypeOK'
  BY <1>2, <1>3, <1>4, <1>5 DEF SlotsTypeOK
<1>8. ShownIsUnmarked' /\ MarkIsEarned'
  BY <1>3, <1>5 DEF SlotsInv, ShownIsUnmarked, MarkIsEarned, Runs
<1>9. ASSUME StartsAreVetted, restarting' PROVE StartsAreVetted'
  <2>1. Vetted(Target)
    BY <1>2, <1>5, <1>9 DEF SlotsInv, MarkIsEarned, StartsAreVetted, Vetted
  <2> QED
    BY <1>2, <1>3, <1>4, <1>5, <1>9, <2>1
       DEF StartsAreVetted, OtherMayStart, Vetted, Runs
<1> QED
  BY <1>1, <1>4, <1>6, <1>7, <1>8, <1>9, Parts DEF SlotsInv

-----------------------------------------------------------------------------
(* A release from before the marks.                                        *)

LEMMA OldReleaseKeeps == IInv /\ OldRelease => IInv'
<1> SUFFICES ASSUME CredentialsInv, SlotsInv, ServerInv, OldRelease PROVE IInv'
  BY Parts
<1>1. CredentialsInv'
  BY CredentialsUntouched DEF OldRelease
<1>2. SlotsTypeOK /\ Runs.old /\ trial[running] = "valid"
  BY DEF OldRelease, SlotsInv
<1>3. /\ selected' = Target /\ trial' = [trial EXCEPT ![Target] = "new"]
      /\ UNCHANGED <<running, started, mark, pending, upload, restarting, unrestarted>>
      /\ upload = "idle"
  BY <1>2 DEF OldRelease, ServerInv, UploadIsOurs
<1>4. /\ Target' = Target /\ Target \in Slots /\ Target # running /\ running \in Slots
      /\ \A s \in Slots : s = running \/ s = Target
  BY <1>2, <1>3, SlotView DEF SlotsTypeOK
<1>5. PICK old \in BOOLEAN :
        image' = [image EXCEPT ![Target] = [complete |-> TRUE, old |-> old,
                    healthy |-> TRUE, proven |-> FALSE, by |-> "elsewhere"]]
  BY DEF OldRelease
<1> DEFINE w == [complete |-> TRUE, old |-> old, healthy |-> TRUE, proven |-> FALSE,
                 by |-> "elsewhere"]
<1>6. w \in Image /\ ~w.proven /\ w.by = "elsewhere"
  BY DEF Image
<1>7. image' = [image EXCEPT ![Target] = w]
  BY <1>5
<1> HIDE DEF w
<1>8. /\ image' \in [Slots -> Image] /\ image'[running] = image[running]
      /\ image'[Target] = w
      /\ trial' \in [Slots -> Trials]
      /\ trial'[running] = "valid" /\ trial'[Target] = "new"
  BY <1>2, <1>3, <1>4, <1>6, <1>7 DEF SlotsTypeOK, Trials
<1>9. ServerInv'
  <2>1. uploads' \in 0..MaxUploads
    BY UpdateAssumption DEF OldRelease, ServerInv
  <2> QED
    BY <1>3, <2>1 DEF ServerInv, UploadIsOurs
<1>10. SlotsTypeOK'
  BY <1>2, <1>3, <1>4, <1>8 DEF SlotsTypeOK
<1>11. ShownIsUnmarked'
  BY <1>3, <1>4, <1>8 DEF SlotsInv, ShownIsUnmarked, Runs
<1>12. MarkIsEarned'
  BY <1>3, <1>4, <1>6, <1>8 DEF SlotsInv, MarkIsEarned
<1>13. ASSUME StartsAreVetted PROVE StartsAreVetted'
  <2>1. pending = NoSlot
    BY <1>2, <1>13 DEF StartsAreVetted
  <2> QED
    BY <1>2, <1>3, <1>4, <1>6, <1>8, <1>13, <2>1
       DEF StartsAreVetted, OtherMayStart, Vetted, Runs
<1> QED
  BY <1>1, <1>3, <1>9, <1>10, <1>11, <1>12, <1>13, Parts DEF SlotsInv

LEMMA OldStartsKeeps == IInv /\ OldStarts => IInv'
<1> SUFFICES ASSUME CredentialsInv, SlotsInv, ServerInv, OldStarts PROVE IInv'
  BY Parts
<1>1. CredentialsInv'
  BY CredentialsUntouched DEF OldStarts, serverVars
<1>2. SlotsTypeOK /\ UNCHANGED <<image, selected, running, serverVars>>
      /\ trial' = [trial EXCEPT ![running] = "valid"]
  BY DEF OldStarts, SlotsInv
<1>3. /\ Target' = Target /\ Target \in Slots /\ Target # running /\ running \in Slots
      /\ \A s \in Slots : s = running \/ s = Target
  BY <1>2, SlotView DEF SlotsTypeOK
<1>4. /\ trial' \in [Slots -> Trials]
      /\ trial'[running] = "valid" /\ trial'[Target] = trial[Target]
  BY <1>2, <1>3 DEF SlotsTypeOK, Trials
<1>5. ServerInv'
  BY <1>2 DEF serverVars, ServerInv, UploadIsOurs, Runs
<1>6. SlotsTypeOK'
  BY <1>2, <1>4 DEF SlotsTypeOK, serverVars
<1>7. ShownIsUnmarked' /\ MarkIsEarned'
  BY <1>2, <1>3 DEF SlotsInv, ShownIsUnmarked, MarkIsEarned, serverVars, Runs
<1>8. ASSUME StartsAreVetted PROVE StartsAreVetted'
  BY <1>2, <1>3, <1>4, <1>8
     DEF StartsAreVetted, OtherMayStart, Vetted, Runs, serverVars
<1> QED
  BY <1>1, <1>2, <1>5, <1>6, <1>7, <1>8, Parts DEF SlotsInv, serverVars

-----------------------------------------------------------------------------
LEMMA StepKeeps == IInv /\ [Next]_vars => IInv'
<1> SUFFICES ASSUME IInv, [Next]_vars PROVE IInv'
  OBVIOUS
<1>1. CASE Reset
  BY <1>1, ResetKeeps
<1>2. CASE ServerStarts \/ MarkValid \/ RecordEligible
  BY <1>2, ServerStartsKeeps, MarkValidKeeps, RecordEligibleKeeps
<1>3. CASE SetPassword \/ PasswordIsSet \/ Restart
  BY <1>3, SetPasswordKeeps, RestartKeeps
<1>4. CASE UploadBlocks \/ UploadErases \/ UploadEnds
  BY <1>4, UploadBlocksKeeps, UploadErasesKeeps, UploadEndsKeeps
<1>5. CASE Confirm \/ Cancel \/ RollBack
  BY <1>5, ConfirmKeeps, CancelKeeps, RollBackKeeps
<1>6. CASE OldRelease \/ OldStarts
  BY <1>6, OldReleaseKeeps, OldStartsKeeps
<1>7. CASE UNCHANGED vars
  <2>1. UNCHANGED <<credentialVars, slotVars, started, mark, pending, upload, restarting,
                    unrestarted, uploads>>
    BY <1>7 DEF vars, serverVars
  <2>2. CredentialsInv' /\ SlotsInv'
    BY <2>1, CredentialsUntouched, SlotsUntouched, Parts
  <2>3. ServerInv'
    BY <2>1, Parts DEF ServerInv, UploadIsOurs, Runs, slotVars
  <2> QED
    BY <2>2, <2>3, Parts
<1> QED
  BY <1>1, <1>2, <1>3, <1>4, <1>5, <1>6, <1>7 DEF Next

(***************************************************************************)
(* In every reachable state, whichever write failed and whenever the       *)
(* device was reset, the credentials and the slots are as IInv says.       *)
(***************************************************************************)
THEOREM Invariance == Spec => []IInv
<1>1. Init => IInv
  BY InitCredentialsInv, InitSlotsInv, Parts
<1> QED
  BY <1>1, StepKeeps, PTL DEF Spec

\* Every variable keeps its type, through every handler, start and reset.
THEOREM TypeCorrect == Spec => []TypeOK
BY Invariance, PTL DEF IInv

(***************************************************************************)
(* The owner is never locked out: admin_write_password() and the load at   *)
(* boot accept the password last reported as set or one asked for since.   *)
(***************************************************************************)
THEOREM OwnerIsKnown == Spec => []AcceptedIsKnown
BY Invariance, PTL DEF IInv

(***************************************************************************)
(* Enrolment is not opened again by a reset, a failing read of NVS or half *)
(* of an older release's keys.                                             *)
(***************************************************************************)
THEOREM EnrolmentIsOnce == Spec => []EnrolmentStaysClosed
<1>1. IInv => EnrolmentStaysClosed
  BY DEF IInv, LoadedOrUnset, EnrolmentStaysClosed, HttpdIdle
<1> QED
  BY <1>1, Invariance, PTL

\* A slot offered for rollback holds the very image that came up with the new settings.
THEOREM RollbackIsSafe == Spec => []MarkIsEarned
BY Invariance, PTL DEF IInv

(***************************************************************************)
(* What runs was confirmed by the owner, as long as the restart after a    *)
(* confirmation could be started.                                          *)
(***************************************************************************)
THEOREM ConfirmedRuns == Spec => []OnlyConfirmedRuns
<1>1. IInv => OnlyConfirmedRuns
  BY DEF IInv, StartsAreVetted, OnlyConfirmedRuns, Vetted, Runs
<1> QED
  BY <1>1, Invariance, PTL
=============================================================================
