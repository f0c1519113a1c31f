------------------------- MODULE SyncRecoveryProofs -------------------------
(***************************************************************************)
(* Proofs, for any number of doublings, any timeout and any amount of      *)
(* trouble, of the safety and the action properties of SyncRecovery.       *)
(*                                                                         *)
(* The codes are kept apart by two bounds that hold each other up: a saved *)
(* code is never beyond the opener's next one, so that a synchronization,  *)
(* which takes a code beyond the opener's, always saves a later one; and   *)
(* an attempt only fails without anything going wrong if its code was not  *)
(* ahead of the opener, so that the jump after it stays within one jump.   *)
(***************************************************************************)
EXTENDS SyncRecovery, TLAPS

GdoStates == [protocol : Protocols \cup {"NONE"}, code : Nat, synced : BOOLEAN,
              syncing : BOOLEAN]
OpenerStates == [protocol : Protocols, counter : Nat]

\* How far whatever went wrong may have taken the code beyond the opener's counter.
Room == trouble * MaxJump
CodeIsNear == gdo.code <= opener.counter + Room + MaxJump

TypesOnly ==
  /\ opener \in OpenerStates /\ nvs \in Saved /\ gdo \in GdoStates
  /\ s_sync_retry_count \in Nat /\ failing_for \in 0..FaultTimeout + 1
  /\ s_gdo_pairing_fault \in BOOLEAN
  /\ handler \in {"idle", "event", "protocol", "code"}
  /\ probed \in Protocols \cup {"NONE"} /\ s_gdo_protocol_identified \in BOOLEAN
  /\ learn \in {"undecided", "shown", "hidden"} /\ reprobed \in BOOLEAN
  /\ unsynced_for \in 0..FaultTimeout + 1 /\ trouble \in 0..MaxTrouble

\* The five parts of IInv: they are about different variables, and kept apart.
Codes == SyncedIsConfirmed /\ HandlerSavesAhead /\ JumpsFromWithin /\ CodeIsNear
Times == StreakIsTimed /\ FaultIsEarned
Tile == EvidenceCounts /\ TileIsProven

-----------------------------------------------------------------------------
(* Jumps and records.                                                      *)

LEMMA MaxJumpIsPositive == MaxJump \in Nat /\ MaxJump >= 1
BY PowerAssumption, ParameterAssumption DEF MaxJump

\* A jump is never longer than the cap, however long the streak of failures.
LEMMA JumpIsCapped ==
  ASSUME NEW n \in Nat, n >= 1
  PROVE  Jump(n) \in Nat /\ Jump(n) <= MaxJump
<1>1. CASE n > MaxShift
  BY <1>1, MaxJumpIsPositive DEF Jump, MaxJump
<1>2. CASE n <= MaxShift
  <2>1. n - 1 \in 0..MaxShift
    BY <1>2, ParameterAssumption
  <2>2. 2 ^ (n - 1) \in 1..MaxJump
    BY <2>1, PowerAssumption DEF MaxJump
  <2>3. Jump(n) = 2 ^ (n - 1)
    BY <1>2, ParameterAssumption DEF Jump
  <2> QED
    BY <2>2, <2>3, MaxJumpIsPositive
<1> QED
  BY <1>1, <1>2, ParameterAssumption

LEMMA Product ==
  ASSUME NEW t \in Nat, NEW j \in Nat
  PROVE  t * j \in Nat /\ (t + 1) * j = t * j + j
OBVIOUS

LEMMA RoomGrows ==
  ASSUME trouble \in Nat, trouble' \in {trouble, trouble + 1}
  PROVE  /\ Room \in Nat /\ Room' \in Nat /\ Room' >= Room
         /\ trouble' = trouble => Room' = Room
         /\ trouble' = trouble + 1 => Room' = Room + MaxJump
<1>1. Room' = trouble' * MaxJump
  BY DEF Room, MaxJump
<1>2. Room = trouble * MaxJump
  BY DEF Room
<1>3. Room \in Nat /\ (trouble + 1) * MaxJump = Room + MaxJump
  BY <1>2, MaxJumpIsPositive, Product
<1>4. CASE trouble' = trouble
  <2>1. Room' = Room
    BY <1>1, <1>2, <1>4
  <2> QED
    BY <1>3, <1>4, <2>1
<1>5. CASE trouble' = trouble + 1
  <2>1. Room' = Room + MaxJump
    BY <1>1, <1>3, <1>5
  <2> QED
    BY <1>3, <1>5, <2>1, MaxJumpIsPositive
<1> QED
  BY <1>4, <1>5

LEMMA BoundIs ==
  ASSUME NEW t \in Nat, NEW c \in Nat, NEW k \in Nat
  PROVE  k <= c + (t + 1) * 2 ^ MaxShift <=> k <= c + t * MaxJump + MaxJump
<1>1. (t + 1) * 2 ^ MaxShift = t * MaxJump + MaxJump /\ t * MaxJump \in Nat
  BY MaxJumpIsPositive, Product DEF MaxJump
<1> QED
  BY <1>1, MaxJumpIsPositive

LEMMA Parts ==
  /\ IInv <=> TypesOnly /\ Codes /\ Times /\ Tile
  /\ IInv' <=> TypesOnly' /\ Codes' /\ Times' /\ Tile'
<1>1. TypeOK <=> TypesOnly /\ gdo.code <= opener.counter + (trouble + 1) * 2 ^ MaxShift
  BY DEF TypeOK, TypesOnly, GdoStates, OpenerStates
<1>2. TypeOK' <=> /\ TypesOnly'
                  /\ gdo'.code <= opener'.counter + (trouble' + 1) * 2 ^ MaxShift
  BY DEF TypeOK, TypesOnly, GdoStates, OpenerStates
<1>3. TypesOnly => gdo.code \in Nat /\ opener.counter \in Nat /\ trouble \in Nat
  BY ParameterAssumption DEF TypesOnly, GdoStates, OpenerStates
<1>4. TypesOnly' => gdo'.code \in Nat /\ opener'.counter \in Nat /\ trouble' \in Nat
  BY ParameterAssumption DEF TypesOnly, GdoStates, OpenerStates
<1>5. TypeOK <=> TypesOnly /\ CodeIsNear
  BY <1>1, <1>3, BoundIs DEF CodeIsNear, Room
<1>6. CodeIsNear' <=> gdo'.code <= opener'.counter + trouble' * MaxJump + MaxJump
  BY DEF CodeIsNear, Room, MaxJump
<1>7. TypeOK' <=> TypesOnly' /\ CodeIsNear'
  BY <1>2, <1>4, <1>6, BoundIs
<1> QED
  BY <1>5, <1>7 DEF IInv, Codes, Times, Tile

LEMMA GdoFields ==
  ASSUME NEW g \in GdoStates
  PROVE  /\ g.protocol \in Protocols \cup {"NONE"} /\ g.code \in Nat
         /\ g.synced \in BOOLEAN /\ g.syncing \in BOOLEAN
BY DEF GdoStates

LEMMA GdoCode ==
  ASSUME NEW g \in GdoStates, NEW c \in Nat
  PROVE  LET h == [g EXCEPT !.code = c]
         IN  /\ h \in GdoStates /\ h.code = c /\ h.protocol = g.protocol
             /\ (h.synced <=> g.synced) /\ (h.syncing <=> g.syncing)
BY DEF GdoStates

LEMMA GdoRetried ==
  ASSUME NEW g \in GdoStates, NEW c \in Nat
  PROVE  LET h == [g EXCEPT !.code = c, !.syncing = TRUE]
         IN  /\ h \in GdoStates /\ h.code = c /\ h.protocol = g.protocol
             /\ (h.synced <=> g.synced) /\ h.syncing
BY DEF GdoStates

LEMMA GdoFlags ==
  ASSUME NEW g \in GdoStates
  PROVE  /\ LET h == [g EXCEPT !.syncing = TRUE]
            IN  /\ h \in GdoStates /\ h.code = g.code /\ h.protocol = g.protocol
                /\ (h.synced <=> g.synced) /\ h.syncing
         /\ LET h == [g EXCEPT !.synced = FALSE]
            IN  /\ h \in GdoStates /\ h.code = g.code /\ h.protocol = g.protocol
                /\ ~h.synced /\ (h.syncing <=> g.syncing)
BY DEF GdoStates

LEMMA OpenerFields ==
  ASSUME NEW o \in OpenerStates
  PROVE  /\ o.protocol \in Protocols /\ o.counter \in Nat
         /\ \A c \in Nat :
              /\ [o EXCEPT !.counter = c] \in OpenerStates
              /\ [o EXCEPT !.counter = c].counter = c
              /\ [o EXCEPT !.counter = c].protocol = o.protocol
BY DEF OpenerStates

LEMMA SavedFields ==
  ASSUME NEW n \in Saved
  PROVE  /\ n.protocol \in Protocols \cup {"NONE"} /\ n.code \in Nat
         /\ \A c \in Nat :
              /\ [n EXCEPT !.code = c] \in Saved
              /\ [n EXCEPT !.code = c].code = c
              /\ [n EXCEPT !.code = c].protocol = n.protocol
         /\ \A p \in Protocols \cup {"NONE"} :
              /\ [n EXCEPT !.protocol = p] \in Saved
              /\ [n EXCEPT !.protocol = p].code = n.code
              /\ [n EXCEPT !.protocol = p].protocol = p
BY DEF Saved

\* The fields of the three records, as every step below needs them.
LEMMA Fields ==
  ASSUME TypesOnly
  PROVE  /\ gdo.protocol \in Protocols \cup {"NONE"} /\ gdo.code \in Nat
         /\ gdo.synced \in BOOLEAN /\ gdo.syncing \in BOOLEAN
         /\ opener.protocol \in Protocols /\ opener.counter \in Nat
         /\ nvs.protocol \in Protocols \cup {"NONE"} /\ nvs.code \in Nat
         /\ trouble \in Nat
BY GdoFields, OpenerFields, SavedFields, ParameterAssumption DEF TypesOnly

LEMMA InitIInv == Init => IInv
<1> SUFFICES ASSUME Init PROVE IInv
  OBVIOUS
<1>1. gdo \in GdoStates /\ gdo.protocol = "NONE" /\ gdo.code = 1 /\ ~gdo.synced
  BY DEF Init, Fresh, GdoStates
<1>2. nvs \in Saved /\ nvs.code = 0
  BY DEF Init, Saved
<1>3. opener \in OpenerStates /\ opener.counter = 1
  BY DEF Init, OpenerStates
<1>4. failing_for \in 0..FaultTimeout + 1 /\ unsynced_for \in 0..FaultTimeout + 1
      /\ trouble \in 0..MaxTrouble
  BY ParameterAssumption DEF Init
<1>5. TypesOnly
  BY <1>1, <1>2, <1>3, <1>4 DEF Init, TypesOnly
<1>6. Room \in Nat
  BY MaxJumpIsPositive DEF Room, Init
<1>7. Codes
  BY <1>1, <1>2, <1>3, <1>6, MaxJumpIsPositive
     DEF Init, Codes, SyncedIsConfirmed, HandlerSavesAhead, JumpsFromWithin, CodeIsNear
<1>8. Times /\ Tile
  BY <1>1 DEF Init, Times, Tile, StreakIsTimed, FaultIsEarned, EvidenceCounts, TileIsProven
<1> QED
  BY <1>5, <1>7, <1>8, Parts

-----------------------------------------------------------------------------
(* gdolib, the opener and the clock.                                       *)

(***************************************************************************)
(* An attempt ends: with success on V2 only beyond the opener's counter;   *)
(* with a failure, unless something went wrong, only within it.            *)
(***************************************************************************)
LEMMA SyncEndsKeeps ==
  ASSUME IInv, NEW p \in Protocols, NEW ok \in BOOLEAN, SyncEnds(p, ok),
         trouble' \in {trouble, trouble + 1}, trouble' \in 0..MaxTrouble,
         ok /\ p = "V2" => gdo.code > opener.counter /\ opener.protocol = "V2",
         ~ok => gdo.code <= opener.counter \/ trouble' = trouble + 1
  PROVE  IInv'
<1>1. TypesOnly /\ Codes /\ Times /\ Tile
  BY Parts
<1>2. /\ gdo.code \in Nat /\ opener.counter \in Nat /\ nvs.code \in Nat /\ trouble \in Nat
      /\ gdo.syncing /\ ~gdo.synced /\ handler = "idle" /\ handler' = "event"
      /\ UNCHANGED <<nvs, ramVars, s_gdo_protocol_identified, learn>>
      /\ unsynced_for' = (IF ok THEN 0 ELSE unsynced_for)
      /\ probed' = "NONE" /\ NotesChange
  BY <1>1, Fields DEF SyncEnds, Codes, SyncedIsConfirmed
<1>3. /\ Room \in Nat /\ Room' \in Nat /\ Room' >= Room
      /\ trouble' = trouble + 1 => Room' = Room + MaxJump
      /\ MaxJump \in Nat /\ MaxJump >= 1
  BY <1>2, RoomGrows, MaxJumpIsPositive
<1> DEFINE c == IF ok /\ p = "V2" THEN gdo.code + 1 ELSE gdo.code
<1>4. gdo' = [protocol |-> p, code |-> c, synced |-> ok, syncing |-> FALSE] /\ c \in Nat
  BY <1>2 DEF SyncEnds
<1>5. c = gdo.code \/ (ok /\ p = "V2" /\ c = gdo.code + 1)
  OBVIOUS
<1>6. ok /\ p = "V2" => c = gdo.code + 1
  OBVIOUS
<1> HIDE DEF c
<1>7. /\ gdo' \in GdoStates /\ gdo'.protocol = p /\ gdo'.code = c
      /\ (gdo'.synced <=> ok) /\ ~gdo'.syncing
  BY <1>4 DEF GdoStates
<1>8. /\ opener' \in OpenerStates /\ opener'.protocol = opener.protocol
      /\ ok /\ p = "V2" => opener'.counter = gdo.code
      /\ ~(ok /\ p = "V2") => opener'.counter = opener.counter
  <2>1. opener' = IF ok /\ p = "V2" THEN [opener EXCEPT !.counter = gdo.code] ELSE opener
    BY DEF SyncEnds
  <2> QED
    BY <1>1, <1>2, <2>1, OpenerFields DEF TypesOnly
<1>9. TypesOnly'
  <2>1. unsynced_for' \in 0..FaultTimeout + 1
    BY <1>1, <1>2, ParameterAssumption DEF TypesOnly
  <2>2. reprobed' \in BOOLEAN
    BY <1>2 DEF NotesChange
  <2> QED
    BY <1>1, <1>2, <1>7, <1>8, <2>1, <2>2 DEF TypesOnly, ramVars
<1>10. SyncedIsConfirmed' /\ HandlerSavesAhead'
  <2>1. ok /\ p = "V2" => c >= nvs.code /\ c <= opener'.counter + 1
    BY <1>1, <1>2, <1>6, <1>8 DEF Codes, SyncedIsConfirmed
  <2>2. nvs.code <= opener'.counter + 1
    BY <1>1, <1>2, <1>8 DEF Codes, SyncedIsConfirmed
  <2> QED
    BY <1>2, <1>7, <1>8, <2>1, <2>2 DEF SyncedIsConfirmed, HandlerSavesAhead, Protocols
<1>11. JumpsFromWithin'
  <2>1. ~ok => c <= opener'.counter + Room'
    BY <1>1, <1>2, <1>3, <1>5, <1>8 DEF Codes, CodeIsNear
  <2>2. Room' = trouble' * MaxJump
    BY DEF Room, MaxJump
  <2> QED
    BY <1>7, <2>1, <2>2 DEF JumpsFromWithin, MaxJump
<1>12. CodeIsNear'
  <2>1. c <= opener'.counter + Room' + MaxJump
    BY <1>1, <1>2, <1>3, <1>5, <1>8 DEF Codes, CodeIsNear
  <2>2. MaxJump' = MaxJump
    BY DEF MaxJump
  <2> QED
    BY <1>7, <2>1, <2>2 DEF CodeIsNear
<1>13. Times'
  BY <1>1, <1>2, <1>7 DEF Times, StreakIsTimed, FaultIsEarned, ramVars
<1>14. Tile'
  <2>1. reprobed' \/ ~(s_gdo_protocol_identified /\ learn = "undecided")
        \/ StatusProtocol' = StatusProtocol
    BY <1>2 DEF NotesChange
  <2>2. ~reprobed' => ~reprobed
    BY <1>1, <1>2 DEF NotesChange, TypesOnly
  <2> QED
    BY <1>1, <1>2, <1>8, <2>1, <2>2 DEF Tile, EvidenceCounts, TileIsProven
<1> QED
  BY <1>9, <1>10, <1>11, <1>12, <1>13, <1>14, Parts DEF Codes

LEMMA WrongIsCounted ==
  ASSUME TypesOnly, GoesWrong
  PROVE  trouble' = trouble + 1 /\ trouble' \in 0..MaxTrouble
BY ParameterAssumption DEF TypesOnly, GoesWrong

LEMMA SyncKeeps == IInv /\ SyncStep => IInv'
<1> SUFFICES ASSUME IInv, SyncStep PROVE IInv'
  OBVIOUS
<1>1. TypesOnly
  BY Parts
<1>2. /\ gdo.code \in Nat /\ opener.counter \in Nat /\ trouble \in 0..MaxTrouble
      /\ opener.protocol \in Protocols /\ gdo.protocol \in Protocols \cup {"NONE"}
  BY <1>1, Fields DEF TypesOnly
<1>3. CASE SyncAnswered
  <2> DEFINE ok == opener.protocol = "V1" \/ gdo.code > opener.counter
  <2>1. SyncEnds(opener.protocol, ok) /\ trouble' = trouble
    BY <1>3 DEF SyncAnswered
  <2>2. ok \in BOOLEAN
    OBVIOUS
  <2>3. ok /\ opener.protocol = "V2" => gdo.code > opener.counter
    OBVIOUS
  <2>4. ~ok => gdo.code <= opener.counter
    BY <1>2
  <2> HIDE DEF ok
  <2> QED
    BY <1>2, <2>1, <2>2, <2>3, <2>4, SyncEndsKeeps
<1>4. CASE SyncUnanswered
  <2>1. gdo.protocol \in Protocols
    BY <1>2, <1>4 DEF SyncUnanswered, Detects
  <2>2. trouble' = trouble + 1 /\ trouble' \in 0..MaxTrouble
    BY <1>1, <1>4, WrongIsCounted DEF SyncUnanswered
  <2> QED
    BY <1>4, <2>1, <2>2, SyncEndsKeeps DEF SyncUnanswered
<1>5. CASE SyncDisturbed
  <2>1. trouble' = trouble + 1 /\ trouble' \in 0..MaxTrouble
    BY <1>1, <1>5, WrongIsCounted DEF SyncDisturbed
  <2>2. CASE \E p \in Protocols : SyncEnds(p, FALSE)
    BY <2>1, <2>2, SyncEndsKeeps
  <2>3. CASE SyncEnds("V1", TRUE)
    BY <2>1, <2>3, SyncEndsKeeps DEF Protocols
  <2> QED
    BY <1>5, <2>2, <2>3 DEF SyncDisturbed
<1> QED
  BY <1>3, <1>4, <1>5 DEF SyncStep

LEMMA TileUntouched ==
  ASSUME Tile, UNCHANGED tileVars, opener'.protocol = opener.protocol,
         gdo'.protocol = gdo.protocol
  PROVE  Tile'
BY DEF Tile, tileVars, EvidenceCounts, TileIsProven, StatusProtocol

\* Codes, where neither a code nor a counter changes nor a handler comes or stays.
LEMMA CodesUntouched ==
  ASSUME TypesOnly, Codes, UNCHANGED <<opener, nvs>>,
         trouble' \in {trouble, trouble + 1},
         gdo'.code = gdo.code, gdo'.protocol = gdo.protocol,
         gdo'.synced => gdo.synced, ~(gdo'.synced /\ gdo'.syncing),
         handler' \in {handler, "idle"},
         handler' = "idle" \/ (handler' = handler /\ gdo' = gdo)
  PROVE  Codes'
<1>1. /\ gdo.code \in Nat /\ opener.counter \in Nat /\ nvs.code \in Nat /\ trouble \in Nat
  BY Fields
<1>2. Room \in Nat /\ Room' \in Nat /\ Room' >= Room /\ MaxJump \in Nat
  BY <1>1, RoomGrows, MaxJumpIsPositive
<1>3. SyncedIsConfirmed' /\ HandlerSavesAhead'
  BY DEF Codes, SyncedIsConfirmed, HandlerSavesAhead
<1>4. CodeIsNear'
  <2>1. MaxJump' = MaxJump
    BY DEF MaxJump
  <2> QED
    BY <1>1, <1>2, <2>1 DEF Codes, CodeIsNear
<1>5. JumpsFromWithin'
  <2>1. Room' = trouble' * MaxJump' /\ Room = trouble * MaxJump
    BY DEF Room
  <2> QED
    BY <1>1, <1>2, <2>1 DEF Codes, JumpsFromWithin
<1> QED
  BY <1>3, <1>4, <1>5 DEF Codes

LEMMA CommandKeeps == IInv /\ (CommandSent \/ OpenerUsed) => IInv'
<1> SUFFICES ASSUME TypesOnly, Codes, Times, Tile, CommandSent \/ OpenerUsed PROVE IInv'
  BY Parts
<1>1. /\ gdo.code \in Nat /\ opener.counter \in Nat /\ nvs.code \in Nat /\ trouble \in Nat
      /\ trouble' = trouble + 1 /\ trouble' \in 0..MaxTrouble
      /\ UNCHANGED <<nvs, ramVars, handler, tileVars, unsynced_for>>
  BY Fields, WrongIsCounted DEF CommandSent, OpenerUsed
<1>2. /\ Room \in Nat /\ Room' = Room + MaxJump /\ MaxJump \in Nat /\ MaxJump >= 1
  BY <1>1, RoomGrows, MaxJumpIsPositive
<1>3. /\ opener' \in OpenerStates /\ opener'.protocol = opener.protocol
      /\ opener'.counter \in Nat /\ opener'.counter >= opener.counter
      /\ opener'.counter >= gdo.code \/ gdo' = gdo
  <2>1. CASE CommandSent
    <3> DEFINE c == IF gdo.code > opener.counter THEN gdo.code ELSE opener.counter
    <3>1. opener' = [opener EXCEPT !.counter = c]
      BY <2>1 DEF CommandSent
    <3>2. c \in Nat /\ c >= opener.counter /\ c >= gdo.code
      BY <1>1
    <3> HIDE DEF c
    <3>3. opener' \in OpenerStates /\ opener'.protocol = opener.protocol
          /\ opener'.counter = c
      BY <3>1, <3>2, OpenerFields DEF TypesOnly
    <3> QED
      BY <3>2, <3>3
  <2>2. CASE OpenerUsed
    <3> DEFINE c == opener.counter + 2
    <3>1. opener' = [opener EXCEPT !.counter = c]
      BY <2>2 DEF OpenerUsed
    <3>2. c \in Nat /\ c >= opener.counter
      BY <1>1
    <3> HIDE DEF c
    <3>3. opener' \in OpenerStates /\ opener'.protocol = opener.protocol
          /\ opener'.counter = c
      BY <3>1, <3>2, OpenerFields DEF TypesOnly
    <3> QED
      BY <2>2, <3>2, <3>3 DEF OpenerUsed
  <2> QED
    BY <2>1, <2>2
<1>4. /\ gdo' \in GdoStates /\ gdo'.protocol = gdo.protocol
      /\ (gdo'.synced <=> gdo.synced) /\ (gdo'.syncing <=> gdo.syncing)
      /\ gdo'.code \in Nat /\ gdo'.code >= gdo.code
      /\ gdo'.code = gdo.code \/ (gdo.synced /\ gdo'.code = gdo.code + 1)
  <2>1. CASE CommandSent
    <3> DEFINE c == gdo.code + 1
    <3>1. gdo' = [gdo EXCEPT !.code = c] /\ gdo.synced
      BY <2>1 DEF CommandSent
    <3>2. c \in Nat /\ c >= gdo.code
      BY <1>1
    <3>3. c = gdo.code + 1
      OBVIOUS
    <3> HIDE DEF c
    <3>4. gdo' \in GdoStates /\ gdo'.code = c /\ gdo'.protocol = gdo.protocol
          /\ (gdo'.synced <=> gdo.synced) /\ (gdo'.syncing <=> gdo.syncing)
      BY <3>1, <3>2, GdoCode DEF TypesOnly
    <3> QED
      BY <2>1, <3>1, <3>2, <3>3, <3>4
  <2>2. CASE OpenerUsed
    BY <1>1, <2>2 DEF OpenerUsed, TypesOnly
  <2> QED
    BY <2>1, <2>2
<1>5. TypesOnly'
  BY <1>1, <1>3, <1>4 DEF TypesOnly, ramVars, tileVars
<1>6. gdo'.code <= opener'.counter + 1 \/ gdo' = gdo
  BY <1>1, <1>3, <1>4
<1>7. SyncedIsConfirmed'
  BY <1>1, <1>3, <1>4, <1>6 DEF Codes, SyncedIsConfirmed
<1>8. HandlerSavesAhead'
  BY <1>1, <1>4 DEF Codes, HandlerSavesAhead
<1>9. CodeIsNear'
  <2>1. MaxJump' = MaxJump
    BY DEF MaxJump
  <2>2. gdo'.code <= opener'.counter + Room' + MaxJump
    BY <1>1, <1>2, <1>3, <1>4, <1>6 DEF Codes, CodeIsNear
  <2> QED
    BY <2>1, <2>2 DEF CodeIsNear
<1>10. JumpsFromWithin'
  <2>1. Room' = trouble' * MaxJump' /\ Room = trouble * MaxJump
    BY DEF Room
  <2> QED
    BY <1>1, <1>2, <1>3, <1>4, <2>1 DEF Codes, JumpsFromWithin
<1>11. Times'
  BY <1>1, <1>4 DEF Times, StreakIsTimed, FaultIsEarned, ramVars
<1>12. Tile'
  BY <1>1, <1>3, <1>4, TileUntouched
<1> QED
  BY <1>5, <1>7, <1>8, <1>9, <1>10, <1>11, <1>12, Parts DEF Codes

LEMMA LinkKeeps == IInv /\ (LoseLink \/ RequestSync) => IInv'
<1> SUFFICES ASSUME TypesOnly, Codes, Times, Tile, LoseLink \/ RequestSync PROVE IInv'
  BY Parts
<1>1. /\ trouble' \in {trouble, trouble + 1} /\ trouble' \in 0..MaxTrouble
      /\ UNCHANGED <<opener, nvs, ramVars, handler, tileVars, unsynced_for>>
      /\ handler = "idle"
  BY WrongIsCounted DEF LoseLink, RequestSync, TypesOnly
<1>2. /\ gdo' \in GdoStates /\ gdo'.protocol = gdo.protocol /\ gdo'.code = gdo.code
      /\ ~gdo'.synced
  <2>1. CASE LoseLink
    BY <2>1, GdoFlags DEF LoseLink, TypesOnly
  <2>2. CASE RequestSync
    <3>1. gdo' = [gdo EXCEPT !.syncing = TRUE] /\ ~gdo.synced
      BY <2>2 DEF RequestSync
    <3> QED
      BY <3>1, GdoFlags DEF TypesOnly
  <2> QED
    BY <2>1, <2>2
<1>3. TypesOnly'
  BY <1>1, <1>2 DEF TypesOnly, ramVars, tileVars
<1>4. Codes'
  BY <1>1, <1>2, CodesUntouched
<1>5. Times'
  <2>1. CASE LoseLink
    <3>1. failing_for = 0 /\ ~s_gdo_pairing_fault /\ unsynced_for \in Nat
      BY <1>1, <2>1, ParameterAssumption DEF LoseLink, Times, StreakIsTimed, TypesOnly
    <3> QED
      BY <1>1, <1>2, <3>1 DEF Times, StreakIsTimed, FaultIsEarned, ramVars
  <2>2. CASE RequestSync
    BY <1>1, <1>2, <2>2 DEF RequestSync, Times, StreakIsTimed, FaultIsEarned, ramVars
  <2> QED
    BY <2>1, <2>2
<1>6. Tile'
  BY <1>1, <1>2, TileUntouched
<1> QED
  BY <1>3, <1>4, <1>5, <1>6, Parts

LEMMA Ages ==
  ASSUME NEW a \in 0..FaultTimeout + 1, NEW b \in 0..FaultTimeout + 1
  PROVE  /\ Aged(a) \in 0..FaultTimeout + 1
         /\ a <= b => Aged(a) <= Aged(b) /\ a <= Aged(b)
         /\ b > FaultTimeout => Aged(b) > FaultTimeout
BY ParameterAssumption DEF Aged

LEMMA TickKeeps == IInv /\ Tick => IInv'
<1> SUFFICES ASSUME TypesOnly, Codes, Times, Tile, Tick PROVE IInv'
  BY Parts
<1>1. /\ UNCHANGED <<opener, nvs, gdo, s_sync_retry_count, s_gdo_pairing_fault, handler,
                     tileVars, trouble>>
      /\ unsynced_for' = Aged(unsynced_for) /\ failing_for' \in {failing_for, Aged(failing_for)}
      /\ ~gdo.synced
  BY DEF Tick
<1>2. unsynced_for' \in 0..FaultTimeout + 1 /\ failing_for' \in 0..FaultTimeout + 1
  BY <1>1, Ages DEF TypesOnly
<1>3. TypesOnly'
  BY <1>1, <1>2 DEF TypesOnly, tileVars
<1>4. Codes'
  BY <1>1, CodesUntouched DEF Codes, SyncedIsConfirmed
<1>5. Times'
  BY <1>1, Ages DEF Times, StreakIsTimed, FaultIsEarned, TypesOnly
<1>6. Tile'
  BY <1>1, TileUntouched
<1> QED
  BY <1>3, <1>4, <1>5, <1>6, Parts

-----------------------------------------------------------------------------
(* GDO_CB_EVENT_SYNCED.                                                    *)

\* After a failure the code is the old one or one capped jump further.
LEMMA FailedGdo ==
  ASSUME TypesOnly, SyncFailed
  PROVE  /\ trouble' \in {trouble, trouble + 1} /\ trouble' \in 0..MaxTrouble
         /\ gdo' \in GdoStates /\ gdo'.protocol = gdo.protocol /\ ~gdo'.synced
         /\ gdo'.code \in gdo.code..gdo.code + MaxJump
<1>1. s_sync_retry_count' = s_sync_retry_count + 1 /\ s_sync_retry_count \in Nat
      /\ ~gdo.synced /\ gdo.code \in Nat
  BY Fields DEF SyncFailed, TypesOnly
<1> DEFINE j == Jump(s_sync_retry_count')
           c == gdo.code + j
<1>2. j \in Nat /\ j <= MaxJump
  BY <1>1, JumpIsCapped
<1>3. \/ gdo' = [gdo EXCEPT !.code = c, !.syncing = TRUE] /\ UNCHANGED trouble
      \/ GoesWrong /\ gdo' \in {gdo, [gdo EXCEPT !.code = c]}
  BY DEF SyncFailed, Retried
<1> HIDE DEF j
<1>4. c \in Nat /\ c \in gdo.code..gdo.code + MaxJump /\ gdo.code \in gdo.code..gdo.code + MaxJump
  BY <1>1, <1>2, MaxJumpIsPositive
<1> HIDE DEF c
<1>5. CASE gdo' = [gdo EXCEPT !.code = c, !.syncing = TRUE] /\ UNCHANGED trouble
  BY <1>1, <1>4, <1>5, GdoRetried DEF TypesOnly
<1>6. CASE GoesWrong /\ gdo' = gdo
  BY <1>1, <1>4, <1>6, WrongIsCounted DEF TypesOnly
<1>7. CASE GoesWrong /\ gdo' = [gdo EXCEPT !.code = c]
  BY <1>1, <1>4, <1>7, WrongIsCounted, GdoCode DEF TypesOnly
<1> QED
  BY <1>3, <1>5, <1>6, <1>7

LEMMA FailedKeeps == IInv /\ SyncFailed => IInv'
<1> SUFFICES ASSUME TypesOnly, Codes, Times, Tile, SyncFailed PROVE IInv'
  BY Parts
<1>1. /\ trouble' \in {trouble, trouble + 1} /\ trouble' \in 0..MaxTrouble
      /\ gdo' \in GdoStates /\ gdo'.protocol = gdo.protocol /\ ~gdo'.synced
      /\ gdo'.code \in gdo.code..gdo.code + MaxJump
  BY FailedGdo
<1>2. /\ handler = "event" /\ ~gdo.synced /\ handler' = "idle"
      /\ s_sync_retry_count' = s_sync_retry_count + 1
      /\ failing_for' \in {0, failing_for}
      /\ (s_gdo_pairing_fault' <=> s_gdo_pairing_fault \/ failing_for' > FaultTimeout)
      /\ s_gdo_pairing_fault' \in BOOLEAN
      /\ UNCHANGED <<opener, nvs, tileVars, unsynced_for>>
  BY DEF SyncFailed, TypesOnly
<1>3. /\ gdo.code \in Nat /\ opener.counter \in Nat /\ nvs.code \in Nat /\ trouble \in Nat
      /\ gdo'.code \in Nat
  BY <1>1, Fields, GdoFields
<1>4. /\ Room \in Nat /\ Room' \in Nat /\ Room' >= Room /\ MaxJump \in Nat
  BY <1>1, <1>3, RoomGrows, MaxJumpIsPositive
<1>5. TypesOnly'
  <2>1. failing_for' \in 0..FaultTimeout + 1 /\ s_sync_retry_count' \in Nat
    BY <1>2, ParameterAssumption DEF TypesOnly
  <2> QED
    BY <1>1, <1>2, <2>1 DEF TypesOnly, tileVars
<1>6. Codes'
  <2>1. SyncedIsConfirmed' /\ HandlerSavesAhead' /\ JumpsFromWithin'
    BY <1>1, <1>2 DEF Codes, SyncedIsConfirmed, HandlerSavesAhead, JumpsFromWithin
  <2>2. gdo.code <= opener.counter + Room
    BY <1>2 DEF Codes, JumpsFromWithin, Room
  <2>3. MaxJump' = MaxJump
    BY DEF MaxJump
  <2>4. gdo'.code <= opener'.counter + Room' + MaxJump
    BY <1>1, <1>2, <1>3, <1>4, <2>2
  <2> QED
    BY <2>1, <2>3, <2>4 DEF Codes, CodeIsNear
<1>7. Times'
  <2>1. failing_for' <= unsynced_for
    BY <1>2 DEF Times, StreakIsTimed, TypesOnly
  <2>2. s_gdo_pairing_fault' => unsynced_for > FaultTimeout
    BY <1>2, <2>1, ParameterAssumption DEF Times, FaultIsEarned, TypesOnly
  <2> QED
    BY <1>1, <1>2, <2>1, <2>2 DEF Times, StreakIsTimed, FaultIsEarned
<1>8. Tile'
  BY <1>1, <1>2, TileUntouched
<1> QED
  BY <1>5, <1>6, <1>7, <1>8, Parts

LEMMA SucceededKeeps == IInv /\ SyncSucceeded => IInv'
<1> SUFFICES ASSUME TypesOnly, Codes, Times, Tile, SyncSucceeded PROVE IInv'
  BY Parts
<1>1. /\ handler = "event" /\ gdo.synced /\ handler' = "protocol"
      /\ UNCHANGED <<opener, nvs, gdo, probed, learn, reprobed, unsynced_for, trouble>>
      /\ s_sync_retry_count' = 0 /\ failing_for' = 0 /\ ~s_gdo_pairing_fault'
      /\ s_gdo_pairing_fault' \in BOOLEAN /\ s_gdo_protocol_identified' \in BOOLEAN
  BY DEF SyncSucceeded, StreakEnds
<1>2. TypesOnly'
  <2>1. failing_for' \in 0..FaultTimeout + 1
    BY <1>1, ParameterAssumption
  <2> QED
    BY <1>1, <2>1 DEF TypesOnly
<1>3. Codes'
  <2>1. Room' = Room /\ MaxJump' = MaxJump
    BY <1>1 DEF Room, MaxJump
  <2> QED
    BY <1>1, <2>1 DEF Codes, SyncedIsConfirmed, HandlerSavesAhead, JumpsFromWithin,
       CodeIsNear
<1>4. Times'
  BY <1>1 DEF Times, StreakIsTimed, FaultIsEarned
<1>5. Tile'
  <2>1. StatusProtocol' = gdo.protocol
    BY <1>1 DEF StatusProtocol, Codes, SyncedIsConfirmed
  <2>2. gdo.protocol = "V2" => opener.protocol = "V2"
    BY <1>1 DEF Codes, SyncedIsConfirmed
  <2> QED
    BY <1>1, <2>1, <2>2 DEF Tile, EvidenceCounts, TileIsProven
<1> QED
  BY <1>2, <1>3, <1>4, <1>5, Parts

\* What a save may do to flash: one of the two values, and trouble is counted.
LEMMA SavesKeep ==
  ASSUME TypesOnly, Codes, Times, Tile,
         UNCHANGED <<opener, gdo, ramVars, tileVars, unsynced_for>>,
         trouble' \in {trouble, trouble + 1}, trouble' \in 0..MaxTrouble,
         handler \in {"protocol", "code"}, handler' \in {"code", "idle"},
         handler' = "code" => gdo.protocol = "V2",
         nvs' \in Saved, nvs'.code = nvs.code \/ (nvs'.code = gdo.code /\ handler = "code")
  PROVE  IInv'
<1>1. /\ gdo.code \in Nat /\ opener.counter \in Nat /\ nvs.code \in Nat /\ trouble \in Nat
      /\ gdo.synced
  BY Fields DEF Codes, HandlerSavesAhead
<1>2. /\ Room \in Nat /\ Room' \in Nat /\ Room' >= Room /\ MaxJump \in Nat
  BY <1>1, RoomGrows, MaxJumpIsPositive
<1>3. TypesOnly'
  BY DEF TypesOnly, ramVars, tileVars
<1>4. SyncedIsConfirmed' /\ HandlerSavesAhead'
  BY <1>1 DEF Codes, SyncedIsConfirmed, HandlerSavesAhead
<1>5. JumpsFromWithin' /\ CodeIsNear'
  <2>1. MaxJump' = MaxJump
    BY DEF MaxJump
  <2> QED
    BY <1>1, <1>2, <2>1 DEF Codes, JumpsFromWithin, CodeIsNear
<1>6. Times' /\ Tile'
  BY <1>1, TileUntouched DEF Times, StreakIsTimed, FaultIsEarned, ramVars
<1> QED
  BY <1>3, <1>4, <1>5, <1>6, Parts DEF Codes

LEMMA WrittenIs ==
  ASSUME NEW old, NEW new, NEW w \in Written(old, new)
  PROVE  w \in {old, new}
BY DEF Written

LEMMA SaveProtocolWrites ==
  ASSUME TypesOnly, Codes, SaveProtocol
  PROVE  /\ trouble' \in {trouble, trouble + 1} /\ trouble' \in 0..MaxTrouble
         /\ nvs' \in Saved /\ nvs'.code = nvs.code
         /\ nvs.protocol = "V2" /\ trouble' = trouble => nvs'.protocol = "V2"
<1>1. PICK readable \in BOOLEAN :
        /\ IF readable THEN UNCHANGED trouble ELSE GoesWrong
        /\ \E new \in IF readable /\ Keeps THEN {nvs.protocol}
                      ELSE Written(nvs.protocol, gdo.protocol) :
             nvs' = [nvs EXCEPT !.protocol = new]
  BY DEF SaveProtocol
<1>2. PICK new \in IF readable /\ Keeps THEN {nvs.protocol}
                   ELSE Written(nvs.protocol, gdo.protocol) :
             nvs' = [nvs EXCEPT !.protocol = new]
  BY <1>1
<1>3. new \in {nvs.protocol, gdo.protocol} /\ (readable /\ Keeps => new = nvs.protocol)
  BY <1>2, WrittenIs
<1>4. new \in Protocols \cup {"NONE"}
  BY <1>3, Fields
<1>5. nvs' \in Saved /\ nvs'.code = nvs.code /\ nvs'.protocol = new
  BY <1>2, <1>4, SavedFields DEF TypesOnly
<1>6. trouble' \in {trouble, trouble + 1} /\ trouble' \in 0..MaxTrouble
      /\ (trouble' = trouble => readable)
  <2>1. trouble \in Nat
    BY Fields
  <2>2. CASE readable
    BY <1>1, <2>2 DEF TypesOnly
  <2>3. CASE ~readable
    BY <1>1, <2>1, <2>3, WrongIsCounted
  <2> QED
    BY <2>2, <2>3
<1>7. nvs.protocol = "V2" /\ readable => new = "V2"
  BY <1>3 DEF Keeps
<1> QED
  BY <1>5, <1>6, <1>7

LEMMA SaveProtocolKeeps == IInv /\ SaveProtocol => IInv'
<1> SUFFICES ASSUME TypesOnly, Codes, Times, Tile, SaveProtocol PROVE IInv'
  BY Parts
<1>1. /\ UNCHANGED <<opener, gdo, ramVars, tileVars, unsynced_for>>
      /\ handler = "protocol" /\ handler' \in {"code", "idle"}
      /\ handler' = "code" => gdo.protocol = "V2"
  BY DEF SaveProtocol, SavesCode
<1> QED
  BY <1>1, SaveProtocolWrites, SavesKeep

LEMMA SaveRollingStateWrites ==
  ASSUME TypesOnly, Codes, SaveRollingState
  PROVE  /\ trouble' = trouble /\ handler = "code"
         /\ nvs' \in Saved /\ nvs'.protocol = nvs.protocol
         /\ nvs'.code \in {nvs.code, gdo.code} /\ nvs'.code >= nvs.code
<1>1. PICK new \in Written(nvs.code, gdo.code) : nvs' = [nvs EXCEPT !.code = new]
  BY DEF SaveRollingState
<1>2. new \in {nvs.code, gdo.code}
  BY <1>1, WrittenIs
<1>3. nvs.code \in Nat /\ gdo.code \in Nat
  BY Fields
<1>4. handler = "code" /\ trouble' = trouble /\ gdo.code >= nvs.code
  BY DEF SaveRollingState, Codes, HandlerSavesAhead
<1>5. new \in Nat /\ new >= nvs.code
  BY <1>2, <1>3, <1>4
<1>6. nvs' \in Saved /\ nvs'.code = new /\ nvs'.protocol = nvs.protocol
  BY <1>1, <1>5, SavedFields DEF TypesOnly
<1> QED
  BY <1>2, <1>4, <1>5, <1>6

LEMMA SaveRollingStateKeeps == IInv /\ SaveRollingState => IInv'
<1> SUFFICES ASSUME TypesOnly, Codes, Times, Tile, SaveRollingState PROVE IInv'
  BY Parts
<1>1. UNCHANGED <<opener, gdo, ramVars, tileVars, unsynced_for>> /\ handler' = "idle"
  BY DEF SaveRollingState
<1>2. trouble' \in {trouble, trouble + 1} /\ trouble' \in 0..MaxTrouble
  BY SaveRollingStateWrites DEF TypesOnly
<1> QED
  BY <1>1, <1>2, SaveRollingStateWrites, SavesKeep

-----------------------------------------------------------------------------
(* The next boot, and the Learn tile.                                      *)

LEMMA ResetKeeps == IInv /\ Reset => IInv'
<1> SUFFICES ASSUME TypesOnly, Codes, Times, Tile, Reset PROVE IInv'
  BY Parts
<1>1. /\ gdo.code \in Nat /\ opener.counter \in Nat /\ nvs.code \in Nat /\ trouble \in Nat
      /\ trouble' = trouble + 1 /\ trouble' \in 0..MaxTrouble
      /\ UNCHANGED <<opener, nvs>>
      /\ handler' = "idle" /\ s_sync_retry_count' = 0 /\ failing_for' = 0
      /\ ~s_gdo_pairing_fault' /\ s_gdo_pairing_fault' \in BOOLEAN
      /\ unsynced_for' = 0 /\ probed' = "NONE" /\ learn' = "undecided"
      /\ ~s_gdo_protocol_identified' /\ s_gdo_protocol_identified' \in BOOLEAN
      /\ ~reprobed' /\ reprobed' \in BOOLEAN
  BY Fields, WrongIsCounted DEF Reset
<1>2. PICK readable \in SUBSET {"protocol", "code"} :
        gdo' = [Fresh EXCEPT
                 !.protocol = IF "protocol" \in readable THEN nvs.protocol ELSE @,
                 !.code = IF "code" \in readable /\ nvs.code > 0 THEN nvs.code ELSE @]
  BY DEF Reset
<1> DEFINE p == IF "protocol" \in readable THEN nvs.protocol ELSE "NONE"
           c == IF "code" \in readable /\ nvs.code > 0 THEN nvs.code ELSE 1
<1>3. gdo' = [protocol |-> p, code |-> c, synced |-> FALSE, syncing |-> TRUE]
  BY <1>2 DEF Fresh
<1>4. p \in Protocols \cup {"NONE"} /\ c \in Nat /\ c \in {nvs.code, 1}
  BY <1>1, Fields
<1> HIDE DEF p, c
<1>5. gdo' \in GdoStates /\ gdo'.code = c /\ ~gdo'.synced
  BY <1>3, <1>4 DEF GdoStates
<1>6. TypesOnly'
  <2>1. failing_for' \in 0..FaultTimeout + 1 /\ unsynced_for' \in 0..FaultTimeout + 1
    BY <1>1, ParameterAssumption
  <2> QED
    BY <1>1, <1>5, <2>1 DEF TypesOnly
<1>7. SyncedIsConfirmed' /\ HandlerSavesAhead' /\ JumpsFromWithin'
  BY <1>1, <1>5 DEF Codes, SyncedIsConfirmed, HandlerSavesAhead, JumpsFromWithin
<1>8. CodeIsNear'
  <2>1. MaxJump' = MaxJump
    BY DEF MaxJump
  <2>2. c <= opener.counter + 1
    BY <1>1, <1>4 DEF Codes, SyncedIsConfirmed
  <2>3. Room' \in Nat /\ MaxJump \in Nat /\ MaxJump >= 1
    BY <1>1, RoomGrows, MaxJumpIsPositive
  <2>4. c <= opener'.counter + Room' + MaxJump
    BY <1>1, <1>4, <2>2, <2>3
  <2> QED
    BY <1>5, <2>1, <2>4 DEF CodeIsNear
<1>9. Times' /\ Tile'
  BY <1>1, <1>5 DEF Times, StreakIsTimed, FaultIsEarned, Tile, EvidenceCounts, TileIsProven
<1> QED
  BY <1>6, <1>7, <1>8, <1>9, Parts DEF Codes

LEMMA TileKeeps == IInv /\ TileStep => IInv'
<1> SUFFICES ASSUME TypesOnly, Codes, Times, Tile, TileStep PROVE IInv'
  BY Parts
<1>1. /\ UNCHANGED <<opener, nvs, gdo, ramVars, handler, unsynced_for>>
      /\ trouble' \in {trouble, trouble + 1} /\ trouble' \in 0..MaxTrouble
  <2>1. CASE \E p \in Protocols : Probes(p)
    BY <2>1 DEF Probes, TypesOnly
  <2>2. CASE Identified
    BY <2>2, WrongIsCounted DEF Identified, Evidence, TypesOnly
  <2>3. CASE DecideTile
    BY <2>3 DEF DecideTile, TypesOnly
  <2> QED
    BY <2>1, <2>2, <2>3 DEF TileStep
<1>2. Codes'
  BY <1>1, CodesUntouched DEF Codes, SyncedIsConfirmed
<1>3. Times'
  BY <1>1 DEF Times, StreakIsTimed, FaultIsEarned, ramVars
<1>4. TypesOnly' /\ Tile'
  <2>1. ASSUME NEW p \in Protocols, Probes(p) PROVE TypesOnly' /\ Tile'
    <3>1. /\ probed' = p /\ UNCHANGED <<s_gdo_protocol_identified, learn>>
          /\ NotesChange /\ learn = "undecided"
      BY <2>1 DEF Probes
    <3>2. reprobed' \in BOOLEAN /\ (~reprobed' => ~reprobed)
          /\ (~reprobed' /\ s_gdo_protocol_identified => StatusProtocol' = StatusProtocol)
      BY <3>1 DEF NotesChange, TypesOnly
    <3>3. TypesOnly'
      BY <1>1, <3>1, <3>2 DEF TypesOnly, ramVars
    <3>4. Tile'
      BY <1>1, <3>1, <3>2 DEF Tile, EvidenceCounts, TileIsProven
    <3> QED
      BY <3>3, <3>4
  <2>2. CASE Identified
    <3>1. UNCHANGED <<probed, learn, reprobed>> /\ s_gdo_protocol_identified' \in BOOLEAN
          /\ (StatusProtocol = opener.protocol \/ StatusProtocol = "V1")
          /\ StatusProtocol' = StatusProtocol
      BY <1>1, <2>2 DEF Identified, Evidence, StatusProtocol
    <3>2. TypesOnly'
      BY <1>1, <3>1 DEF TypesOnly, ramVars
    <3>3. Tile'
      BY <1>1, <3>1 DEF Tile, EvidenceCounts, TileIsProven
    <3> QED
      BY <3>2, <3>3
  <2>3. CASE DecideTile
    <3>1. /\ UNCHANGED <<s_gdo_protocol_identified, reprobed>> /\ learn = "undecided"
          /\ probed' = "NONE" /\ learn' \in {"hidden", "shown"}
          /\ learn' = "shown" => s_gdo_protocol_identified /\ StatusProtocol = "V2"
      BY <2>3 DEF DecideTile, TileShown
    <3>2. TypesOnly'
      BY <1>1, <3>1 DEF TypesOnly, ramVars
    <3>3. Tile'
      BY <1>1, <3>1 DEF Tile, EvidenceCounts, TileIsProven
    <3> QED
      BY <3>2, <3>3
  <2> QED
    BY <2>1, <2>2, <2>3 DEF TileStep
<1> QED
  BY <1>1, <1>2, <1>3, <1>4, Parts

-----------------------------------------------------------------------------
LEMMA StepKeeps == IInv /\ [Next]_vars => IInv'
<1> SUFFICES ASSUME IInv, [Next]_vars PROVE IInv'
  OBVIOUS
<1>1. CASE SyncStep
  BY <1>1, SyncKeeps
<1>2. CASE HandlerStep
  BY <1>2, FailedKeeps, SucceededKeeps, SaveProtocolKeeps, SaveRollingStateKeeps
     DEF HandlerStep
<1>3. CASE RequestSync \/ LoseLink
  BY <1>3, LinkKeeps
<1>4. CASE CommandSent \/ OpenerUsed
  BY <1>4, CommandKeeps
<1>5. CASE Tick
  BY <1>5, TickKeeps
<1>6. CASE TileStep
  BY <1>6, TileKeeps
<1>7. CASE Reset
  BY <1>7, ResetKeeps
<1>8. CASE UNCHANGED vars
  BY <1>8 DEF vars, ramVars, tileVars, IInv, TypeOK, SyncedIsConfirmed, HandlerSavesAhead,
     JumpsFromWithin, StreakIsTimed, FaultIsEarned, EvidenceCounts, TileIsProven,
     StatusProtocol, MaxJump
<1> QED
  BY <1>1, <1>2, <1>3, <1>4, <1>5, <1>6, <1>7, <1>8 DEF Next

(***************************************************************************)
(* In every reachable state, through noise, lost links, failing writes and *)
(* resets, the codes, the fault and the tile are as IInv says.             *)
(***************************************************************************)
THEOREM Invariance == Spec => []IInv
BY InitIInv, StepKeeps, PTL DEF Spec

(***************************************************************************)
(* Every variable keeps its type, and the jumps of the SYNCED callback     *)
(* stay within one capped jump of what went wrong.                         *)
(***************************************************************************)
THEOREM TypeCorrect == Spec => []TypeOK
BY Invariance, PTL DEF IInv

\* s_gdo_pairing_fault is only set after failing for GDO_PAIRING_FAULT_TIMEOUT_MS.
THEOREM FaultsAreEarned == Spec => []FaultIsEarned
BY Invariance, PTL DEF IInv

\* homekit_task_entry() shows a Learn tile for an opener that can be taught only.
THEOREM TilesAreProven == Spec => []TileIsProven
BY Invariance, PTL DEF IInv

\* Steps that are not a save leave flash alone.
LEMMA OnlySavesWrite ==
  [Next]_vars => UNCHANGED nvs \/ SaveProtocol \/ SaveRollingState
BY DEF Next, SyncStep, HandlerStep, TileStep, SyncAnswered, SyncUnanswered, SyncDisturbed,
   SyncEnds, SyncFailed, SyncSucceeded, RequestSync, Tick, Probes, Identified, DecideTile,
   CommandSent, OpenerUsed, LoseLink, Reset, vars

(***************************************************************************)
(* gdo_save_synced_protocol(): V2, once confirmed, is never replaced,      *)
(* unless the read that protects it fails.                                 *)
(***************************************************************************)
THEOREM ConfirmedStays == Spec => ConfirmedV2Stays
<1>1. ASSUME IInv, [Next]_vars
      PROVE  nvs.protocol = "V2" /\ UNCHANGED trouble => nvs'.protocol = "V2"
  BY <1>1, OnlySavesWrite, SaveProtocolWrites, SaveRollingStateWrites, Parts
<1> QED
  BY <1>1, Invariance, PTL DEF Spec, ConfirmedV2Stays

(***************************************************************************)
(* gdo_save_rolling_state(): the code the next boot is seeded with never   *)
(* goes back, although a boot may have started from the default.           *)
(***************************************************************************)
THEOREM SavedCodeAdvances == Spec => SavedCodeNeverGoesBack
<1>1. ASSUME IInv, [Next]_vars
      PROVE  nvs'.code >= nvs.code
  <2>1. TypesOnly /\ Codes /\ nvs.code \in Nat
    BY <1>1, Parts, Fields
  <2> QED
    BY <1>1, <2>1, OnlySavesWrite, SaveProtocolWrites, SaveRollingStateWrites
<1> QED
  BY <1>1, Invariance, PTL DEF Spec, SavedCodeNeverGoesBack
=============================================================================
