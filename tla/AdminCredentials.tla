-------------------------- MODULE AdminCredentials --------------------------
(***************************************************************************)
(* The admin password of the diagnostics page (main/diag_webserver.cpp):   *)
(* what NVS holds, what a boot reads of it, and the handlers that set and  *)
(* change it.  Handlers run one after the other in the httpd task, so only *)
(* a failing write or a reset can come between a handler's steps.          *)
(***************************************************************************)
EXTENDS Naturals, FiniteSets

CONSTANTS
  Passwords,       \* what owners choose, the one of an older release included
  LegacyPassword,  \* the one stored by an older release
  NoPassword,
  Torn,            \* salt, hash and count that do not belong together
  MaxWrites        \* bound on the requests to store a password

ASSUME CredentialsAssumption ==
  /\ LegacyPassword \in Passwords /\ NoPassword \notin Passwords
  /\ Torn \notin Passwords \cup {NoPassword} /\ MaxWrites \in Nat

VARIABLES
  blob,            \* gdo_admin/"credentials"
  legacy,          \* pw_salt, pw_hash, pw_iter: "none", "partial" or "whole"
  password,        \* s_admin_pw_*, NoPassword while s_admin_password_set is false
  stored,          \* the handler has stored this one and not yet published it
  acked,           \* history: the last one the owner was told is set
  asked,           \* history: those asked for since
  writes           \* requests to store a password so far

credentialVars == <<blob, legacy, password, stored, acked, asked, writes>>

InitCredentials ==
  /\ blob = NoPassword /\ legacy \in {"none", "partial", "whole"}
  /\ password = NoPassword /\ stored = NoPassword
  /\ acked = IF legacy = "none" THEN NoPassword ELSE LegacyPassword
  /\ asked = {} /\ writes = 0

(***************************************************************************)
(* init_admin_credentials(): what a boot may go on with.  Nothing at all   *)
(* when a read fails or only part of the older keys is there: the caller   *)
(* tries again in five seconds and no server runs before it succeeds.      *)
(***************************************************************************)
LoadedPassword_Reopens(readable) ==           \* MUTANT: not readable is not set
  IF blob # NoPassword /\ readable THEN {blob}
  ELSE IF legacy = "whole" /\ readable THEN {LegacyPassword}
  ELSE {NoPassword}
LoadedPassword(readable) ==
  IF ~readable \/ (blob = NoPassword /\ legacy = "partial") THEN {}
  ELSE IF blob # NoPassword THEN {blob}
  ELSE IF legacy = "whole" THEN {LegacyPassword}
  ELSE {NoPassword}

LoadCredentials ==
  /\ \E readable \in BOOLEAN : password' \in LoadedPassword(readable)
  /\ UNCHANGED <<blob, legacy, stored, acked, asked, writes>>

\* One blob holds salt, hash and count: a write that fails leaves it old or new.
FailedWrite_KeyByKey(new) == {blob, new, Torn} \* MUTANT: one key after the other
FailedWrite(new) == {blob, new}

StorePassword_Anyway(new, changing) ==        \* MUTANT: ignores what the write returns
  /\ writes < MaxWrites
  /\ changing <=> password # NoPassword
  /\ writes' = writes + 1
  /\ asked' = asked \cup {new}
  /\ blob' \in FailedWrite(new) /\ stored' = new
  /\ UNCHANGED <<legacy, password, acked>>

(***************************************************************************)
(* admin_write_password(): enrols only while no password is set, changes   *)
(* only for who knows the current one.  500 is sent when the write fails.  *)
(***************************************************************************)
StorePassword(new, changing) ==
  /\ writes < MaxWrites
  /\ changing <=> password # NoPassword
  /\ writes' = writes + 1
  /\ asked' = asked \cup {new}
  /\ \/ blob' = new /\ stored' = new
     \/ blob' \in FailedWrite(new) /\ stored' = stored
  /\ UNCHANGED <<legacy, password, acked>>

\* The rest of it: RAM follows flash; the answer may be lost on its way.
PublishPassword ==
  /\ stored # NoPassword
  /\ password' = stored /\ stored' = NoPassword
  /\ \/ acked' = stored /\ asked' = {}
     \/ UNCHANGED <<acked, asked>>
  /\ UNCHANGED <<blob, legacy, writes>>

ForgetCredentials ==
  /\ password' = NoPassword /\ stored' = NoPassword
  /\ UNCHANGED <<blob, legacy, acked, asked, writes>>

-----------------------------------------------------------------------------
CredentialsTypeOK ==
  /\ blob \in Passwords \cup {NoPassword}
  /\ legacy \in {"none", "partial", "whole"}
  /\ password \in Passwords \cup {NoPassword}
  /\ stored \in Passwords \cup {NoPassword}
  /\ acked \in Passwords \cup {NoPassword} /\ asked \subseteq Passwords
  /\ writes \in 0..MaxWrites

(***************************************************************************)
(* The owner is never locked out: the password accepted now, and the one   *)
(* that a boot at this very moment would accept, is the last one reported  *)
(* as set or one asked for since, whatever write failed and whenever the   *)
(* device was reset.                                                       *)
(***************************************************************************)
AcceptedIsKnown ==
  ({password} \cup LoadedPassword(TRUE)) \ {NoPassword} \subseteq {acked} \cup asked
=============================================================================
