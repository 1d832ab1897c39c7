------------------------------ MODULE TurnLock ------------------------------
(***************************************************************************)
(* The per-session turn lock of app/security/session_lock.py: one Redis    *)
(* key written with SET NX PX, deleted by a script that first compares the *)
(* caller's token, and dropped by Redis when its time to live runs out.    *)
(* The token is the request that acquired the key: a request acquires at   *)
(* most once, as each acquisition draws a fresh uuid.                      *)
(***************************************************************************)
EXTENDS Naturals

CONSTANTS
  Requests,   \* the HTTP requests that may be in flight at once
  NoToken     \* the key is absent

ASSUME NoTokenAssumption == NoToken \notin Requests

VARIABLES
  lock,       \* the value stored under session-turn-lock:<session id>
  lapsed      \* requests whose key Redis expired after they acquired it

lockVars == << lock, lapsed >>

LockTypeOK ==
  /\ lock \in Requests \cup {NoToken}
  /\ lapsed \subseteq Requests

LockInit ==
  /\ lock = NoToken
  /\ lapsed = {}

(* Mutant of Acquire: SET without NX. *)
AcquireHeld(r) ==
  /\ lock' = r
  /\ UNCHANGED lapsed

(* SET key token NX PX ttl *)
Acquire(r) ==
  /\ lock = NoToken
  /\ lock' = r
  /\ UNCHANGED lapsed

(* Mutant of Release: DEL without the comparison. *)
ReleaseUnchecked(r) ==
  /\ lock' = NoToken
  /\ lapsed' = lapsed \ {r}

(* The compare-and-delete script: a request whose key has expired, or has  *)
(* been taken by another request since, deletes nothing.                   *)
Release(r) ==
  /\ lock' = IF lock = r THEN NoToken ELSE lock
  /\ lapsed' = lapsed \ {r}

(* Mutant of Expire: SET without PX. *)
ExpireNever == FALSE /\ UNCHANGED lockVars

(* The time to live of the stored key runs out. *)
Expire ==
  /\ lock # NoToken
  /\ lock' = NoToken
  /\ lapsed' = lapsed \cup {lock}

=============================================================================
