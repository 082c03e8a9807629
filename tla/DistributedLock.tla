--------------------------- MODULE DistributedLock ---------------------------
(***************************************************************************)
(* The lock in Redis under which the asset cache is refreshed.             *)
(*                                                                         *)
(* The key is set with NX and a time to live and holds "1": nothing in it  *)
(* says whose it is, and a release deletes whatever key is there.  A task  *)
(* that cannot reach Redis goes ahead without the key.  key below names    *)
(* the task that set it; the program does not know that.                   *)
(***************************************************************************)
EXTENDS FiniteSets

CONSTANTS
  Tasks,    \* the refresh loops of the pods and the forced refreshes
  Nobody    \* the key is not there

ASSUME LockAssumption == Nobody \notin Tasks

VARIABLES
  key,         \* Redis: the task that set the key
  refreshing,  \* tasks inside "async with DistributedLock(...)"
  excused      \* a task went ahead without Redis, or outlived its key

lock == <<key, refreshing, excused>>

LockInit == key = Nobody /\ refreshing = {} /\ excused = FALSE

\* Slip: SET without NX.
AcquireOverwriting(t) ==
  /\ t \notin refreshing
  /\ key' = t /\ refreshing' = refreshing \cup {t}
  /\ UNCHANGED excused

(* SET NX EX succeeds. *)
Acquire(t) ==
  /\ t \notin refreshing /\ key = Nobody
  /\ key' = t /\ refreshing' = refreshing \cup {t}
  /\ UNCHANGED excused

(* No Redis, or an error of the SET: better than to block.  The error may be
   that of an answer lost after the key was set. *)
AcquireWithoutRedis(t) ==
  /\ t \notin refreshing
  /\ key' \in (IF key = Nobody THEN {Nobody, t} ELSE {key})
  /\ refreshing' = refreshing \cup {t}
  /\ excused' = TRUE

\* Once nobody refreshes, the accidents are over: what remains is at most a key.
StillExcused(working) == excused /\ working # {}

(* DELETE by name, whoever set the key; an error of it is only logged. *)
Release(t) ==
  /\ t \in refreshing
  /\ key' \in {Nobody, key}
  /\ refreshing' = refreshing \ {t}
  /\ excused' = StillExcused(refreshing \ {t})

\* Slip: the key is set without a time to live, so it goes only with a release.
ExpireNever == FALSE /\ UNCHANGED lock

(* The time to live ends, whether or not the task that set the key goes on. *)
Expire ==
  /\ key # Nobody
  /\ key' = Nobody
  /\ excused' = (excused \/ key \in refreshing)
  /\ UNCHANGED refreshing

(* The pod of these tasks is gone; its key stays. *)
Die(dead) ==
  /\ refreshing' = refreshing \ dead
  /\ excused' = StillExcused(refreshing \ dead)
  /\ UNCHANGED key

LockNext ==
  \/ \E t \in Tasks : Acquire(t) \/ AcquireWithoutRedis(t) \/ Release(t)
  \/ Expire
  \/ \E dead \in SUBSET Tasks : Die(dead)

LockSpec == LockInit /\ [][LockNext]_lock

LockTypeOK ==
  /\ key \in Tasks \cup {Nobody} /\ refreshing \subseteq Tasks
  /\ excused \in BOOLEAN

(* Two tasks refresh at once only when Redis was away or one of them outlived
   the time to live: "only one refreshes" (services/asset_sync.py:54, the SET of
   services/redis_client.py:119-126).  A lock taken over after a time to live is
   deleted by its former holder, so the excuse lasts until nobody refreshes. *)
OneRefresher ==
  \A t, u \in refreshing : t # u => excused
=============================================================================
