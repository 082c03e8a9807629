----------------------------- MODULE Credentials -----------------------------
(***************************************************************************)
(* The Vault token of a pod, the database password Vault rotates, the      *)
(* engine built with it and the sessions that are opened on the engine.    *)
(*                                                                         *)
(* A tick of the clock is the interval of the two checking loops (300 s).  *)
(* Passwords are numbered by age: 0 is the one the database accepts, and   *)
(* every rotation makes all others a rotation older.  Calls of Vault block *)
(* the event loop, so they are atomic here; only the disposal of the old   *)
(* engine inside initialize is awaited.                                    *)
(***************************************************************************)
EXTENDS Integers, FiniteSets

CONSTANTS
  Sessions,    \* each is opened at most once
  Locals,      \* those opened by get_db_local
  Loop,        \* the loop that checks the credentials
  Lease,       \* ticks a token lives after a login or a full renewal
  Soon,        \* ticks before its end at which a token is renewed
  Period,      \* ticks between two rotations of the password
  Near,        \* ticks before a rotation at which credentials are fetched again
  MaxTries,    \* get_db: attempts before a session is refused
  Oldest,      \* bound: older passwords are not told apart
  MaxMishaps,  \* bound: outages and revocations
  None

ASSUME CredentialsAssumption ==
  /\ Locals \subseteq Sessions /\ Loop \notin Sessions
  /\ {Lease, Soon, Period, Near, MaxTries, Oldest, MaxMishaps} \subseteq Nat
  /\ Lease >= 2 /\ Soon >= 2 /\ Period >= 1 /\ Oldest >= 1 /\ MaxTries >= 1
  /\ None \notin Nat

Procs == Sessions \cup {Loop}

VARIABLES
  vault,     \* "up" or "down"
  mishaps,
  rotateIn,  \* ticks until Vault rotates the password
  token,     \* the token of the client: left, valid, renewable, capped
  lapse,     \* the token was revoked, or could not be renewed when it was due
  due,       \* loops that have not checked in this tick
  creds,     \* age of the cached credentials, or None
  sameToken, \* they were read with the present token
  url,       \* age of the password the engine is built with
  pending,   \* age of the password of an initialize that awaits the disposal
  at,        \* where each session is
  tries,
  shaken     \* sessions met by more than a rotation while they were opened

clock == <<vault, mishaps, rotateIn, due>>
secrets == <<token, lapse, creds, sameToken>>
engine == <<url, pending>>
sessions == <<at, tries, shaken>>
vars == <<clock, secrets, engine, sessions>>

Init ==
  /\ vault = "up" /\ mishaps = 0 /\ rotateIn = Period /\ due = {"token", "database"}
  /\ \E r \in BOOLEAN :
       token = [left |-> Lease, valid |-> TRUE, renewable |-> r, capped |-> FALSE]
  /\ lapse = FALSE /\ creds = 0 /\ sameToken = TRUE
  /\ url = 0 /\ pending = [p \in Procs |-> None]
  /\ at = [s \in Sessions |-> "idle"] /\ tries = [s \in Sessions |-> 0] /\ shaken = {}

Opening == {s \in Sessions : at[s] \in {"try", "fetched", "pause"}}

-----------------------------------------------------------------------------
(* Vault, the database and the clock *)

Older(age) == IF age = None \/ age = Oldest THEN age ELSE age + 1

(* The static role gets a new password; the one before is refused at once. *)
Rotate ==
  /\ rotateIn = 0
  /\ rotateIn' = Period
  /\ creds' = Older(creds) /\ url' = Older(url)
  /\ pending' = [p \in Procs |-> Older(pending[p])]
  /\ UNCHANGED <<vault, mishaps, due, token, lapse, sameToken, sessions>>

Expire ==
  /\ token.valid /\ token.left = 0
  /\ token' = [token EXCEPT !.valid = FALSE]
  /\ UNCHANGED <<clock, lapse, creds, sameToken, engine, sessions>>

Revoke ==
  /\ mishaps < MaxMishaps /\ token.valid
  /\ mishaps' = mishaps + 1
  /\ token' = [token EXCEPT !.valid = FALSE] /\ lapse' = TRUE
  /\ UNCHANGED <<vault, rotateIn, due, creds, sameToken, engine, sessions>>

Outage ==
  /\ mishaps < MaxMishaps /\ vault = "up"
  /\ mishaps' = mishaps + 1 /\ vault' = "down"
  /\ UNCHANGED <<rotateIn, due, secrets, engine, sessions>>

Return ==
  /\ vault = "down" /\ vault' = "up"
  /\ UNCHANGED <<mishaps, rotateIn, due, secrets, engine, sessions>>

(* Opening a session and replacing an engine take less than a tick; both loops
   check once in each. *)
Tick ==
  /\ due = {} /\ rotateIn > 0 /\ (token.valid => token.left > 0)
  /\ Opening = {} /\ \A p \in Procs : pending[p] = None
  /\ rotateIn' = rotateIn - 1
  /\ token' = [token EXCEPT !.left = IF @ = 0 THEN 0 ELSE @ - 1]
  /\ due' = {"token", "database"}
  /\ UNCHANGED <<vault, mishaps, lapse, creds, sameToken, engine, sessions>>

-----------------------------------------------------------------------------
(* VaultClient *)

LoggedIn ==
  [left |-> Lease, valid |-> TRUE, renewable |-> token.renewable, capped |-> FALSE]

Login ==
  /\ token' = LoggedIn
  /\ lapse' = FALSE

\* Slip: a token in its last tick only.
ExpiringLate == token.left < 1

ExpiringSoon == token.left < Soon

(* Vault extends the lease, or up to the maximum age of the token no further: the
   loop takes both for a renewal. *)
Renew ==
  /\ token.renewable /\ vault = "up" /\ token.valid
  /\ \/ /\ ~token.capped
        /\ token' = [token EXCEPT !.left = Lease] /\ lapse' = FALSE
     \/ token' = [token EXCEPT !.capped = TRUE] /\ UNCHANGED lapse
  /\ UNCHANGED sameToken

(* A new login, which fails with Vault away: logged, the loop goes on. *)
Reauthenticate ==
  /\ ~token.renewable \/ vault = "down" \/ ~token.valid
  /\ IF vault = "up"
     THEN Login /\ sameToken' = FALSE
     ELSE lapse' = TRUE /\ UNCHANGED <<token, sameToken>>

CheckToken ==
  /\ "token" \in due
  /\ due' = due \ {"token"}
  /\ IF ExpiringSoon THEN Renew \/ Reauthenticate ELSE UNCHANGED <<token, lapse, sameToken>>
  /\ UNCHANGED <<vault, mishaps, rotateIn, creds, engine, sessions>>

-----------------------------------------------------------------------------
(* VaultDatabaseService *)

\* Slip: credentials that are in the cache are taken from there.
FetchedFromCache ==
  /\ vault = "up"
  /\ creds' = (IF creds = None THEN 0 ELSE creds) /\ sameToken' = TRUE
  /\ IF token.valid THEN UNCHANGED <<token, lapse>> ELSE Login
  /\ UNCHANGED <<vault, mishaps>>

(* A token that Vault refuses is replaced, and the credentials are read again. *)
Fetched ==
  /\ vault = "up"
  /\ creds' = 0 /\ sameToken' = TRUE
  /\ IF token.valid THEN UNCHANGED <<token, lapse>> ELSE Login
  /\ UNCHANGED <<vault, mishaps>>

(* No answer; credentials read with a token that was replaced since are forgotten.
   Or an answer to the login and none to the reading after it. *)
FetchFails ==
  \/ /\ vault = "down"
     /\ creds' = (IF sameToken THEN creds ELSE None)
     /\ UNCHANGED <<vault, mishaps, token, lapse, sameToken>>
  \/ /\ vault = "up" /\ ~token.valid /\ mishaps < MaxMishaps
     /\ mishaps' = mishaps + 1 /\ vault' = "down"
     /\ Login /\ creds' = None
     /\ UNCHANGED sameToken

\* Slip: a rotation that is past does not count.
ShouldRefreshBefore == creds = None \/ (creds = 0 /\ rotateIn < Near)

(* The end of the period that began with the known rotation is near, or past. *)
ShouldRefresh == creds = None \/ creds > 0 \/ rotateIn < Near

-----------------------------------------------------------------------------
(* DatabaseManager *)

(* initialize with the credentials just fetched, up to the await: nothing to do
   for the same URL. *)
Initialize(p) ==
  /\ pending' = [pending EXCEPT ![p] = IF creds' = url THEN None ELSE creds']
  /\ UNCHANGED url

(* The old engine is disposed of: the new one takes its place, whatever another
   session has put there meanwhile. *)
Reinitialize(p) ==
  /\ pending[p] # None
  /\ url' = pending[p] /\ pending' = [pending EXCEPT ![p] = None]
  /\ shaken' = (IF pending[p] > 0 THEN shaken \cup (Opening \ {p}) ELSE shaken)
  /\ UNCHANGED <<clock, secrets, tries>>

LoopReinitializes == Reinitialize(Loop) /\ UNCHANGED at

CheckCredentials ==
  /\ "database" \in due /\ pending[Loop] = None
  /\ due' = due \ {"database"}
  /\ IF ShouldRefresh
     THEN \/ Fetched /\ Initialize(Loop)
          \/ FetchFails /\ UNCHANGED engine
     ELSE UNCHANGED <<vault, mishaps, secrets, engine>>
  /\ UNCHANGED <<rotateIn, sessions>>

Moves(s, from, to) == at[s] = from /\ at' = [at EXCEPT ![s] = to]

Open(s) ==
  /\ Moves(s, "idle", "try")
  /\ UNCHANGED <<clock, secrets, engine, tries, shaken>>

(* SELECT 1 is answered, on a new connection or on one of the pool that was made
   before the password changed: the database asks for it once. *)
Answered(s) ==
  /\ Moves(s, "try", "open")
  /\ tries' = [tries EXCEPT ![s] = 0] /\ shaken' = shaken \ {s}
  /\ UNCHANGED <<clock, secrets, engine>>

LastTry(s) == tries[s] + 1 = MaxTries

(* The database refuses the password: but for the last attempt the credentials are
   fetched and the engine replaced; if Vault fails, the next attempt goes as it is. *)
Denied(s) ==
  /\ url # 0 /\ at[s] = "try"
  /\ tries' = [tries EXCEPT ![s] = @ + 1]
  /\ \/ /\ LastTry(s)
        /\ Moves(s, "try", "refused")
        /\ UNCHANGED <<vault, mishaps, secrets, engine, shaken>>
     \/ /\ ~LastTry(s)
        /\ Fetched /\ Initialize(s)
        /\ Moves(s, "try", IF pending'[s] = None THEN "pause" ELSE "fetched")
        /\ UNCHANGED shaken
     \/ /\ ~LastTry(s)
        /\ FetchFails
        /\ Moves(s, "try", "pause")
        /\ shaken' = shaken \cup {s}
        /\ UNCHANGED engine
  /\ UNCHANGED <<rotateIn, due>>

(* An attempt fails for another reason than the password. *)
Broken(s) ==
  /\ mishaps < MaxMishaps /\ mishaps' = mishaps + 1
  /\ tries' = [tries EXCEPT ![s] = @ + 1]
  /\ Moves(s, "try", IF LastTry(s) THEN "refused" ELSE "pause")
  /\ shaken' = shaken \cup {s}
  /\ UNCHANGED <<vault, rotateIn, due, secrets, engine>>

SessionReinitializes(s) ==
  /\ Reinitialize(s)
  /\ Moves(s, "fetched", "pause") \/ Moves(s, "failed", "closed")

(* The backoff is over. *)
TryAgain(s) ==
  /\ Moves(s, "pause", "try")
  /\ UNCHANGED <<clock, secrets, engine, tries, shaken>>

Close(s) ==
  /\ Moves(s, "open", "closed")
  /\ UNCHANGED <<clock, secrets, engine, tries, shaken>>

(* A statement in the body of get_db_local fails for lack of rights: rolled back,
   and the engine is replaced for the next session. *)
FailsInside(s) ==
  /\ s \in Locals /\ at[s] = "open"
  /\ \/ /\ Fetched /\ Initialize(s)
        /\ Moves(s, "open", IF pending'[s] = None THEN "closed" ELSE "failed")
     \/ /\ FetchFails
        /\ Moves(s, "open", "closed")
        /\ UNCHANGED engine
  /\ UNCHANGED <<rotateIn, due, tries, shaken>>

-----------------------------------------------------------------------------
OpeningStep(s) == Answered(s) \/ Denied(s) \/ SessionReinitializes(s) \/ TryAgain(s)

Next ==
  \/ Tick \/ Rotate \/ Expire \/ Revoke \/ Outage \/ Return
  \/ CheckToken \/ CheckCredentials \/ LoopReinitializes
  \/ \E s \in Sessions :
       Open(s) \/ OpeningStep(s) \/ Broken(s) \/ Close(s) \/ FailsInside(s)

(* Time passes, Vault comes back, the loops run and a session that is being opened
   goes on; nobody has to open or close one. *)
Fairness ==
  /\ WF_vars(Tick) /\ WF_vars(Rotate) /\ WF_vars(Expire) /\ WF_vars(Return)
  /\ WF_vars(CheckToken) /\ WF_vars(CheckCredentials) /\ WF_vars(LoopReinitializes)
  /\ \A s \in Sessions : WF_vars(OpeningStep(s))

Spec == Init /\ [][Next]_vars
FairSpec == Spec /\ Fairness
=============================================================================
