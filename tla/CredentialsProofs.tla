-------------------------- MODULE CredentialsProofs --------------------------
(* The token of Vault is kept, and no session is refused for a rotation, for every
   lease, threshold and period and any number of sessions. *)
EXTENDS CredentialsProperties, TLAPS

Excused == token.capped \/ lapse

TokenTypeOK ==
  /\ token \in [left : Nat, valid : BOOLEAN, renewable : BOOLEAN, capped : BOOLEAN]
  /\ lapse \in BOOLEAN
  /\ due \subseteq {"token", "database"}

(* Once checked in a tick, the token lasts through the next one, in which it is
   checked again: the threshold is at least two intervals of the loop. *)
CheckedLasts == "token" \notin due => token.left >= 2 \/ Excused

NotInItsLastTick == token.left >= 1 \/ Excused

(* TokenKept says nothing of how long a token lasts; an expiry must be excluded
   two ticks ahead. *)
IInv == TokenTypeOK /\ CheckedLasts /\ NotInItsLastTick /\ TokenKept

LEMMA InitHolds == Init => IInv
<1> SUFFICES ASSUME Init PROVE IInv
  OBVIOUS
<1>1. Lease \in Nat /\ Lease >= 2
  BY CredentialsAssumption DEF CredentialsAssumption
<1>2. PICK r \in BOOLEAN :
        token = [left |-> Lease, valid |-> TRUE, renewable |-> r, capped |-> FALSE]
  BY DEF Init
<1>3. token.left = Lease /\ token.valid = TRUE
  BY <1>2
<1>4. TokenTypeOK
  <2>1. lapse \in BOOLEAN /\ due \subseteq {"token", "database"}
    BY DEF Init
  <2> QED
    BY <1>1, <1>2, <2>1 DEF TokenTypeOK
<1> QED
  BY <1>1, <1>3, <1>4 DEF IInv, CheckedLasts, NotInItsLastTick, TokenKept

(* After a login everything is as in the beginning, whoever logged in. *)
LEMMA LoginKeeps ==
  ASSUME IInv, Login, due' \subseteq due PROVE IInv'
<1>1. Lease \in Nat /\ Lease >= 2
  BY CredentialsAssumption DEF CredentialsAssumption
<1>2. token'.left = Lease /\ token'.valid /\ token' \in
        [left : Nat, valid : BOOLEAN, renewable : BOOLEAN, capped : BOOLEAN]
  BY <1>1 DEF Login, LoggedIn, IInv, TokenTypeOK
<1>3. TokenTypeOK'
  BY <1>2 DEF Login, IInv, TokenTypeOK
<1> QED
  BY <1>1, <1>2, <1>3 DEF IInv, CheckedLasts, NotInItsLastTick, TokenKept

LEMMA UntouchedKeeps ==
  ASSUME IInv, UNCHANGED <<token, lapse, due>> PROVE IInv'
BY DEF IInv, TokenTypeOK, CheckedLasts, NotInItsLastTick, TokenKept, Excused

LEMMA FetchedKeeps ==
  ASSUME IInv, Fetched, due' = due PROVE IInv'
BY LoginKeeps, UntouchedKeeps DEF Fetched

LEMMA FetchFailsKeeps ==
  ASSUME IInv, FetchFails, due' = due PROVE IInv'
BY LoginKeeps, UntouchedKeeps DEF FetchFails

LEMMA TickKeeps ==
  ASSUME IInv, Tick PROVE IInv'
<1>1. token.left >= 2 \/ Excused
  BY DEF IInv, CheckedLasts, Tick
<1>2. token.left \in Nat
  BY DEF IInv, TokenTypeOK
<1>3. /\ token'.left = IF token.left = 0 THEN 0 ELSE token.left - 1
      /\ token'.valid = token.valid /\ token'.capped = token.capped
      /\ token' \in [left : Nat, valid : BOOLEAN, renewable : BOOLEAN, capped : BOOLEAN]
  BY <1>2 DEF Tick, IInv, TokenTypeOK
<1>4. TokenTypeOK'
  BY <1>3 DEF Tick, IInv, TokenTypeOK
<1>5. CheckedLasts'
  BY DEF Tick, CheckedLasts
<1>6. NotInItsLastTick'
  BY <1>1, <1>2, <1>3 DEF Tick, NotInItsLastTick, Excused
<1>7. TokenKept'
  BY <1>3 DEF Tick, IInv, TokenKept
<1> QED
  BY <1>4, <1>5, <1>6, <1>7 DEF IInv

LEMMA ExpireKeeps ==
  ASSUME IInv, Expire PROVE IInv'
<1>1. Excused
  BY DEF Expire, IInv, NotInItsLastTick
<1>2. /\ token'.capped = token.capped /\ token'.left = token.left
      /\ token' \in [left : Nat, valid : BOOLEAN, renewable : BOOLEAN, capped : BOOLEAN]
      /\ lapse' = lapse /\ due' = due
  BY DEF Expire, clock, IInv, TokenTypeOK
<1> QED
  BY <1>1, <1>2
  DEF IInv, TokenTypeOK, CheckedLasts, NotInItsLastTick, TokenKept, Excused

LEMMA RevokeKeeps ==
  ASSUME IInv, Revoke PROVE IInv'
<1>1. token' \in [left : Nat, valid : BOOLEAN, renewable : BOOLEAN, capped : BOOLEAN]
  BY DEF Revoke, IInv, TokenTypeOK
<1> QED
  BY <1>1
  DEF Revoke, IInv, TokenTypeOK, CheckedLasts, NotInItsLastTick, TokenKept, Excused

LEMMA RenewKeeps ==
  ASSUME IInv, Renew, due' \subseteq due PROVE IInv'
<1>1. Lease \in Nat /\ Lease >= 2
  BY CredentialsAssumption DEF CredentialsAssumption
<1>2. token' \in [left : Nat, valid : BOOLEAN, renewable : BOOLEAN, capped : BOOLEAN]
  BY <1>1 DEF Renew, IInv, TokenTypeOK
<1>3. CASE token' = [token EXCEPT !.left = Lease] /\ lapse' = FALSE
  <2>1. token'.left = Lease /\ token'.valid
    BY <1>3 DEF Renew, IInv, TokenTypeOK
  <2>2. TokenTypeOK'
    BY <1>2, <1>3 DEF IInv, TokenTypeOK
  <2> QED
    BY <1>1, <2>1, <2>2 DEF IInv, CheckedLasts, NotInItsLastTick, TokenKept
<1>4. CASE token' = [token EXCEPT !.capped = TRUE] /\ UNCHANGED lapse
  <2>1. token'.capped
    BY <1>4 DEF IInv, TokenTypeOK
  <2> QED
    BY <1>2, <1>4, <2>1
    DEF IInv, TokenTypeOK, CheckedLasts, NotInItsLastTick, TokenKept, Excused
<1> QED
  BY <1>3, <1>4 DEF Renew

LEMMA ReauthenticateKeeps ==
  ASSUME IInv, Reauthenticate, due' \subseteq due PROVE IInv'
<1>1. CASE vault = "up"
  BY <1>1, LoginKeeps DEF Reauthenticate
<1>2. CASE vault # "up"
  BY <1>2 DEF Reauthenticate,
    IInv, TokenTypeOK, CheckedLasts, NotInItsLastTick, TokenKept, Excused
<1> QED
  BY <1>1, <1>2

LEMMA CheckTokenKeeps ==
  ASSUME IInv, CheckToken PROVE IInv'
<1>1. due' \subseteq due
  BY DEF CheckToken
<1>2. CASE ExpiringSoon
  BY <1>1, <1>2, RenewKeeps, ReauthenticateKeeps DEF CheckToken
<1>3. CASE ~ExpiringSoon
  <2>1. Soon \in Nat /\ Soon >= 2
    BY CredentialsAssumption DEF CredentialsAssumption
  <2>2. token.left \in Nat /\ token.left >= 2
    BY <1>3, <2>1 DEF ExpiringSoon, IInv, TokenTypeOK
  <2> QED
    BY <1>1, <1>3, <2>2 DEF CheckToken,
      IInv, TokenTypeOK, CheckedLasts, NotInItsLastTick, TokenKept, Excused
<1> QED
  BY <1>2, <1>3

(* The turn of the credentials loop removes only its own name from due. *)
LEMMA CheckCredentialsKeeps ==
  ASSUME IInv, CheckCredentials PROVE IInv'
<1>1. due' \subseteq due /\ ("token" \in due' <=> "token" \in due)
  BY DEF CheckCredentials
<1>2. CASE UNCHANGED <<token, lapse>>
  BY <1>1, <1>2 DEF IInv, TokenTypeOK, CheckedLasts, NotInItsLastTick, TokenKept, Excused
<1>3. CASE Login
  BY <1>1, <1>3, LoginKeeps
<1> QED
  BY <1>2, <1>3 DEF CheckCredentials, Fetched, FetchFails, secrets

LEMMA SessionKeeps ==
  ASSUME IInv, NEW s \in Sessions,
         Open(s) \/ OpeningStep(s) \/ Broken(s) \/ Close(s) \/ FailsInside(s)
  PROVE  IInv'
<1>1. CASE Open(s)
  BY <1>1, UntouchedKeeps DEF Open, clock, secrets
<1>2. CASE Answered(s)
  BY <1>2, UntouchedKeeps DEF Answered, clock, secrets
<1>3. CASE Denied(s)
  <2>1. due' = due
    BY <1>3 DEF Denied
  <2> QED
    BY <1>3, <2>1, UntouchedKeeps, FetchedKeeps, FetchFailsKeeps DEF Denied, secrets
<1>4. CASE SessionReinitializes(s)
  BY <1>4, UntouchedKeeps DEF SessionReinitializes, Reinitialize, clock, secrets
<1>5. CASE TryAgain(s)
  BY <1>5, UntouchedKeeps DEF TryAgain, clock, secrets
<1>6. CASE Broken(s)
  BY <1>6, UntouchedKeeps DEF Broken, secrets
<1>7. CASE Close(s)
  BY <1>7, UntouchedKeeps DEF Close, clock, secrets
<1>8. CASE FailsInside(s)
  <2>1. due' = due
    BY <1>8 DEF FailsInside
  <2> QED
    BY <1>8, <2>1, FetchedKeeps, FetchFailsKeeps DEF FailsInside
<1> QED
  BY <1>1, <1>2, <1>3, <1>4, <1>5, <1>6, <1>7, <1>8 DEF OpeningStep

LEMMA NextKeeps ==
  ASSUME IInv, [Next]_vars PROVE IInv'
<1>1. CASE Tick
  BY <1>1, TickKeeps
<1>2. CASE Rotate
  BY <1>2, UntouchedKeeps DEF Rotate
<1>3. CASE Expire
  BY <1>3, ExpireKeeps
<1>4. CASE Revoke
  BY <1>4, RevokeKeeps
<1>5. CASE Outage
  BY <1>5, UntouchedKeeps DEF Outage, secrets
<1>6. CASE Return
  BY <1>6, UntouchedKeeps DEF Return, secrets
<1>7. CASE CheckToken
  BY <1>7, CheckTokenKeeps
<1>8. CASE CheckCredentials
  BY <1>8, CheckCredentialsKeeps
<1>9. CASE LoopReinitializes
  BY <1>9, UntouchedKeeps DEF LoopReinitializes, Reinitialize, clock, secrets
<1>10. CASE \E s \in Sessions :
             Open(s) \/ OpeningStep(s) \/ Broken(s) \/ Close(s) \/ FailsInside(s)
  BY <1>10, SessionKeeps
<1>11. CASE UNCHANGED vars
  BY <1>11, UntouchedKeeps DEF vars, clock, secrets
<1> QED
  BY <1>1, <1>2, <1>3, <1>4, <1>5, <1>6, <1>7, <1>8, <1>9, <1>10, <1>11 DEF Next

(* For every lease and threshold of at least two intervals of the loop, the token
   ends only after a revocation, an outage of Vault when it was due, or at its
   maximum age (services/vault_client.py:208-261). *)
THEOREM TokenIsKept == Spec => []TokenKept
<1>1. Init => IInv
  BY InitHolds
<1>2. IInv /\ [Next]_vars => IInv'
  BY NextKeeps
<1>3. IInv => TokenKept
  BY DEF IInv
<1> QED
  BY <1>1, <1>2, <1>3, PTL DEF Spec

-----------------------------------------------------------------------------
(* Sessions and rotations.  A session is never open for a tick, so one rotation at
   most falls into its opening. *)

SessionStates ==
  {"idle", "try", "fetched", "pause", "open", "failed", "closed", "refused"}

EngineTypeOK ==
  /\ rotateIn \in Nat /\ url \in Nat
  /\ pending \in [Procs -> Nat \cup {None}]
  /\ at \in [Sessions -> SessionStates]
  /\ tries \in [Sessions -> Nat]

StillToCome == IF rotateIn = 0 THEN 1 ELSE 0

Stale(age) == IF age = 0 THEN 0 ELSE 1

\* The engine the next attempt of s meets, if nobody else replaces it.
NextUrl(s) == IF at[s] = "fetched" THEN pending[s] ELSE url

\* The refusals s can still meet: one for an engine that is stale already, one for
\* the rotation that is due.
Denials(s) == Stale(NextUrl(s)) + StillToCome

(* A password that is about to be put in place is stale only after a rotation in
   this very tick, which is then the last one of it. *)
PendingIsRecent == \A p \in Procs : pending[p] # None /\ pending[p] # 0 => rotateIn # 0

FetchedIsPending == \A s \in Sessions : at[s] = "fetched" => pending[s] # None

Unopened == \A s \in Sessions : at[s] = "idle" => tries[s] = 0

(* The attempts a session has lost and those it can still lose are two together,
   unless it was met by more than a rotation. *)
Budget == \A s \in Opening : s \in shaken \/ tries[s] + Denials(s) <= 2

RotInv ==
  /\ EngineTypeOK /\ PendingIsRecent /\ FetchedIsPending /\ Unopened
  /\ Budget /\ RotationRefusesNobody

LEMMA Numbers ==
  /\ Period \in Nat /\ Period >= 1 /\ MaxTries \in Nat /\ Oldest \in Nat /\ Oldest >= 1
  /\ None \notin Nat /\ Loop \notin Sessions /\ 0 # None
BY CredentialsAssumption DEF CredentialsAssumption

LEMMA RotInitHolds == Init => RotInv
<1> SUFFICES ASSUME Init PROVE RotInv
  OBVIOUS
<1>1. EngineTypeOK
  BY Numbers DEF Init, EngineTypeOK, SessionStates
<1>2. Opening = {} /\ \A s \in Sessions : at[s] = "idle"
  BY DEF Init, Opening
<1> QED
  BY <1>1, <1>2
  DEF Init, RotInv, PendingIsRecent, FetchedIsPending, Unopened, Budget, RotationRefusesNobody

LEMMA RotUntouched ==
  ASSUME RotInv, UNCHANGED <<rotateIn, engine, sessions>> PROVE RotInv'
BY DEF RotInv, engine, sessions, EngineTypeOK, PendingIsRecent, FetchedIsPending,
  Unopened, Budget, RotationRefusesNobody, Opening, Denials, NextUrl, Stale, StillToCome

LEMMA TickKeepsBudget ==
  ASSUME RotInv, Tick PROVE RotInv'
<1>1. /\ Opening = {} /\ Opening' = {} /\ \A p \in Procs : pending[p] = None
      /\ rotateIn' \in Nat /\ UNCHANGED <<url, pending, at, tries, shaken>>
  BY DEF Tick, RotInv, EngineTypeOK, engine, sessions, Opening
<1> QED
  BY <1>1
  DEF RotInv, EngineTypeOK, PendingIsRecent, FetchedIsPending, Unopened, Budget,
    RotationRefusesNobody

LEMMA RotateKeepsBudget ==
  ASSUME RotInv, Rotate PROVE RotInv'
<1>1. /\ rotateIn = 0 /\ rotateIn' \in Nat /\ rotateIn' # 0
      /\ UNCHANGED <<at, tries, shaken>> /\ Opening' = Opening
      /\ StillToCome = 1 /\ StillToCome' = 0
  BY Numbers DEF Rotate, sessions, Opening, StillToCome
<1>2. url' \in Nat /\ \A p \in Procs : pending'[p] \in Nat \cup {None}
                                        /\ (pending'[p] = None <=> pending[p] = None)
  BY Numbers DEF Rotate, Older, RotInv, EngineTypeOK
<1>3. EngineTypeOK'
  BY <1>1, <1>2 DEF Rotate, RotInv, EngineTypeOK
<1>4. PendingIsRecent' /\ FetchedIsPending' /\ Unopened' /\ RotationRefusesNobody'
  BY <1>1, <1>2 DEF PendingIsRecent, FetchedIsPending, Unopened, RotationRefusesNobody,
    RotInv, Procs
<1>5. Budget'
  <2> SUFFICES ASSUME NEW s \in Opening, s \notin shaken
               PROVE  tries[s] + Denials(s)' <= 2
    BY <1>1 DEF Budget
  <2>1. tries[s] + Denials(s) <= 2 /\ tries[s] \in Nat
    BY DEF RotInv, Budget, EngineTypeOK, Opening
  <2>2. CASE at[s] = "fetched"
    <3>1. pending[s] = 0
      BY <1>1, <2>2 DEF RotInv, FetchedIsPending, PendingIsRecent, Opening, Procs
    <3> QED
      BY <1>1, <2>1, <2>2, <3>1 DEF Denials, NextUrl, Stale
  <2>3. CASE at[s] # "fetched"
    <3>1. Stale(url') <= 1 /\ Stale(url') \in Nat /\ Stale(url) \in Nat /\ tries[s] + Stale(url) <= 1
      BY <1>1, <2>1, <2>3 DEF Denials, NextUrl, Stale
    <3>2. tries[s] <= 1
      BY <2>1, <3>1
    <3> QED
      BY <1>1, <2>1, <2>3, <3>1, <3>2 DEF Denials, NextUrl
  <2> QED
    BY <2>2, <2>3
<1> QED
  BY <1>3, <1>4, <1>5 DEF RotInv

(* Another process puts a password in place: a stale one shakes every session that
   is being opened, the valid one costs no session an attempt. *)
LEMMA ReinitializeKeepsBudget ==
  ASSUME RotInv, NEW p \in Procs, Reinitialize(p),
         p = Loop \/ at[p] # "fetched",
         at' \in [Sessions -> SessionStates],
         \A s \in Sessions : s # p => at'[s] = at[s],
         p \in Sessions => at'[p] = "closed"
  PROVE  RotInv'
<1>1. /\ pending[p] # None /\ url' = pending[p]
      /\ pending' = [pending EXCEPT ![p] = None]
      /\ rotateIn' = rotateIn /\ tries' = tries
      /\ pending[p] \in Nat
  BY DEF Reinitialize, clock, RotInv, EngineTypeOK
<1>2. EngineTypeOK'
  BY <1>1 DEF RotInv, EngineTypeOK
<1>3. Opening' \subseteq Opening \ {p}
  BY Numbers DEF Opening, Procs
<1>4. PendingIsRecent'
  BY <1>1 DEF RotInv, PendingIsRecent, EngineTypeOK
<1>5. FetchedIsPending'
  BY <1>1, Numbers DEF RotInv, FetchedIsPending, EngineTypeOK, Procs
<1>6. Unopened'
  BY <1>1, Numbers DEF RotInv, Unopened, Procs
<1>7. RotationRefusesNobody'
  BY Numbers DEF RotInv, RotationRefusesNobody, Reinitialize, Procs
<1>8. Budget'
  <2> SUFFICES ASSUME NEW s \in Opening', s \notin shaken'
               PROVE  tries[s] + Denials(s)' <= 2
    BY <1>1 DEF Budget
  <2>1. /\ s \in Opening \ {p} /\ s \notin shaken /\ pending[p] = 0
        /\ at'[s] = at[s] /\ s \in Sessions /\ pending'[s] = pending[s]
    BY <1>1, <1>3 DEF Reinitialize, Opening, EngineTypeOK, RotInv, Procs
  <2>2. tries[s] + Denials(s) <= 2 /\ tries[s] \in Nat
    BY <2>1 DEF RotInv, Budget, EngineTypeOK
  <2> QED
    BY <1>1, <2>1, <2>2 DEF Denials, NextUrl, Stale, StillToCome
<1> QED
  BY <1>2, <1>4, <1>5, <1>6, <1>7, <1>8 DEF RotInv

(* A session that is being opened puts in place what it has fetched. *)
LEMMA OwnReinitializeKeepsBudget ==
  ASSUME RotInv, NEW s \in Sessions, Reinitialize(s), Moves(s, "fetched", "pause")
  PROVE  RotInv'
<1>1. /\ pending[s] # None /\ url' = pending[s]
      /\ pending' = [pending EXCEPT ![s] = None]
      /\ rotateIn' = rotateIn /\ tries' = tries
      /\ pending[s] \in Nat /\ s \in Procs
      /\ at[s] = "fetched" /\ at' = [at EXCEPT ![s] = "pause"]
      /\ at \in [Sessions -> SessionStates]
  BY DEF Reinitialize, clock, RotInv, EngineTypeOK, Procs, Moves
<1>2. EngineTypeOK'
  BY <1>1 DEF RotInv, EngineTypeOK, SessionStates
<1>3. Opening' = Opening /\ s \in Opening
  BY <1>1 DEF Opening
<1>4. PendingIsRecent'
  BY <1>1 DEF RotInv, PendingIsRecent, EngineTypeOK
<1>5. FetchedIsPending'
  BY <1>1 DEF RotInv, FetchedIsPending, EngineTypeOK, Procs
<1>6. Unopened'
  BY <1>1 DEF RotInv, Unopened
<1>7. RotationRefusesNobody'
  BY <1>1 DEF RotInv, RotationRefusesNobody, Reinitialize
<1>8. Budget'
  <2> SUFFICES ASSUME NEW z \in Opening, z \notin shaken'
               PROVE  tries[z] + Denials(z)' <= 2
    BY <1>1, <1>3 DEF Budget
  <2>1. z \in Sessions /\ z \notin shaken
    BY DEF Opening, Reinitialize
  <2>2. tries[z] + Denials(z) <= 2 /\ tries[z] \in Nat
    BY <2>1 DEF RotInv, Budget, EngineTypeOK
  <2>3. CASE z = s
    BY <1>1, <2>2, <2>3 DEF Denials, NextUrl, Stale, StillToCome
  <2>4. CASE z # s
    <3>1. pending[s] = 0 /\ at'[z] = at[z] /\ pending'[z] = pending[z]
      BY <1>1, <2>1, <2>4 DEF Reinitialize, EngineTypeOK, RotInv, Procs
    <3> QED
      BY <1>1, <2>2, <3>1 DEF Denials, NextUrl, Stale, StillToCome
  <2> QED
    BY <2>3, <2>4
<1> QED
  BY <1>2, <1>4, <1>5, <1>6, <1>7, <1>8 DEF RotInv

(* A step of one session, or of the loop, that fetches credentials: what it may put
   in place is the password of now. *)
LEMMA InitializePending ==
  ASSUME RotInv, NEW p \in Procs, Initialize(p), creds' = 0, pending[p] = None
  PROVE  /\ url' = url
         /\ pending' \in [Procs -> Nat \cup {None}]
         /\ pending'[p] = (IF url = 0 THEN None ELSE 0)
         /\ \A q \in Procs : q # p => pending'[q] = pending[q]
         /\ rotateIn' = rotateIn => PendingIsRecent'
BY Numbers DEF Initialize, RotInv, EngineTypeOK, PendingIsRecent

(* A step that moves one session and leaves the engine and the tick alone. *)
LEMMA MoveKeepsBudget ==
  ASSUME RotInv, NEW s \in Sessions, UNCHANGED <<rotateIn, url>>,
         pending' \in [Procs -> Nat \cup {None}], PendingIsRecent',
         \A q \in Sessions : q # s => pending'[q] = pending[q],
         at' \in [Sessions -> SessionStates], tries' \in [Sessions -> Nat],
         \A z \in Sessions \ {s} : at'[z] = at[z] /\ tries'[z] = tries[z]
                                    /\ (z \in shaken' <=> z \in shaken),
         at'[s] = "fetched" => pending'[s] # None,
         at'[s] # "idle",
         at'[s] = "refused" => s \in shaken',
         s \in Opening' => s \in shaken' \/ tries'[s] + Denials(s)' <= 2
  PROVE  RotInv'
<1>1. EngineTypeOK' /\ Unopened' /\ RotationRefusesNobody' /\ FetchedIsPending'
  BY DEF RotInv, EngineTypeOK, Unopened, RotationRefusesNobody, FetchedIsPending
<1>2. Budget'
  <2> SUFFICES ASSUME NEW z \in Opening', z \notin shaken'
               PROVE  tries'[z] + Denials(z)' <= 2
    BY DEF Budget
  <2>1. CASE z = s
    BY <2>1
  <2>2. CASE z # s
    <3>1. z \in Opening /\ z \notin shaken /\ z \in Sessions
      BY <2>2 DEF Opening
    <3> QED
      BY <2>2, <3>1 DEF RotInv, Budget, Denials, NextUrl, StillToCome
  <2> QED
    BY <2>1, <2>2
<1> QED
  BY <1>1, <1>2 DEF RotInv

LEMMA LoopKeepsBudget ==
  ASSUME RotInv, CheckCredentials PROVE RotInv'
<1>1. /\ rotateIn' = rotateIn /\ UNCHANGED sessions
      /\ pending[Loop] = None /\ Loop \in Procs
  BY DEF CheckCredentials, Procs
<1>2. CASE UNCHANGED engine
  BY <1>1, <1>2, RotUntouched
<1>3. CASE Fetched /\ Initialize(Loop)
  <2>1. creds' = 0
    BY <1>3 DEF Fetched
  <2>2. /\ url' = url /\ pending' \in [Procs -> Nat \cup {None}]
        /\ \A q \in Procs : q # Loop => pending'[q] = pending[q]
        /\ PendingIsRecent'
    BY <1>1, <1>3, <2>1, InitializePending
  <2>3. \A s \in Sessions : pending'[s] = pending[s] /\ Denials(s)' = Denials(s)
    BY <1>1, <2>2, Numbers DEF Procs, sessions, Denials, NextUrl, StillToCome
  <2> QED
    BY <1>1, <2>2, <2>3
    DEF RotInv, EngineTypeOK, sessions, FetchedIsPending, Unopened, Budget,
      RotationRefusesNobody, Opening
<1> QED
  BY <1>2, <1>3 DEF CheckCredentials

\* Only a session that has fetched, or has failed, has a password to put in place.
LEMMA UntouchedPending ==
  ASSUME RotInv, pending' = pending, rotateIn' = rotateIn
  PROVE  PendingIsRecent' /\ pending' \in [Procs -> Nat \cup {None}]
BY DEF RotInv, PendingIsRecent, EngineTypeOK

LEMMA OpeningKeepsBudget ==
  ASSUME RotInv, NEW s \in Sessions,
         Open(s) \/ Answered(s) \/ TryAgain(s) \/ Close(s)
  PROVE  RotInv'
<1>1. /\ UNCHANGED <<rotateIn, url, pending>>
      /\ PendingIsRecent' /\ pending' \in [Procs -> Nat \cup {None}]
  BY UntouchedPending DEF Open, Answered, TryAgain, Close, clock, engine
<1>2. /\ at \in [Sessions -> SessionStates] /\ tries \in [Sessions -> Nat]
      /\ url \in Nat /\ rotateIn \in Nat
  BY DEF RotInv, EngineTypeOK
<1>3. CASE Open(s)
  <2>1. at' = [at EXCEPT ![s] = "try"] /\ tries' = tries /\ tries[s] = 0 /\ shaken' = shaken
    BY <1>3 DEF Open, Moves, RotInv, Unopened
  <2>2. at'[s] = "try" /\ Denials(s)' <= 2 /\ tries'[s] = 0 /\ Denials(s)' \in Nat
    BY <1>1, <1>2, <2>1 DEF Denials, NextUrl, Stale, StillToCome
  <2> QED
    BY <1>1, <1>2, <2>1, <2>2, MoveKeepsBudget DEF SessionStates
<1>4. CASE Answered(s)
  <2>1. /\ at' = [at EXCEPT ![s] = "open"] /\ tries' = [tries EXCEPT ![s] = 0]
        /\ shaken' = shaken \ {s}
    BY <1>4 DEF Answered, Moves
  <2>2. at'[s] = "open" /\ s \notin Opening'
    BY <1>2, <2>1 DEF Opening
  <2> QED
    BY <1>1, <1>2, <2>1, <2>2, MoveKeepsBudget DEF SessionStates
<1>5. CASE TryAgain(s)
  <2>1. /\ at[s] = "pause" /\ at' = [at EXCEPT ![s] = "try"] /\ tries' = tries
        /\ shaken' = shaken /\ s \in Opening
    BY <1>5 DEF TryAgain, Moves, Opening
  <2>2. at'[s] = "try" /\ Denials(s)' = Denials(s)
    BY <1>1, <1>2, <2>1 DEF Denials, NextUrl, StillToCome
  <2>3. s \in shaken' \/ tries'[s] + Denials(s)' <= 2
    BY <2>1, <2>2 DEF RotInv, Budget
  <2> QED
    BY <1>1, <1>2, <2>1, <2>2, <2>3, MoveKeepsBudget DEF SessionStates
<1>6. CASE Close(s)
  <2>1. at' = [at EXCEPT ![s] = "closed"] /\ tries' = tries /\ shaken' = shaken
    BY <1>6 DEF Close, Moves
  <2>2. at'[s] = "closed" /\ s \notin Opening'
    BY <1>2, <2>1 DEF Opening
  <2> QED
    BY <1>1, <1>2, <2>1, <2>2, MoveKeepsBudget DEF SessionStates
<1> QED
  BY <1>3, <1>4, <1>5, <1>6

(* An attempt that fails for another reason shakes its session. *)
LEMMA BrokenKeepsBudget ==
  ASSUME RotInv, NEW s \in Sessions, Broken(s) PROVE RotInv'
<1>1. /\ UNCHANGED <<rotateIn, url, pending>>
      /\ PendingIsRecent' /\ pending' \in [Procs -> Nat \cup {None}]
  BY UntouchedPending DEF Broken, engine
<1>2. at \in [Sessions -> SessionStates] /\ tries \in [Sessions -> Nat]
  BY DEF RotInv, EngineTypeOK
<1>3. /\ at' = [at EXCEPT ![s] = IF LastTry(s) THEN "refused" ELSE "pause"]
      /\ tries' = [tries EXCEPT ![s] = @ + 1] /\ shaken' = shaken \cup {s}
  BY DEF Broken, Moves
<1>4. at'[s] \in {"refused", "pause"} /\ s \in shaken'
  BY <1>2, <1>3
<1> QED
  BY <1>1, <1>2, <1>3, <1>4, MoveKeepsBudget DEF SessionStates

(* A refusal of the password uses one attempt, and one of those that were still to
   come: the last attempt is never among them. *)
LEMMA DeniedKeepsBudget ==
  ASSUME RotInv, NEW s \in Sessions, Denied(s), MaxTries >= 3 PROVE RotInv'
<1>1. /\ rotateIn' = rotateIn /\ url # 0 /\ at[s] = "try" /\ s \in Opening
      /\ tries' = [tries EXCEPT ![s] = @ + 1] /\ s \in Procs
  BY DEF Denied, Opening, Procs
<1>2. /\ at \in [Sessions -> SessionStates] /\ tries \in [Sessions -> Nat]
      /\ url \in Nat /\ rotateIn \in Nat /\ pending \in [Procs -> Nat \cup {None}]
  BY DEF RotInv, EngineTypeOK
<1>3. tries' \in [Sessions -> Nat] /\ tries'[s] = tries[s] + 1 /\ tries[s] \in Nat
  BY <1>1, <1>2
<1>4. Denials(s) = 1 + StillToCome /\ StillToCome \in Nat
  BY <1>1 DEF Denials, NextUrl, Stale, StillToCome
<1>5. s \in shaken \/ tries[s] + 1 + StillToCome <= 2
  BY <1>1, <1>3, <1>4 DEF RotInv, Budget
<1>6. CASE LastTry(s)
  <2>1. s \in shaken
    BY <1>3, <1>4, <1>5, <1>6, Numbers DEF LastTry
  <2>2. /\ at' = [at EXCEPT ![s] = "refused"] /\ shaken' = shaken /\ UNCHANGED <<url, pending>>
    BY <1>6 DEF Denied, Moves, engine
  <2>3. at'[s] = "refused"
    BY <1>2, <2>2
  <2> QED
    BY <1>1, <1>2, <1>3, <2>1, <2>2, <2>3, UntouchedPending, MoveKeepsBudget DEF SessionStates
<1>7. CASE ~LastTry(s) /\ Fetched /\ Initialize(s)
           /\ Moves(s, "try", IF pending'[s] = None THEN "pause" ELSE "fetched")
           /\ UNCHANGED shaken
  <2>1. creds' = 0
    BY <1>7 DEF Fetched
  <2>2. /\ url' = url /\ pending' \in [Procs -> Nat \cup {None}] /\ pending'[s] = 0
        /\ \A q \in Procs : q # s => pending'[q] = pending[q]
        /\ PendingIsRecent'
    <3>1. CASE pending[s] = None
      BY <1>1, <1>7, <2>1, <3>1, InitializePending
    <3> QED
      BY <1>1, <1>2, <1>7, <2>1, Numbers
      DEF Initialize, RotInv, PendingIsRecent
  <2>3. at' = [at EXCEPT ![s] = "fetched"] /\ at'[s] = "fetched"
    BY <1>2, <1>7, <2>2, Numbers DEF Moves
  <2>4. Denials(s)' = StillToCome
    BY <1>1, <1>4, <2>2, <2>3 DEF Denials, NextUrl, Stale, StillToCome
  <2>5. s \in shaken' \/ tries'[s] + Denials(s)' <= 2
    BY <1>3, <1>5, <1>7, <2>4
  <2> QED
    BY <1>1, <1>2, <1>3, <1>7, <2>2, <2>3, <2>5, Numbers, MoveKeepsBudget DEF SessionStates, Procs
<1>8. CASE ~LastTry(s) /\ FetchFails /\ Moves(s, "try", "pause")
           /\ shaken' = shaken \cup {s} /\ UNCHANGED engine
  <2>1. /\ at' = [at EXCEPT ![s] = "pause"] /\ UNCHANGED <<url, pending>>
    BY <1>8 DEF Moves, engine
  <2>2. at'[s] = "pause" /\ s \in shaken'
    BY <1>2, <1>8, <2>1
  <2> QED
    BY <1>1, <1>2, <1>3, <1>8, <2>1, <2>2, UntouchedPending, MoveKeepsBudget DEF SessionStates
<1> QED
  BY <1>6, <1>7, <1>8 DEF Denied

(* A session that was opened is none that is being opened. *)
LEMMA FailsInsideKeepsBudget ==
  ASSUME RotInv, NEW s \in Sessions, FailsInside(s) PROVE RotInv'
<1>1. /\ rotateIn' = rotateIn /\ tries' = tries /\ shaken' = shaken /\ at[s] = "open"
      /\ s \in Procs
  BY DEF FailsInside, Procs
<1>2. /\ at \in [Sessions -> SessionStates] /\ tries \in [Sessions -> Nat]
      /\ pending \in [Procs -> Nat \cup {None}]
  BY DEF RotInv, EngineTypeOK
<1>3. CASE Fetched /\ Initialize(s)
           /\ Moves(s, "open", IF pending'[s] = None THEN "closed" ELSE "failed")
  <2>1. creds' = 0
    BY <1>3 DEF Fetched
  <2>2. /\ url' = url /\ pending' \in [Procs -> Nat \cup {None}]
        /\ \A q \in Procs : q # s => pending'[q] = pending[q]
        /\ PendingIsRecent'
    BY <1>1, <1>2, <1>3, <2>1, Numbers DEF Initialize, RotInv, PendingIsRecent
  <2>3. /\ at' = [at EXCEPT ![s] = IF pending'[s] = None THEN "closed" ELSE "failed"]
        /\ at'[s] \in {"closed", "failed"}
    BY <1>2, <1>3 DEF Moves
  <2>4. s \notin Opening'
    BY <2>3 DEF Opening
  <2> QED
    BY <1>1, <1>2, <2>2, <2>3, <2>4, MoveKeepsBudget DEF SessionStates, Procs
<1>4. CASE FetchFails /\ Moves(s, "open", "closed") /\ UNCHANGED engine
  <2>1. /\ at' = [at EXCEPT ![s] = "closed"] /\ UNCHANGED <<url, pending>>
    BY <1>4 DEF Moves, engine
  <2>2. at'[s] = "closed" /\ s \notin Opening'
    BY <1>2, <2>1 DEF Opening
  <2> QED
    BY <1>1, <1>2, <2>1, <2>2, UntouchedPending, MoveKeepsBudget DEF SessionStates
<1> QED
  BY <1>3, <1>4 DEF FailsInside

LEMMA SessionReinitializesKeepsBudget ==
  ASSUME RotInv, NEW s \in Sessions, SessionReinitializes(s) PROVE RotInv'
<1>1. CASE Reinitialize(s) /\ Moves(s, "fetched", "pause")
  BY <1>1, OwnReinitializeKeepsBudget
<1>2. CASE Reinitialize(s) /\ Moves(s, "failed", "closed")
  <2>1. /\ at[s] = "failed" /\ at' = [at EXCEPT ![s] = "closed"]
        /\ at \in [Sessions -> SessionStates] /\ s \in Procs
    BY <1>2 DEF Moves, RotInv, EngineTypeOK, Procs
  <2> QED
    BY <1>2, <2>1, ReinitializeKeepsBudget DEF SessionStates
<1> QED
  BY <1>1, <1>2 DEF SessionReinitializes

LEMMA NextKeepsBudget ==
  ASSUME RotInv, [Next]_vars, MaxTries >= 3 PROVE RotInv'
<1>1. CASE Tick
  BY <1>1, TickKeepsBudget
<1>2. CASE Rotate
  BY <1>2, RotateKeepsBudget
<1>3. CASE Expire \/ Revoke \/ Outage \/ Return \/ CheckToken
  BY <1>3, RotUntouched DEF Expire, Revoke, Outage, Return, CheckToken, clock
<1>4. CASE CheckCredentials
  BY <1>4, LoopKeepsBudget
<1>5. CASE LoopReinitializes
  <2>1. Loop \in Procs /\ at' = at /\ at \in [Sessions -> SessionStates]
    BY <1>5 DEF LoopReinitializes, Procs, RotInv, EngineTypeOK
  <2> QED
    BY <1>5, <2>1, Numbers, ReinitializeKeepsBudget DEF LoopReinitializes
<1>6. CASE \E s \in Sessions :
             Open(s) \/ OpeningStep(s) \/ Broken(s) \/ Close(s) \/ FailsInside(s)
  BY <1>6, OpeningKeepsBudget, BrokenKeepsBudget, DeniedKeepsBudget, FailsInsideKeepsBudget,
    SessionReinitializesKeepsBudget DEF OpeningStep
<1>7. CASE UNCHANGED vars
  BY <1>7, RotUntouched DEF vars, clock
<1> QED
  BY <1>1, <1>2, <1>3, <1>4, <1>5, <1>6, <1>7 DEF Next

(* For any number of sessions and every period: with the three attempts of get_db a
   rotation of the password alone refuses no session, whenever in its opening it
   happens (storage/database.py:188-248).  Two attempts are not enough: the first may
   meet a password rotated before, the second one rotated since it was fetched. *)
THEOREM RotationIsSurvived ==
  ASSUME MaxTries >= 3 PROVE Spec => []RotationRefusesNobody
<1>1. Init => RotInv
  BY RotInitHolds
<1>2. RotInv /\ [Next]_vars => RotInv'
  BY NextKeepsBudget
<1>3. RotInv => RotationRefusesNobody
  BY DEF RotInv
<1> QED
  BY <1>1, <1>2, <1>3, PTL DEF Spec
=============================================================================
