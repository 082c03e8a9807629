------------------------------- MODULE StartUp -------------------------------
(***************************************************************************)
(* Pods that start, serve and crash: the order of main.py's lifespan over  *)
(* the registry of assets, the treasury and the lock of the refresh tasks. *)
(***************************************************************************)
EXTENDS DistributedLock, AssetRegistry, Treasury

CONSTANTS
  PodOf,      \* the pod of each refresh task
  Scenes,     \* what requests and tasks do in one behaviour
  Wanted,     \* the asset that is activated in vaults
  MaxMishaps  \* bound: crashes, starts and refreshes that meet a failing service

ASSUME StartUpAssumption ==
  /\ Boots = Pods /\ PodOf \in [Tasks -> Pods] /\ Wanted \in Natives \cup Tokens
  /\ MaxMishaps \in Nat
  /\ Pods # {} /\ Natives \cap Tokens = {}

VARIABLES
  stage,    \* of each pod: down, natives, natives_in, tokens, tokens_in, boot, up
  troubled, \* pods whose start met a failing backend or provider
  mishaps,
  may       \* for each session and task, what it does in this behaviour

pods == <<stage, troubled, mishaps, may>>
vars == <<lock, registry, treasury, pods>>

Init ==
  /\ LockInit /\ RegistryInit /\ TreasuryInit
  /\ stage = [p \in Pods |-> "down"] /\ troubled = {} /\ mishaps = 0
  /\ may \in Scenes

Moves(p, from, to) ==
  /\ stage[p] = from
  /\ stage' = [stage EXCEPT ![p] = to]
  /\ UNCHANGED may

Mishap == mishaps < MaxMishaps /\ mishaps' = mishaps + 1

Known == Wanted \in registered

\* An administrator waits until no pod is starting, and pods do not restart
\* into a request of an administrator (README, section 6).
Steady == "overlap" \in Stimuli \/ \A p \in Pods : stage[p] # "boot"
NoAdmin ==
  \/ "overlap" \in Stimuli
  \/ \A r \in Requests : desk[r].op \in {"idle", "activate", "activate_commit"}

-----------------------------------------------------------------------------
(* lifespan *)

Start(p) ==
  /\ Moves(p, "down", "natives")
  /\ troubled' = troubled \ {p}
  /\ UNCHANGED <<lock, registry, treasury, mishaps>>

(* The backend's list or Fireblocks' cannot be had: no asset is registered. *)
FetchFails(p) ==
  /\ "backend_fails" \in Stimuli /\ Mishap
  /\ Moves(p, "natives", "boot")
  /\ troubled' = troubled \cup {p}
  /\ UNCHANGED <<lock, registry, treasury>>

LookNatives(p) ==
  /\ Look(p, Natives) /\ Moves(p, "natives", "natives_in")
  /\ UNCHANGED <<lock, treasury, troubled, mishaps>>

\* Slip: a pod that finds all coins registered takes the tokens for granted.
InsertNativesOrStop(p) ==
  /\ Register(p)
  /\ Moves(p, "natives_in", IF missing[p] = {} THEN "boot" ELSE "tokens")
  /\ UNCHANGED <<lock, treasury, troubled, mishaps>>

InsertNatives(p) ==
  /\ Register(p) /\ Moves(p, "natives_in", "tokens")
  /\ UNCHANGED <<lock, treasury, troubled, mishaps>>

LookTokens(p) ==
  /\ Look(p, Tokens) /\ Moves(p, "tokens", "tokens_in")
  /\ UNCHANGED <<lock, treasury, troubled, mishaps>>

InsertTokens(p) ==
  /\ Register(p) /\ Moves(p, "tokens_in", "boot")
  /\ UNCHANGED <<lock, treasury, troubled, mishaps>>

RegistryGivesUp(p) ==
  /\ GiveUp(p)
  /\ Moves(p, "natives_in", "boot") \/ Moves(p, "tokens_in", "boot")
  /\ UNCHANGED <<lock, treasury, troubled, mishaps>>

(* The pod is up when the bootstrap has closed its session. *)
BootStep(p) ==
  /\ BootAction(p) /\ NoAdmin
  /\ Moves(p, "boot", IF desk'[p] = Idle THEN "up" ELSE "boot")
  /\ UNCHANGED <<lock, registry, troubled, mishaps>>

BootTrouble(p) ==
  /\ BootRefused(p) /\ Moves(p, "boot", "up") /\ Mishap
  /\ troubled' = troubled \cup {p}
  /\ UNCHANGED <<lock, registry>>

(* Whatever the pod was doing is lost, but not its key in Redis.  A request it
   handled is dropped by RequestDropped. *)
Crash(p) ==
  /\ Mishap /\ stage[p] # "down"
  /\ stage' = [stage EXCEPT ![p] = "down"]
  /\ UNCHANGED may
  /\ desk' = [desk EXCEPT ![p] = Idle]
  /\ missing' = [missing EXCEPT ![p] = {}]
  /\ Die({t \in Tasks : PodOf[t] = p})
  /\ UNCHANGED <<registered, accounts, active, vaults, wallets, troubled>>

StartStep(p) ==
  \/ Start(p) \/ LookNatives(p) \/ InsertNatives(p) \/ LookTokens(p) \/ InsertTokens(p)
  \/ RegistryGivesUp(p) \/ BootStep(p)

-----------------------------------------------------------------------------
(* Pods that are up.  Refreshes and requests share nothing but the pods, so that a
   behaviour need not have both: may is chosen once, from Scenes. *)

Serving == \E p \in Pods : stage[p] = "up"

AdminRequest(r) ==
  /\ Serving /\ Steady
  /\ AdminBegins(r, may[r])
  /\ UNCHANGED <<lock, registry, pods>>

ActivateRequest(r) ==
  /\ "activate" \in may[r] /\ Serving
  /\ \E n \in Names : ActivateLook(r, n, Known)
  /\ UNCHANGED <<lock, registry, pods>>

EnsureRequest(r) ==
  /\ "ensure" \in may[r] /\ Serving
  /\ EnsureLook(r, Known)
  /\ UNCHANGED <<lock, registry, pods>>

RequestStep(r) ==
  /\ Handled(r, Known)
  /\ UNCHANGED <<lock, registry, pods>>

(* The handler ends in an error before it commits. *)
RequestDropped(r) ==
  /\ "drop" \in Stimuli
  /\ Drop(r)
  /\ UNCHANGED <<lock, registry, pods>>

RefreshBegins(t) ==
  /\ "refresh" \in may[t] /\ stage[PodOf[t]] = "up"
  /\ Acquire(t)
  /\ UNCHANGED <<registry, treasury, pods>>

RefreshWithoutRedis(t) ==
  /\ "redis_away" \in Stimuli /\ Mishap
  /\ "refresh" \in may[t] /\ stage[PodOf[t]] = "up"
  /\ AcquireWithoutRedis(t)
  /\ UNCHANGED <<registry, treasury, stage, troubled, may>>

RefreshEnds(t) ==
  /\ Release(t)
  /\ UNCHANGED <<registry, treasury, pods>>

KeyExpires ==
  /\ Expire
  /\ UNCHANGED <<registry, treasury, pods>>

Next ==
  \/ \E p \in Pods : StartStep(p) \/ FetchFails(p) \/ BootTrouble(p) \/ Crash(p)
  \/ \E r \in Requests : AdminRequest(r) \/ ActivateRequest(r) \/ EnsureRequest(r)
                           \/ RequestStep(r) \/ RequestDropped(r)
  \/ \E t \in Tasks : RefreshBegins(t) \/ RefreshWithoutRedis(t) \/ RefreshEnds(t)
  \/ KeyExpires

Spec == Init /\ [][Next]_vars

(* Pods are started again, requests end, a refresh ends, the time to live of the
   key ends, and the loop of a pod that is up tries every ten minutes. *)
Fairness ==
  /\ \A p \in Pods : WF_vars(StartStep(p))
  /\ \A r \in Requests : WF_vars(RequestStep(r))
  /\ \A t \in Tasks : WF_vars(RefreshEnds(t)) /\ SF_vars(RefreshBegins(t))
  /\ WF_vars(KeyExpires)

FairSpec == Spec /\ Fairness
=============================================================================
