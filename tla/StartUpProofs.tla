---------------------------- MODULE StartUpProofs ----------------------------
(***************************************************************************)
(* Theorems about StartUp, for every number of pods, requests, refresh     *)
(* tasks, accounts and assets, and every number of mishaps.                *)
(***************************************************************************)
EXTENDS StartUpProperties, TLAPS

-----------------------------------------------------------------------------
(* The lock by itself, for any number of tasks. *)

(* Mutual exclusion alone is not inductive: that nobody else can enter follows
   from the key being the one task's own, as long as there is no excuse. *)
HolderHasKey == ~excused => \A t \in refreshing : key = t

LockInv == LockTypeOK /\ HolderHasKey

LEMMA LockInitHolds == LockInit => LockInv
BY DEF LockInit, LockInv, LockTypeOK, HolderHasKey

LEMMA AcquireKeeps ==
  ASSUME LockInv, NEW t \in Tasks, Acquire(t) PROVE LockInv'
<1>1. refreshing = {} \/ excused
  BY LockAssumption DEF LockInv, LockTypeOK, HolderHasKey, Acquire
<1>2. LockTypeOK'
  BY DEF LockInv, LockTypeOK, Acquire
<1>3. HolderHasKey'
  BY <1>1 DEF HolderHasKey, Acquire
<1> QED
  BY <1>2, <1>3 DEF LockInv

LEMMA AcquireWithoutRedisKeeps ==
  ASSUME LockInv, NEW t \in Tasks, AcquireWithoutRedis(t) PROVE LockInv'
BY DEF LockInv, LockTypeOK, HolderHasKey, AcquireWithoutRedis

(* The one delicate step: without an excuse the task that leaves was the only
   one inside, so no key of another is deleted under a task at work. *)
LEMMA ReleaseKeeps ==
  ASSUME LockInv, NEW t \in Tasks, Release(t) PROVE LockInv'
<1>1. LockTypeOK'
  BY DEF LockInv, LockTypeOK, Release, StillExcused
<1>2. HolderHasKey'
  <2>1. CASE excused
    BY <2>1 DEF HolderHasKey, Release, StillExcused
  <2>2. CASE ~excused
    <3>1. \A u \in refreshing : u = t
      BY <2>2 DEF LockInv, HolderHasKey, Release
    <3> QED
      BY <3>1 DEF HolderHasKey, Release
  <2> QED
    BY <2>1, <2>2
<1> QED
  BY <1>1, <1>2 DEF LockInv

LEMMA ExpireKeeps ==
  ASSUME LockInv, Expire PROVE LockInv'
BY DEF LockInv, LockTypeOK, HolderHasKey, Expire

LEMMA DieKeeps ==
  ASSUME LockInv, NEW dead \in SUBSET Tasks, Die(dead) PROVE LockInv'
<1>1. LockTypeOK'
  BY DEF LockInv, LockTypeOK, Die, StillExcused
<1>2. HolderHasKey'
  BY DEF LockInv, HolderHasKey, Die, StillExcused
<1> QED
  BY <1>1, <1>2 DEF LockInv

LEMMA LockStepKeeps == LockInv /\ [LockNext]_lock => LockInv'
<1> SUFFICES ASSUME LockInv, [LockNext]_lock PROVE LockInv'
  OBVIOUS
<1>1. CASE UNCHANGED lock
  BY <1>1 DEF LockInv, LockTypeOK, HolderHasKey, lock
<1>2. ASSUME NEW t \in Tasks, Acquire(t) \/ AcquireWithoutRedis(t) \/ Release(t)
      PROVE LockInv'
  BY <1>2, AcquireKeeps, AcquireWithoutRedisKeeps, ReleaseKeeps
<1>3. CASE Expire
  BY <1>3, ExpireKeeps
<1>4. ASSUME NEW dead \in SUBSET Tasks, Die(dead) PROVE LockInv'
  BY <1>4, DieKeeps
<1> QED
  BY <1>1, <1>2, <1>3, <1>4 DEF LockNext

LEMMA LockInvImpliesOneRefresher == LockInv => OneRefresher
BY DEF LockInv, HolderHasKey, OneRefresher

(* For any number of pods and forced refreshes: only one refreshes, unless Redis
   was away or a refresh outlived its key (services/asset_sync.py:54). *)
THEOREM OnlyOneRefreshes == LockSpec => []OneRefresher
<1>1. LockSpec => []LockInv
  BY LockInitHolds, LockStepKeeps, PTL DEF LockSpec
<1> QED
  BY <1>1, LockInvImpliesOneRefresher, PTL

-----------------------------------------------------------------------------
(* Pods, requests and refreshes *)

LEMMA BootsArePods == Boots = Pods
  BY StartUpAssumption DEF StartUpAssumption

-----------------------------------------------------------------------------
(* The lock of StartUp is the lock of DistributedLock. *)

LEMMA PodStepLock ==
  ASSUME NEW p \in Pods, StartStep(p) \/ FetchFails(p) \/ BootTrouble(p)
  PROVE  UNCHANGED lock
BY DEF StartStep, FetchFails, BootTrouble, Start, LookNatives, InsertNatives, LookTokens,
   InsertTokens, RegistryGivesUp, BootStep

LEMMA RequestLock ==
  ASSUME NEW r \in Requests,
         AdminRequest(r) \/ ActivateRequest(r) \/ EnsureRequest(r) \/ RequestStep(r)
           \/ RequestDropped(r)
  PROVE  UNCHANGED lock
BY DEF AdminRequest, ActivateRequest, EnsureRequest, RequestStep, RequestDropped

LEMMA StepsOfTheLock == [Next]_vars => [LockNext]_lock
<1> SUFFICES ASSUME [Next]_vars PROVE [LockNext]_lock
  OBVIOUS
<1>1. CASE \E p \in Pods : StartStep(p) \/ FetchFails(p) \/ BootTrouble(p)
  BY <1>1, PodStepLock
<1>2. CASE \E p \in Pods : Crash(p)
  BY <1>2 DEF Crash, LockNext
<1>3. CASE \E r \in Requests : AdminRequest(r) \/ ActivateRequest(r) \/ EnsureRequest(r)
                                 \/ RequestStep(r) \/ RequestDropped(r)
  BY <1>3, RequestLock
<1>4. CASE \E t \in Tasks : RefreshBegins(t) \/ RefreshWithoutRedis(t) \/ RefreshEnds(t)
  BY <1>4 DEF RefreshBegins, RefreshWithoutRedis, RefreshEnds, LockNext
<1>5. CASE KeyExpires
  BY <1>5 DEF KeyExpires, LockNext
<1>6. CASE UNCHANGED vars
  BY <1>6 DEF vars
<1> QED
  BY <1>1, <1>2, <1>3, <1>4, <1>5, <1>6 DEF Next

(* Whatever pods and requests do, the key and its holders behave as in DistributedLock
   (services/asset_sync.py:37-66, redis_client.py:102-141). *)
THEOREM ImplementsLock == Spec => LockSpec
<1>1. Init => LockInit
  BY DEF Init
<1>2. [Next]_vars => [LockNext]_lock
  BY StepsOfTheLock
<1> QED
  BY <1>1, <1>2, PTL DEF Spec, LockSpec

(* So that only one refreshes, under pods that start, serve and crash as well. *)
THEOREM OneRefreshesAtATime == Spec => []OneRefresher
BY ImplementsLock, OnlyOneRefreshes, PTL

-----------------------------------------------------------------------------
(* The registry.  A phase finds all of its assets missing or none, because every phase
   commits all or nothing; so whoever inserts natives, or loses the race for them, leaves
   them registered.  As long as the tokens are not, some pod still has to look for them or
   has had trouble. *)

Whole(phase) == phase \subseteq registered \/ phase \cap registered = {}

Found(p, phase) ==
  /\ missing[p] = {} \/ missing[p] = phase
  /\ missing[p] = {} => phase \subseteq registered

PodKnows(p) ==
  /\ stage[p] = "natives_in" => Found(p, Natives)
  /\ stage[p] = "tokens_in" => Found(p, Tokens)
  /\ stage[p] \in {"tokens", "tokens_in"} => Natives \subseteq registered
  /\ stage[p] \in {"boot", "up"} /\ p \notin troubled => Natives \subseteq registered

Pending(p) ==
  \/ stage[p] \in {"down", "natives", "tokens", "tokens_in"}
  \/ stage[p] = "natives_in" /\ missing[p] = {}
  \/ p \in troubled

TokensDue ==
  Natives \subseteq registered /\ ~(Tokens \subseteq registered) => \E p \in Pods : Pending(p)

RegInv ==
  /\ registered \subseteq Natives \cup Tokens
  /\ DOMAIN missing = Pods /\ DOMAIN stage = Pods
  /\ missing = [p \in Pods |-> missing[p]] /\ stage = [p \in Pods |-> stage[p]]
  /\ Whole(Natives) /\ Whole(Tokens)
  /\ \A p \in Pods : PodKnows(p)
  /\ TokensDue

LEMMA RegistryStarts == Init => RegInv
BY StartUpAssumption DEF Init, RegistryInit, RegInv, Whole, PodKnows, TokensDue, Pending,
   StartUpAssumption

(* A step that leaves the registry, and moves no pod, or one of boot to up. *)
LEMMA RegistryIdle ==
  ASSUME RegInv, UNCHANGED <<registry, stage, troubled>>
  PROVE  RegInv'
BY DEF RegInv, Whole, PodKnows, Found, TokensDue, Pending, registry

(* Other pods are not concerned when one moves, and rows only come in. *)
LEMMA RegistryOthers ==
  ASSUME RegInv, NEW p \in Pods, registered \subseteq registered',
         NEW q \in Pods, q # p,
         missing'[q] = missing[q], stage'[q] = stage[q], (q \in troubled') = (q \in troubled)
  PROVE  PodKnows(q)' /\ (Pending(q) <=> Pending(q)')
BY DEF RegInv, PodKnows, Found, Pending

LEMMA RegistryPod ==
  ASSUME RegInv, NEW p \in Pods, NEW to,
         stage' = [stage EXCEPT ![p] = to],
         registered \subseteq registered', registered' \subseteq Natives \cup Tokens,
         NEW m, missing' = [missing EXCEPT ![p] = m],
         troubled' \ {p} = troubled \ {p},
         Whole(Natives)', Whole(Tokens)', PodKnows(p)',
         Natives \subseteq registered' =>
           Natives \subseteq registered \/ Tokens \subseteq registered' \/ Pending(p)',
         Pending(p) => Pending(p)' \/ Tokens \subseteq registered'
  PROVE  RegInv'
<1>1. /\ DOMAIN missing' = Pods /\ DOMAIN stage' = Pods
      /\ missing' = [q \in Pods |-> missing'[q]] /\ stage' = [q \in Pods |-> stage'[q]]
  BY DEF RegInv
<1>2. ASSUME NEW q \in Pods, q # p PROVE PodKnows(q)' /\ (Pending(q) <=> Pending(q)')
  <2>1. missing'[q] = missing[q] /\ stage'[q] = stage[q]
    BY <1>2 DEF RegInv
  <2>2. (q \in troubled') = (q \in troubled)
    BY <1>2
  <2> QED
    BY <1>2, <2>1, <2>2, RegistryOthers
<1>3. TokensDue'
  <2> SUFFICES ASSUME Natives \subseteq registered', ~(Tokens \subseteq registered')
               PROVE  \E q \in Pods : Pending(q)'
    BY DEF TokensDue
  <2>1. CASE Pending(p)'
    BY <2>1
  <2>2. CASE ~Pending(p)'
    <3>1. Natives \subseteq registered /\ ~(Tokens \subseteq registered)
      BY <2>2
    <3>2. PICK q \in Pods : Pending(q)
      BY <3>1 DEF RegInv, TokensDue
    <3>3. q # p
      BY <2>2, <3>2
    <3> QED
      BY <1>2, <3>2, <3>3
  <2> QED
    BY <2>1, <2>2
<1> QED
  BY <1>1, <1>2, <1>3 DEF RegInv

LEMMA PodStepsKeepRegistry ==
  ASSUME RegInv, NEW p \in Pods,
         StartStep(p) \/ FetchFails(p) \/ BootTrouble(p) \/ Crash(p)
  PROVE  RegInv'
<1> USE DEF Moves
<1>0. /\ missing = [missing EXCEPT ![p] = missing[p]] /\ stage'[p] = stage'[p]
      /\ Natives \cap Tokens = {} /\ Whole(Natives) /\ Whole(Tokens) /\ PodKnows(p)
      /\ registered \subseteq Natives \cup Tokens /\ p \in DOMAIN stage /\ p \in DOMAIN missing
  BY StartUpAssumption DEF RegInv, StartUpAssumption
<1>1. CASE Start(p)
  <2>1. PodKnows(p)' /\ Pending(p)' /\ Whole(Natives)' /\ Whole(Tokens)'
    BY <1>0, <1>1 DEF Start, registry, PodKnows, Pending, Whole
  <2> QED
    BY <1>0, <1>1, <2>1, RegistryPod DEF Start, registry
<1>2. CASE FetchFails(p)
  <2>1. PodKnows(p)' /\ Pending(p)' /\ Whole(Natives)' /\ Whole(Tokens)'
    BY <1>0, <1>2 DEF FetchFails, registry, PodKnows, Pending, Whole
  <2> QED
    BY <1>0, <1>2, <2>1, RegistryPod DEF FetchFails, registry
<1>3. CASE LookNatives(p)
  <2>1. /\ missing'[p] = Natives \ registered /\ stage'[p] = "natives_in"
        /\ registered' = registered /\ troubled' = troubled
    BY <1>0, <1>3 DEF LookNatives, Look
  <2>2. PodKnows(p)' /\ Whole(Natives)' /\ Whole(Tokens)'
    BY <1>0, <2>1 DEF PodKnows, Found, Whole
  <2>3. Natives \subseteq registered => Pending(p)'
    BY <2>1 DEF Pending
  <2>4. CASE Natives \subseteq registered
    BY <1>0, <1>3, <2>1, <2>2, <2>3, <2>4, RegistryPod DEF LookNatives, Look
  <2>5. CASE ~(Natives \subseteq registered)
    BY <1>0, <1>3, <2>1, <2>2, <2>5 DEF RegInv, LookNatives, Look, TokensDue, PodKnows, Found
  <2> QED
    BY <2>4, <2>5
<1>4. CASE InsertNatives(p)
  <2>1. /\ stage'[p] = "tokens" /\ registered' = registered \cup missing[p]
        /\ missing[p] \cap registered = {} /\ troubled' = troubled /\ Found(p, Natives)
    BY <1>0, <1>4 DEF InsertNatives, Register, Conflict, PodKnows
  <2>2. PodKnows(p)' /\ Pending(p)' /\ Whole(Natives)' /\ Whole(Tokens)'
    BY <1>0, <2>1 DEF PodKnows, Pending, Whole, Found
  <2>3. registered' \subseteq Natives \cup Tokens
    BY <1>0, <2>1 DEF Found
  <2> QED
    BY <1>0, <1>4, <2>1, <2>2, <2>3, RegistryPod DEF InsertNatives, Register
<1>5. CASE LookTokens(p)
  <2>1. /\ missing'[p] = Tokens \ registered /\ stage'[p] = "tokens_in"
        /\ registered' = registered /\ troubled' = troubled /\ Natives \subseteq registered
    BY <1>0, <1>5 DEF LookTokens, Look, PodKnows
  <2>2. PodKnows(p)' /\ Pending(p)' /\ Whole(Natives)' /\ Whole(Tokens)'
    BY <1>0, <2>1 DEF PodKnows, Pending, Whole, Found
  <2> QED
    BY <1>0, <1>5, <2>1, <2>2, RegistryPod DEF LookTokens, Look
<1>6. CASE InsertTokens(p)
  <2>1. /\ stage'[p] = "boot" /\ registered' = registered \cup missing[p]
        /\ missing[p] \cap registered = {} /\ troubled' = troubled /\ Found(p, Tokens)
        /\ Natives \subseteq registered
    BY <1>0, <1>6 DEF InsertTokens, Register, Conflict, PodKnows
  <2>2. PodKnows(p)' /\ Tokens \subseteq registered' /\ Whole(Natives)' /\ Whole(Tokens)'
    BY <1>0, <2>1 DEF PodKnows, Whole, Found
  <2>3. registered' \subseteq Natives \cup Tokens
    BY <1>0, <2>1 DEF Found
  <2> QED
    BY <1>0, <1>6, <2>1, <2>2, <2>3, RegistryPod DEF InsertTokens, Register
<1>7. CASE RegistryGivesUp(p)
  <2>1. /\ missing[p] \cap registered # {} /\ registered' = registered /\ missing' = missing
        /\ troubled' = troubled /\ stage' = [stage EXCEPT ![p] = "boot"]
    BY <1>7 DEF RegistryGivesUp, GiveUp, Conflict, registry
  <2>2. stage'[p] = "boot" /\ Whole(Natives)' /\ Whole(Tokens)'
    BY <1>0, <2>1 DEF Whole
  <2>3. CASE stage[p] = "natives_in"
    <3>1. Natives \subseteq registered /\ missing[p] # {}
      BY <1>0, <2>1, <2>3 DEF PodKnows, Found, Whole
    <3>2. PodKnows(p)' /\ (Pending(p) => Pending(p)')
      BY <2>1, <2>2, <2>3, <3>1 DEF PodKnows, Pending
    <3> QED
      BY <1>0, <2>1, <2>2, <3>1, <3>2, RegistryPod
  <2>4. CASE stage[p] = "tokens_in"
    <3>1. Natives \subseteq registered /\ Tokens \subseteq registered
      BY <1>0, <2>1, <2>4 DEF PodKnows, Found, Whole
    <3>2. PodKnows(p)'
      BY <2>1, <2>2, <3>1 DEF PodKnows
    <3> QED
      BY <1>0, <2>1, <2>2, <3>1, <3>2, RegistryPod
  <2> QED
    BY <1>7, <2>3, <2>4 DEF RegistryGivesUp
<1>8. CASE BootStep(p) \/ BootTrouble(p)
  <2>1. /\ registered' = registered /\ missing' = missing /\ stage[p] = "boot"
        /\ stage'[p] \in {"up", "boot"} /\ troubled' \in {troubled, troubled \cup {p}}
        /\ stage' = [stage EXCEPT ![p] = stage'[p]]
    BY <1>0, <1>8 DEF BootStep, BootTrouble, registry
  <2>2. /\ PodKnows(p)' /\ (Pending(p) => Pending(p)')
        /\ Whole(Natives)' /\ Whole(Tokens)'
    BY <1>0, <2>1 DEF PodKnows, Pending, Whole
  <2>3. Natives \subseteq registered' => Natives \subseteq registered
    BY <2>1
  <2> QED
    BY <1>0, <2>1, <2>2, <2>3, RegistryPod
<1>9. CASE Crash(p)
  <2>1. /\ registered' = registered /\ missing' = [missing EXCEPT ![p] = {}]
        /\ stage' = [stage EXCEPT ![p] = "down"] /\ troubled' = troubled
    BY <1>9 DEF Crash
  <2>2. PodKnows(p)' /\ Pending(p)' /\ Whole(Natives)' /\ Whole(Tokens)'
    BY <1>0, <2>1 DEF PodKnows, Pending, Whole
  <2> QED
    BY <1>0, <2>1, <2>2, RegistryPod
<1> QED
  BY <1>1, <1>2, <1>3, <1>4, <1>5, <1>6, <1>7, <1>8, <1>9 DEF StartStep

LEMMA RegistryKept == RegInv /\ [Next]_vars => RegInv'
<1> SUFFICES ASSUME RegInv, [Next]_vars PROVE RegInv'
  OBVIOUS
<1>1. CASE \E p \in Pods : StartStep(p) \/ FetchFails(p) \/ BootTrouble(p) \/ Crash(p)
  BY <1>1, PodStepsKeepRegistry
<1>2. CASE \E r \in Requests : AdminRequest(r) \/ ActivateRequest(r) \/ EnsureRequest(r)
                                 \/ RequestStep(r) \/ RequestDropped(r)
  BY <1>2, RegistryIdle
     DEF AdminRequest, ActivateRequest, EnsureRequest, RequestStep, RequestDropped, pods
<1>3. CASE \E t \in Tasks : RefreshBegins(t) \/ RefreshWithoutRedis(t) \/ RefreshEnds(t)
  BY <1>3, RegistryIdle DEF RefreshBegins, RefreshWithoutRedis, RefreshEnds, pods
<1>4. CASE KeyExpires
  BY <1>4, RegistryIdle DEF KeyExpires, pods
<1>5. CASE UNCHANGED vars
  BY <1>5, RegistryIdle DEF vars, pods
<1> QED
  BY <1>1, <1>2, <1>3, <1>4, <1>5 DEF Next

LEMMA RegistryEnough == RegInv => RegistryComplete
BY StartUpAssumption
   DEF RegInv, RegistryComplete, PodKnows, TokensDue, Pending, StartUpAssumption

(* When all pods are up and none had trouble with its sources, every asset is registered,
   however many pods there are, whichever of them lost a race and whichever crashed
   (fireblocks/sync.py:86-290). *)
THEOREM RegistryIsComplete == Spec => []RegistryComplete
BY RegistryStarts, RegistryKept, RegistryEnough, PTL DEF Spec
=============================================================================
