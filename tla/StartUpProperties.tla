-------------------------- MODULE StartUpProperties --------------------------
(* What the module StartUp is checked for; OneRefresher is in DistributedLock. *)
EXTENDS StartUp

(* A refresh begins again and again, though a pod may crash with the lock in
   hand: the key goes after its time to live (services/asset_sync.py:12,
   redis_client.py:125). *)
RefreshGoesOn ==
  (\A t \in Tasks : "refresh" \in may[t]) => []<>(refreshing # {})

(* Several pods register the same assets at once, all but one of them fail on the
   unique constraint, and any of them may crash between the coins and the tokens.
   When all are up and none had trouble with its sources, nothing is missing
   (fireblocks/sync.py:86-290, "we do not fail the start"). *)
RegistryComplete ==
  (\A p \in Pods : stage[p] = "up") /\ troubled = {} => registered = Natives \cup Tokens

(* However many pods start at once, and whatever administrators created, promoted
   or imported before, no type has two primary vaults: every query for the primary
   expects at most one and fails for good on two (treasury_bootstrap.py:28-116,
   api/treasury.py:54-63, 346-361). *)
OnePrimary == \A ty \in Types \cup {"hot"} : Cardinality(Primaries(ty)) <= 1

(* A pod that comes up leaves a primary HOT vault, also when another pod or an
   earlier start of its own died between the account and its row; unless Fireblocks
   failed it, there are several HOT vaults to choose from, or an administrator has
   made HOT_DEFAULT a vault of another type, in whose row the insert ends
   (treasury_bootstrap.py:28-116). *)
PrimaryAtBoot ==
  [][\A p \in Pods :
       stage[p] = "boot" /\ stage'[p] = "up" /\ p \notin troubled' =>
         \/ Primaries("hot")' # {} \/ Cardinality(OfType("hot")') > 1
         \/ vaults'[Default] # None /\ vaults'[Default].type # "hot"]_vars

(* An import that reports no error has a row for every account it has listed, though
   others insert the same rows meanwhile and one failed insert rolls back all that
   were flushed before it (api/treasury.py:757-797). *)
CleanImport ==
  [][\A r \in Requests :
       desk[r].op = "import" /\ desk[r].todo = {} /\ desk[r].clean /\ ImportCommit(r) =>
         \A n \in desk[r].listed : vaults'[n] # None]_vars

(* A wallet that is stored belongs to a stored vault in which Fireblocks has the
   asset activated, whatever fails, races or is rolled back in between
   (dao/asset.py:51-154).  Its address may still be the empty string (103-116). *)
WalletBacked ==
  \A n \in Names : wallets[n] > 0 => vaults[n] # None /\ n \in active
=============================================================================
