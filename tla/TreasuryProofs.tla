---------------------------- MODULE TreasuryProofs ----------------------------
(***************************************************************************)
(* Theorems about the vaults of StartUp: what a stored wallet stands on,   *)
(* what an import leaves stored, that no type has two primaries and that a *)
(* pod's start leaves one, for every number of pods, requests, accounts    *)
(* and mishaps.                                                            *)
(***************************************************************************)
EXTENDS StartUpProperties, FiniteSetTheorems, TLAPS

-----------------------------------------------------------------------------
(* Rows and what sessions know of them. *)

Row == [type : STRING, primary : BOOLEAN]

Ops ==
  {"idle", "boot_write", "boot_account", "boot_insert", "create_account", "create_flush",
   "create_assets", "create_commit", "patch", "import", "import_flush", "activate",
   "activate_commit"}

Desk ==
  [op : Ops, name : Names, type : STRING, primary : BOOLEAN, was : BOOLEAN,
   unset : SUBSET Names, todo : SUBSET Names, listed : SUBSET Names, clean : BOOLEAN,
   added : SUBSET Names, holds : BOOLEAN]

Typed ==
  /\ accounts \subseteq Names
  /\ vaults \in [Names -> Row \cup {None}]
  /\ wallets \in [Names -> Nat]
  /\ desk \in [Desks -> Desk]

(* What a session has loaded is stored, what it has flushed is not yet, and a wallet it
   is about to add has been activated. *)
Sound(s) ==
  /\ desk[s].op \in {"boot_write", "patch", "activate", "activate_commit"}
       => vaults[desk[s].name] # None
  /\ \A n \in desk[s].unset : vaults[n] # None
  /\ \A n \in desk[s].added : vaults[n] = None
  /\ desk[s].op \in {"create_assets", "create_commit"} => desk[s].added = {desk[s].name}
  /\ desk[s].holds => desk[s].op \in {"create_commit", "activate_commit"} /\ desk[s].name \in active

Apart == \A s, z \in Desks : s # z => desk[s].added \cap desk[z].added = {}

RowsInv ==
  /\ Typed
  /\ \A s \in Desks : Sound(s)
  /\ Apart
  /\ WalletBacked

\* Session s is the only one that moves, and no row goes or changes its type.
Only(s) == desk' \in [Desks -> Desk] /\ \A z \in Desks \ {s} : desk'[z] = desk[z]
RowsStay ==
  /\ vaults' \in [Names -> Row \cup {None}]
  /\ \A n \in Names : vaults[n] # None => vaults'[n] # None /\ vaults'[n].type = vaults[n].type

LEMMA NoneIsNoRow ==
  None \notin Row /\ Default \in Names /\ Boots \cap Requests = {} /\ "hot" \in STRING
BY TreasuryAssumption DEF TreasuryAssumption, Row

LEMMA IdleIsDesk == Idle \in Desk /\ Idle.op = "idle" /\ Idle.added = {}
BY NoneIsNoRow DEF Idle, Desk, Ops

LEMMA RowsStart == Init => RowsInv
<1> SUFFICES ASSUME Init PROVE RowsInv
  OBVIOUS
<1>1. Typed
  BY IdleIsDesk DEF Init, TreasuryInit, Typed
<1>2. \A s \in Desks : Sound(s)
  BY DEF Init, TreasuryInit, Sound, Idle
<1>3. Apart
  BY DEF Init, TreasuryInit, Apart, Idle
<1>4. WalletBacked
  BY DEF Init, TreasuryInit, WalletBacked
<1> QED
  BY <1>1, <1>2, <1>3, <1>4 DEF RowsInv

LEMMA RowsStep ==
  ASSUME RowsInv, NEW s \in Desks, Only(s), RowsStay,
         accounts' \subseteq Names, active \subseteq active', wallets' \in [Names -> Nat],
         \A n \in Names : vaults[n] = None /\ vaults'[n] # None =>
           \A z \in Desks \ {s} : n \notin desk[z].added,
         Sound(s)', WalletBacked',
         \A z \in Desks \ {s} : desk'[s].added \cap desk[z].added = {}
  PROVE  RowsInv'
<1>1. Typed'
  BY DEF Typed, Only, RowsStay
<1>2. ASSUME NEW z \in Desks, z # s PROVE Sound(z)'
  <2>1. desk'[z] = desk[z] /\ Sound(z) /\ desk[z] \in Desk
    BY <1>2 DEF Only, RowsInv, Typed
  <2>2. desk[z].name \in Names /\ desk[z].unset \subseteq Names /\ desk[z].added \subseteq Names
    BY <2>1 DEF Desk
  <2> QED
    BY <1>2, <2>1, <2>2 DEF Sound, RowsStay
<1>3. Apart'
  <2> SUFFICES ASSUME NEW x \in Desks, NEW z \in Desks, x # z
               PROVE  desk'[x].added \cap desk'[z].added = {}
    BY DEF Apart
  <2>1. CASE x = s
    BY <2>1 DEF Only
  <2>2. CASE z = s
    BY <2>2 DEF Only
  <2>3. CASE x # s /\ z # s
    BY <2>3 DEF Only, RowsInv, Apart
  <2> QED
    BY <2>1, <2>2, <2>3
<1> QED
  BY <1>1, <1>2, <1>3 DEF RowsInv

(* A step that stores nothing. *)
LEMMA DeskStep ==
  ASSUME RowsInv, NEW s \in Desks, Only(s), vaults' = vaults, wallets' = wallets,
         accounts' \subseteq Names, active \subseteq active', Sound(s)',
         \A z \in Desks \ {s} : desk'[s].added \cap desk[z].added = {}
  PROVE  RowsInv' /\ RowsStay
<1>1. RowsStay /\ wallets' \in [Names -> Nat]
  BY DEF RowsInv, Typed, RowsStay
<1>2. WalletBacked'
  BY DEF RowsInv, WalletBacked
<1> QED
  BY <1>1, <1>2, RowsStep

LEMMA Leaving ==
  ASSUME RowsInv, NEW s \in Desks, Leave(s)
  PROVE  /\ Only(s) /\ desk'[s] = Idle /\ Sound(s)'
         /\ \A z \in Desks \ {s} : desk'[s].added \cap desk[z].added = {}
<1>1. desk'[s] = Idle /\ Only(s)
  BY IdleIsDesk DEF Leave, RowsInv, Typed, Only
<1>2. Sound(s)'
  BY <1>1 DEF Sound, Idle
<1> QED
  BY <1>1, <1>2 DEF Idle

LEMMA LeaveStep ==
  ASSUME RowsInv, NEW s \in Desks, Leave(s), vaults' = vaults, wallets' = wallets,
         accounts' \subseteq Names, active \subseteq active'
  PROVE  RowsInv' /\ RowsStay /\ Only(s)
BY Leaving, DeskStep

LEMMA Going ==
  ASSUME RowsInv, NEW s \in Desks, NEW o \in Ops, Goes(s, o)
  PROVE  Only(s) /\ desk'[s] = [desk[s] EXCEPT !.op = o]
BY DEF Goes, RowsInv, Typed, Only, Desk

LEMMA Moving ==
  ASSUME RowsInv, NEW s \in Desks, NEW e \in Desk, desk' = [desk EXCEPT ![s] = e]
  PROVE  Only(s) /\ desk'[s] = e
BY DEF RowsInv, Typed, Only

LEMMA DeskOf ==
  ASSUME RowsInv, NEW s \in Desks
  PROVE  /\ desk[s] \in Desk /\ Sound(s)
         /\ \A z \in Desks \ {s} : desk[s].added \cap desk[z].added = {}
BY DEF RowsInv, Typed, Apart

-----------------------------------------------------------------------------
(* The steps of a start. *)

LEMMA BootKeepsRows ==
  ASSUME RowsInv, NEW p \in Boots, BootAction(p) \/ BootRefused(p)
  PROVE  RowsInv' /\ Only(p) /\ RowsStay
<1> USE DEF Lost
<1>0. p \in Desks /\ accounts \subseteq Names /\ Default \in Names
  BY NoneIsNoRow DEF Desks, RowsInv, Typed
<1>1. CASE BootFound(p)
  BY <1>0, <1>1, LeaveStep DEF BootFound
<1>2. CASE BootPromotes(p)
  <2>1. PICK n \in OfType("hot") :
          desk' = [desk EXCEPT ![p].op = "boot_write", ![p].name = n]
    BY <1>2 DEF BootPromotes
  <2>2. n \in Names /\ vaults[n] # None
    BY DEF OfType
  <2>0. desk[p] \in Desk /\ [desk[p] EXCEPT !.op = "boot_write", !.name = n] \in Desk
    BY <1>0, <2>2, DeskOf DEF Desk, Ops
  <2>a. desk' = [desk EXCEPT ![p] = [desk[p] EXCEPT !.op = "boot_write", !.name = n]]
    BY <1>0, <2>1 DEF RowsInv, Typed
  <2>3. Only(p) /\ desk'[p] = [desk[p] EXCEPT !.op = "boot_write", !.name = n]
    BY <1>0, <2>0, <2>a, Moving
  <2>4. Sound(p)' /\ \A z \in Desks \ {p} : desk'[p].added \cap desk[z].added = {}
    BY <1>0, <1>2, <2>2, <2>3, DeskOf DEF BootPromotes, Sound, Desk
  <2> QED
    BY <1>0, <1>2, <2>3, <2>4, DeskStep DEF BootPromotes
<1>3. CASE BootWrite(p)
  <2>1. desk[p].name \in Names /\ vaults[desk[p].name] \in Row /\ vaults[desk[p].name] # None
    BY <1>0, <1>3, DeskOf DEF BootWrite, Sound, Desk, RowsInv, Typed
  <2>2. /\ RowsStay
        /\ \A n \in Names : vaults'[n] # None => vaults[n] # None
    BY <1>3, <2>1, NoneIsNoRow DEF BootWrite, RowsStay, RowsInv, Typed, Row
  <2>3. WalletBacked' /\ wallets' = wallets /\ active' = active /\ accounts' = accounts
    BY <1>3, <2>2 DEF BootWrite, WalletBacked, RowsInv, RowsStay
  <2> QED
    BY <1>0, <1>3, <2>2, <2>3, Leaving, RowsStep DEF BootWrite, RowsInv, Typed
<1>4. CASE BootMissing(p)
  <2>1. Only(p) /\ desk'[p] = [desk[p] EXCEPT !.op = "boot_account"]
    BY <1>0, <1>4, Going DEF BootMissing, Ops
  <2>2. Sound(p)' /\ \A z \in Desks \ {p} : desk'[p].added \cap desk[z].added = {}
    BY <1>0, <1>4, <2>1, DeskOf DEF BootMissing, Sound, Desk
  <2> QED
    BY <1>0, <1>4, <2>1, <2>2, DeskStep DEF BootMissing
<1>5. CASE BootAccount(p)
  <2>1. Only(p) /\ desk'[p] = [desk[p] EXCEPT !.op = "boot_insert"]
    BY <1>0, <1>5, Going DEF BootAccount, Ops
  <2>2. Sound(p)' /\ \A z \in Desks \ {p} : desk'[p].added \cap desk[z].added = {}
    BY <1>0, <1>5, <2>1, DeskOf DEF BootAccount, Sound, Desk
  <2> QED
    BY <1>0, <1>5, <2>1, <2>2, DeskStep DEF BootAccount
<1>6. CASE BootInsert(p)
  <2>1. /\ RowsStay
        /\ \A n \in Names : vaults[n] = None /\ vaults'[n] # None =>
             \A z \in Desks \ {p} : n \notin desk[z].added
    BY <1>0, <1>6, NoneIsNoRow DEF BootInsert, Unlocked, RowsStay, RowsInv, Typed, Row
  <2>2. WalletBacked' /\ wallets' = wallets /\ active' = active /\ accounts' = accounts
    BY <1>6, <2>1 DEF BootInsert, WalletBacked, RowsInv, RowsStay
  <2> QED
    BY <1>0, <1>6, <2>1, <2>2, Leaving, RowsStep DEF BootInsert, RowsInv, Typed
<1>7. CASE BootRefused(p)
  BY <1>0, <1>7, LeaveStep DEF BootRefused
<1> QED
  BY <1>1, <1>2, <1>3, <1>4, <1>5, <1>6, <1>7 DEF BootAction

-----------------------------------------------------------------------------
(* The steps of requests. *)

LEMMA BeginsKeepsRows ==
  ASSUME RowsInv, NEW r \in Desks, NEW kinds, AdminBegins(r, kinds)
  PROVE  RowsInv' /\ Only(r) /\ RowsStay
<1>0. /\ desk[r] \in Desk /\ Sound(r) /\ accounts \subseteq Names
      /\ \A z \in Desks \ {r} : desk[r].added \cap desk[z].added = {}
  BY DeskOf DEF RowsInv, Typed
<1>1. ASSUME NEW n \in Names, NEW ty \in Types, NEW b \in BOOLEAN, CreateVault(r, n, ty, b)
      PROVE  RowsInv' /\ Only(r) /\ RowsStay
  <2> DEFINE u == IF b THEN Primaries(ty) ELSE {}
             e == [desk[r] EXCEPT !.op = "create_account", !.name = n, !.type = ty,
                                  !.primary = b, !.unset = u]
  <2>1. u \subseteq Names /\ \A o \in u : vaults[o] # None
    BY DEF Primaries, OfType
  <2>2. ty \in STRING
    BY TreasuryAssumption DEF TreasuryAssumption
  <2>3. e \in Desk
    BY <1>0, <2>1, <2>2 DEF Desk, Ops
  <2>4. desk' = [desk EXCEPT ![r] = e]
    BY <1>1 DEF CreateVault, RowsInv, Typed
  <2>5. Only(r) /\ desk'[r] = e
    BY <2>3, <2>4, Moving
  <2>7. /\ desk'[r].op = "create_account" /\ desk'[r].name = n
        /\ desk'[r].unset = u /\ desk'[r].added = desk[r].added
        /\ desk'[r].holds = desk[r].holds
    BY <1>0, <2>5 DEF Desk
  <2> HIDE DEF e, u
  <2>6. Sound(r)' /\ \A z \in Desks \ {r} : desk'[r].added \cap desk[z].added = {}
    BY <1>0, <1>1, <2>1, <2>7 DEF CreateVault, Sound
  <2> QED
    BY <1>0, <1>1, <2>5, <2>6, DeskStep DEF CreateVault
<1>2. ASSUME NEW n \in Names, NEW b \in BOOLEAN, PatchVault(r, n, b)
      PROVE  RowsInv' /\ Only(r) /\ RowsStay
  <2> DEFINE u == IF b THEN Primaries(vaults[n].type) \ {n} ELSE {}
             e == [desk[r] EXCEPT !.op = "patch", !.name = n, !.primary = b,
                                  !.was = vaults[n].primary, !.unset = u]
  <2>1. u \subseteq Names /\ \A o \in u : vaults[o] # None
    BY DEF Primaries, OfType
  <2>2. vaults[n] \in Row /\ vaults[n] # None
    BY <1>2 DEF PatchVault, RowsInv, Typed
  <2>3. e \in Desk
    BY <1>0, <2>1, <2>2 DEF Desk, Ops, Row
  <2>4. desk' = [desk EXCEPT ![r] = e]
    BY <1>2 DEF PatchVault, RowsInv, Typed
  <2>5. Only(r) /\ desk'[r] = e
    BY <2>3, <2>4, Moving
  <2>7. /\ desk'[r].op = "patch" /\ desk'[r].name = n
        /\ desk'[r].unset = u /\ desk'[r].added = desk[r].added
        /\ desk'[r].holds = desk[r].holds
    BY <1>0, <2>5 DEF Desk
  <2> HIDE DEF e, u
  <2>6. Sound(r)' /\ \A z \in Desks \ {r} : desk'[r].added \cap desk[z].added = {}
    BY <1>0, <1>2, <2>1, <2>2, <2>7 DEF PatchVault, Sound
  <2> QED
    BY <1>0, <1>2, <2>5, <2>6, DeskStep DEF PatchVault
<1>3. ASSUME ImportList(r) PROVE RowsInv' /\ Only(r) /\ RowsStay
  <2> DEFINE e == [desk[r] EXCEPT !.op = "import", !.todo = accounts, !.listed = accounts]
  <2>3. e \in Desk
    BY <1>0 DEF Desk, Ops
  <2>4. desk' = [desk EXCEPT ![r] = e]
    BY <1>3 DEF ImportList, RowsInv, Typed
  <2>5. Only(r) /\ desk'[r] = e
    BY <2>3, <2>4, Moving
  <2>7. /\ desk'[r].op = "import" /\ desk'[r].name = desk[r].name
        /\ desk'[r].unset = desk[r].unset /\ desk'[r].added = desk[r].added
        /\ desk'[r].holds = desk[r].holds
    BY <1>0, <2>5 DEF Desk
  <2>6. Sound(r)' /\ \A z \in Desks \ {r} : desk'[r].added \cap desk[z].added = {}
    BY <1>0, <1>3, <2>7 DEF ImportList, Sound
  <2> QED
    BY <1>0, <1>3, <2>5, <2>6, DeskStep DEF ImportList
<1> QED
  BY <1>1, <1>2, <1>3 DEF AdminBegins

LEMMA ActivateKeepsRows ==
  ASSUME RowsInv, NEW r \in Desks,
         \/ \E n \in Names, known \in BOOLEAN : ActivateLook(r, n, known)
         \/ ActivateCall(r) \/ ActivateRefused(r) \/ ActivateCommit(r)
  PROVE  RowsInv' /\ Only(r) /\ RowsStay
<1>0. /\ desk[r] \in Desk /\ Sound(r) /\ accounts \subseteq Names
      /\ \A z \in Desks \ {r} : desk[r].added \cap desk[z].added = {}
  BY DeskOf DEF RowsInv, Typed
<1>1. ASSUME NEW n \in Names, NEW known \in BOOLEAN, ActivateLook(r, n, known)
      PROVE  RowsInv' /\ Only(r) /\ RowsStay
  <2> DEFINE e == [desk[r] EXCEPT !.op = "activate", !.name = n]
  <2>3. e \in Desk
    BY <1>0 DEF Desk, Ops
  <2>4. desk' = [desk EXCEPT ![r] = e]
    BY <1>1 DEF ActivateLook, RowsInv, Typed
  <2>5. Only(r) /\ desk'[r] = e
    BY <2>3, <2>4, Moving
  <2>7. /\ desk'[r].op = "activate" /\ desk'[r].name = n
        /\ desk'[r].unset = desk[r].unset /\ desk'[r].added = desk[r].added
        /\ desk'[r].holds = desk[r].holds
    BY <1>0, <2>5 DEF Desk
  <2>6. Sound(r)' /\ \A z \in Desks \ {r} : desk'[r].added \cap desk[z].added = {}
    BY <1>0, <1>1, <2>7 DEF ActivateLook, Sound
  <2> QED
    BY <1>0, <1>1, <2>5, <2>6, DeskStep DEF ActivateLook
<1>2. CASE ActivateCall(r) /\ wallets[desk[r].name] > 1
  BY <1>0, <1>2, LeaveStep DEF ActivateCall
<1>3. CASE ActivateCall(r) /\ ~(wallets[desk[r].name] > 1)
  <2> DEFINE e == [desk[r] EXCEPT !.op = "activate_commit",
                                  !.holds = (wallets[desk[r].name] = 0)]
  <2>1. /\ desk' = [desk EXCEPT ![r].op = "activate_commit",
                                ![r].holds = (wallets[desk[r].name] = 0)]
        /\ active' = active \cup {desk[r].name}
        /\ UNCHANGED <<accounts, vaults, wallets>> /\ desk[r].op = "activate"
    BY <1>3 DEF ActivateCall
  <2>3. e \in Desk
    BY <1>0 DEF Desk, Ops
  <2>4. desk' = [desk EXCEPT ![r] = e]
    BY <2>1 DEF RowsInv, Typed
  <2>5. Only(r) /\ desk'[r] = e
    BY <2>3, <2>4, Moving
  <2>7. /\ desk'[r].op = "activate_commit" /\ desk'[r].name = desk[r].name
        /\ desk'[r].unset = desk[r].unset /\ desk'[r].added = desk[r].added
    BY <1>0, <2>5 DEF Desk
  <2>8. vaults' = vaults /\ active' = active \cup {desk[r].name} /\ desk[r].op = "activate"
    BY <2>1
  <2>6. Sound(r)' /\ \A z \in Desks \ {r} : desk'[r].added \cap desk[z].added = {}
    BY <1>0, <2>7, <2>8 DEF Sound
  <2> QED
    BY <1>0, <2>1, <2>5, <2>6, DeskStep
<1>4. CASE ActivateRefused(r)
  BY <1>0, <1>4, LeaveStep DEF ActivateRefused, Lost
<1>5. CASE ActivateCommit(r)
  <2> DEFINE n == desk[r].name
  <2>1. n \in Names /\ vaults[n] # None /\ (desk[r].holds => n \in active)
    BY <1>0, <1>5 DEF ActivateCommit, Desk, Sound
  <2>2. /\ wallets' \in [Names -> Nat]
        /\ \A o \in Names : wallets'[o] > 0 => wallets[o] > 0 \/ (o = n /\ desk[r].holds)
    BY <1>5, <2>1 DEF ActivateCommit, RowsInv, Typed
  <2>3. WalletBacked'
    BY <1>5, <2>1, <2>2 DEF ActivateCommit, WalletBacked, RowsInv
  <2>4. RowsStay
    BY <1>5 DEF ActivateCommit, RowsStay, RowsInv, Typed
  <2> QED
    BY <1>0, <1>5, <2>2, <2>3, <2>4, Leaving, RowsStep DEF ActivateCommit
<1> QED
  BY <1>1, <1>2, <1>3, <1>4, <1>5

LEMMA CreateKeepsRows ==
  ASSUME RowsInv, NEW r \in Desks, NEW known \in BOOLEAN,
         CreateAccount(r) \/ CreateFlush(r) \/ CreateAssets(r, known) \/ CreateCommit(r)
  PROVE  RowsInv' /\ Only(r) /\ RowsStay
<1> DEFINE n == desk[r].name
<1>0. /\ desk[r] \in Desk /\ Sound(r) /\ accounts \subseteq Names /\ n \in Names
      /\ \A z \in Desks \ {r} : desk[r].added \cap desk[z].added = {}
  BY DeskOf DEF RowsInv, Typed, Desk
<1>1. CASE CreateAccount(r) /\ n \in accounts
  BY <1>0, <1>1, LeaveStep DEF CreateAccount
<1>2. CASE CreateAccount(r) /\ n \notin accounts
  <2>1. Only(r) /\ desk'[r] = [desk[r] EXCEPT !.op = "create_flush"]
    BY <1>2, Going DEF CreateAccount, Ops
  <2>2. Sound(r)' /\ \A z \in Desks \ {r} : desk'[r].added \cap desk[z].added = {}
    BY <1>0, <1>2, <2>1 DEF CreateAccount, Sound, Desk
  <2> QED
    BY <1>0, <1>2, <2>1, <2>2, DeskStep DEF CreateAccount
<1>3. CASE CreateFlush(r) /\ vaults[n] # None
  BY <1>0, <1>3, LeaveStep DEF CreateFlush
<1>4. CASE CreateFlush(r) /\ vaults[n] = None
  <2> DEFINE e == [desk[r] EXCEPT !.op = "create_assets", !.added = {n}]
  <2>1. /\ desk' = [desk EXCEPT ![r].op = "create_assets", ![r].added = {n}]
        /\ UNCHANGED <<accounts, active, vaults, wallets>> /\ desk[r].op = "create_flush"
        /\ Unlocked(r, n)
    BY <1>4 DEF CreateFlush
  <2>3. e \in Desk
    BY <1>0 DEF Desk, Ops
  <2>4. desk' = [desk EXCEPT ![r] = e]
    BY <2>1 DEF RowsInv, Typed
  <2>5. Only(r) /\ desk'[r] = e
    BY <2>3, <2>4, Moving
  <2>7. /\ desk'[r].op = "create_assets" /\ desk'[r].name = n
        /\ desk'[r].unset = desk[r].unset /\ desk'[r].added = {n}
        /\ desk'[r].holds = desk[r].holds
    BY <1>0, <2>5 DEF Desk
  <2>8. vaults' = vaults /\ active' = active /\ desk[r].op = "create_flush"
    BY <2>1
  <2>9. Sound(r)'
    BY <1>0, <1>4, <2>7, <2>8 DEF Sound
  <2>10. \A z \in Desks \ {r} : desk'[r].added \cap desk[z].added = {}
    BY <2>1, <2>7 DEF Unlocked
  <2> QED
    BY <1>0, <2>1, <2>5, <2>9, <2>10, DeskStep
<1>5. CASE CreateAssets(r, known)
  <2> DEFINE e == [desk[r] EXCEPT !.op = "create_commit", !.holds = TRUE]
  <2>1. CASE Goes(r, "create_commit") /\ UNCHANGED active
    <3>1. Only(r) /\ desk'[r] = [desk[r] EXCEPT !.op = "create_commit"]
      BY <2>1, Going DEF Ops
    <3>2. Sound(r)' /\ \A z \in Desks \ {r} : desk'[r].added \cap desk[z].added = {}
      BY <1>0, <1>5, <2>1, <3>1 DEF CreateAssets, Sound, Desk
    <3> QED
      BY <1>0, <1>5, <2>1, <3>1, <3>2, DeskStep DEF CreateAssets
  <2>2. CASE /\ active' = active \cup {n}
             /\ desk' = [desk EXCEPT ![r].op = "create_commit", ![r].holds = TRUE]
    <3>3. e \in Desk
      BY <1>0 DEF Desk, Ops
    <3>4. desk' = [desk EXCEPT ![r] = e]
      BY <2>2 DEF RowsInv, Typed
    <3>5. Only(r) /\ desk'[r] = e
      BY <3>3, <3>4, Moving
    <3>7. /\ desk'[r].op = "create_commit" /\ desk'[r].name = n
          /\ desk'[r].unset = desk[r].unset /\ desk'[r].added = desk[r].added
      BY <1>0, <3>5 DEF Desk
    <3>8. vaults' = vaults /\ active' = active \cup {n} /\ desk[r].op = "create_assets"
      BY <1>5, <2>2 DEF CreateAssets
    <3>9. Sound(r)' /\ \A z \in Desks \ {r} : desk'[r].added \cap desk[z].added = {}
      BY <1>0, <3>7, <3>8 DEF Sound
    <3> QED
      BY <1>0, <1>5, <3>5, <3>8, <3>9, DeskStep DEF CreateAssets
  <2> QED
    BY <1>5, <2>1, <2>2 DEF CreateAssets
<1>6. CASE CreateCommit(r)
  <2>0. /\ desk[r].added = {n} /\ vaults[n] = None
        /\ [type |-> desk[r].type, primary |-> desk[r].primary] \in Row
    BY <1>0, <1>6 DEF CreateCommit, Sound, Desk, Row
  <2>1. /\ vaults' = [o \in Names |->
             IF o = n THEN [type |-> desk[r].type, primary |-> desk[r].primary]
               ELSE IF o \in desk[r].unset THEN [vaults[o] EXCEPT !.primary = FALSE] ELSE vaults[o]]
        /\ wallets' = IF desk[r].holds THEN [wallets EXCEPT ![n] = @ + 1] ELSE wallets
        /\ Leave(r) /\ UNCHANGED <<accounts, active>>
    BY <1>6 DEF CreateCommit
  <2>2. \A o \in desk[r].unset : o \in Names /\ vaults[o] \in Row
    BY <1>0 DEF Sound, Desk, RowsInv, Typed
  <2>3. RowsStay /\ \A o \in Names : vaults[o] = None /\ vaults'[o] # None => o = n
    BY <2>0, <2>1, <2>2, NoneIsNoRow DEF RowsStay, RowsInv, Typed, Row
  <2>4. \A o \in Names : vaults[o] = None /\ vaults'[o] # None =>
          \A z \in Desks \ {r} : o \notin desk[z].added
    BY <1>0, <2>0, <2>3
  <2>5. /\ wallets' \in [Names -> Nat]
        /\ \A o \in Names : wallets'[o] > 0 => wallets[o] > 0 \/ (o = n /\ desk[r].holds)
    BY <1>0, <2>1 DEF RowsInv, Typed
  <2>6. vaults'[n] # None /\ (desk[r].holds => n \in active)
    BY <1>0, <2>0, <2>1, NoneIsNoRow DEF Sound
  <2>7. WalletBacked'
    BY <2>1, <2>3, <2>5, <2>6 DEF WalletBacked, RowsInv, RowsStay
  <2> QED
    BY <1>0, <2>1, <2>3, <2>4, <2>5, <2>7, Leaving, RowsStep
<1> QED
  BY <1>1, <1>2, <1>3, <1>4, <1>5, <1>6 DEF CreateFlush

LEMMA PatchKeepsRows ==
  ASSUME RowsInv, NEW r \in Desks, PatchCommit(r)
  PROVE  RowsInv' /\ Only(r) /\ RowsStay
<1> DEFINE n == desk[r].name
<1>0. desk[r] \in Desk /\ Sound(r) /\ accounts \subseteq Names /\ n \in Names
  BY DeskOf DEF RowsInv, Typed, Desk
<1>1. /\ vaults' = [o \in Names |->
           IF o = n /\ desk[r].primary # desk[r].was
             THEN [vaults[o] EXCEPT !.primary = desk[r].primary]
             ELSE IF o \in desk[r].unset THEN [vaults[o] EXCEPT !.primary = FALSE] ELSE vaults[o]]
      /\ Leave(r) /\ UNCHANGED <<accounts, active, wallets>>
  BY DEF PatchCommit
<1>2. /\ vaults[n] \in Row
      /\ \A o \in desk[r].unset : o \in Names /\ vaults[o] \in Row
  BY <1>0 DEF PatchCommit, Sound, Desk, RowsInv, Typed
<1>3. RowsStay /\ \A o \in Names : vaults'[o] # None => vaults[o] # None
  <2>1. vaults \in [Names -> Row \cup {None}] /\ desk[r].primary \in BOOLEAN
    BY <1>0 DEF RowsInv, Typed, Desk
  <2>2. ASSUME NEW o \in Names, vaults[o] \in Row, NEW b \in BOOLEAN
        PROVE  /\ [vaults[o] EXCEPT !.primary = b] \in Row
               /\ [vaults[o] EXCEPT !.primary = b].type = vaults[o].type
    BY <2>2 DEF Row
  <2>3. ASSUME NEW o \in Names
        PROVE  \/ vaults'[o] = vaults[o]
               \/ /\ vaults[o] \in Row /\ vaults'[o] \in Row
                  /\ vaults'[o].type = vaults[o].type
    <3>1. CASE o = n /\ desk[r].primary # desk[r].was
      BY <1>1, <1>2, <2>1, <2>2, <3>1
    <3>2. CASE ~(o = n /\ desk[r].primary # desk[r].was) /\ o \in desk[r].unset
      BY <1>1, <1>2, <2>1, <2>2, <3>2
    <3>3. CASE ~(o = n /\ desk[r].primary # desk[r].was) /\ o \notin desk[r].unset
      BY <1>1, <3>3
    <3> QED
      BY <3>1, <3>2, <3>3
  <2>4. vaults' = [o \in Names |-> vaults'[o]]
    BY <1>1
  <2> QED
    BY <2>1, <2>3, <2>4, NoneIsNoRow DEF RowsStay
<1>4. WalletBacked' /\ wallets' \in [Names -> Nat]
  BY <1>1, <1>3 DEF WalletBacked, RowsInv, RowsStay, Typed
<1> QED
  BY <1>0, <1>1, <1>3, <1>4, Leaving, RowsStep

LEMMA ImportKeepsRows ==
  ASSUME RowsInv, NEW r \in Desks, ImportLook(r) \/ ImportFlush(r) \/ ImportCommit(r)
  PROVE  RowsInv' /\ Only(r) /\ RowsStay
<1>0. /\ desk[r] \in Desk /\ Sound(r) /\ accounts \subseteq Names /\ desk[r].name \in Names
      /\ \A z \in Desks \ {r} : desk[r].added \cap desk[z].added = {}
  BY DeskOf DEF RowsInv, Typed, Desk
<1>1. CASE ImportLook(r)
  <2> DEFINE n == Upcoming(r)
             o == IF vaults[n] = None THEN "import_flush" ELSE "import"
             e == [desk[r] EXCEPT !.todo = @ \ {n}, !.name = n, !.op = o]
  <2>1. n \in desk[r].todo /\ n \in Names
    BY <1>0, <1>1 DEF ImportLook, Upcoming, Desk
  <2>2. o \in Ops
    BY DEF Ops
  <2> HIDE DEF n, o
  <2>3. e \in Desk
    BY <1>0, <2>1, <2>2 DEF Desk
  <2>4. desk' = [desk EXCEPT ![r] = e]
    BY <1>1 DEF ImportLook, RowsInv, Typed, n, o
  <2>5. Only(r) /\ desk'[r] = e
    BY <2>3, <2>4, Moving
  <2>7. /\ desk'[r].op \in {"import", "import_flush"}
        /\ desk'[r].unset = desk[r].unset /\ desk'[r].added = desk[r].added
        /\ desk'[r].holds = desk[r].holds
    BY <1>0, <2>5 DEF Desk, o
  <2>8. vaults' = vaults /\ active' = active /\ desk[r].op = "import"
    BY <1>1 DEF ImportLook
  <2>9. Sound(r)' /\ \A z \in Desks \ {r} : desk'[r].added \cap desk[z].added = {}
    BY <1>0, <2>7, <2>8 DEF Sound
  <2> QED
    BY <1>0, <1>1, <2>5, <2>8, <2>9, DeskStep DEF ImportLook
<1>2. CASE ImportFlush(r)
  <2> DEFINE n == desk[r].name
             a == IF vaults[n] = None THEN desk[r].added \cup {n} ELSE {}
             c == IF vaults[n] = None THEN desk[r].clean ELSE FALSE
             e == [desk[r] EXCEPT !.op = "import", !.added = a, !.clean = c]
  <2>1. a \subseteq Names /\ c \in BOOLEAN
    BY <1>0 DEF Desk
  <2>a. (\A o \in a : vaults[o] = None) /\ \A z \in Desks \ {r} : a \cap desk[z].added = {}
    BY <1>0, <1>2 DEF ImportFlush, Unlocked, Sound
  <2>4. desk' = [desk EXCEPT ![r] = e]
    <3>1. CASE vaults[n] = None
      <4>1. desk' = [desk EXCEPT ![r].op = "import", ![r].added = @ \cup {n}]
        BY <1>2, <3>1 DEF ImportFlush
      <4>2. e = [desk[r] EXCEPT !.op = "import", !.added = @ \cup {n}]
        BY <1>0, <3>1 DEF Desk
      <4> QED
        BY <4>1, <4>2 DEF RowsInv, Typed
    <3>2. CASE vaults[n] # None
      <4>1. desk' = [desk EXCEPT ![r].op = "import", ![r].added = {}, ![r].clean = FALSE]
        BY <1>2, <3>2 DEF ImportFlush
      <4>2. e = [desk[r] EXCEPT !.op = "import", !.added = {}, !.clean = FALSE]
        BY <3>2
      <4> QED
        BY <4>1, <4>2 DEF RowsInv, Typed
    <3> QED
      BY <3>1, <3>2
  <2> HIDE DEF a, c
  <2>3. e \in Desk
    BY <1>0, <2>1 DEF Desk, Ops
  <2>5. Only(r) /\ desk'[r] = e
    BY <2>3, <2>4, Moving
  <2>7. /\ desk'[r].op = "import" /\ desk'[r].unset = desk[r].unset
        /\ desk'[r].added = a /\ desk'[r].holds = desk[r].holds
    BY <1>0, <2>5 DEF Desk
  <2>8. vaults' = vaults /\ active' = active /\ desk[r].op = "import_flush"
    BY <1>2 DEF ImportFlush
  <2>9. Sound(r)' /\ \A z \in Desks \ {r} : desk'[r].added \cap desk[z].added = {}
    BY <1>0, <2>a, <2>7, <2>8 DEF Sound
  <2> QED
    BY <1>0, <1>2, <2>5, <2>8, <2>9, DeskStep DEF ImportFlush
<1>3. CASE ImportCommit(r)
  <2>1. /\ vaults' = [n \in Names |-> IF n \in desk[r].added
                                      THEN [type |-> TypeOf[n], primary |-> FALSE] ELSE vaults[n]]
        /\ Leave(r) /\ UNCHANGED <<accounts, active, wallets>>
    BY <1>3 DEF ImportCommit
  <2>2. \A n \in Names : [type |-> TypeOf[n], primary |-> FALSE] \in Row
    BY TreasuryAssumption DEF TreasuryAssumption, Row
  <2>3. RowsStay /\ \A n \in Names : vaults[n] = None /\ vaults'[n] # None => n \in desk[r].added
    BY <1>0, <2>1, <2>2, NoneIsNoRow DEF RowsStay, RowsInv, Typed, Sound
  <2>4. \A o \in Names : vaults[o] = None /\ vaults'[o] # None =>
          \A z \in Desks \ {r} : o \notin desk[z].added
    BY <1>0, <2>3
  <2>5. WalletBacked' /\ wallets' \in [Names -> Nat]
    BY <2>1, <2>3 DEF WalletBacked, RowsInv, RowsStay, Typed
  <2> QED
    BY <1>0, <2>1, <2>3, <2>4, <2>5, Leaving, RowsStep
<1> QED
  BY <1>1, <1>2, <1>3

-----------------------------------------------------------------------------
(* Every step of StartUp, and the first theorem. *)

LEMMA RequestKeepsRows ==
  ASSUME RowsInv, NEW r \in Requests,
         \/ AdminRequest(r) \/ ActivateRequest(r) \/ EnsureRequest(r)
         \/ RequestStep(r) \/ RequestDropped(r)
  PROVE  RowsInv' /\ Only(r) /\ RowsStay
<1>0. r \in Desks /\ Known \in BOOLEAN
  BY DEF Desks, Known
<1>1. CASE AdminRequest(r)
  BY <1>0, <1>1, BeginsKeepsRows DEF AdminRequest
<1>2. CASE ActivateRequest(r)
  BY <1>0, <1>2, ActivateKeepsRows DEF ActivateRequest
<1>3. CASE EnsureRequest(r)
  <2>1. PICK n \in Servable : ActivateLook(r, n, Known)
    BY <1>3 DEF EnsureRequest, EnsureLook
  <2>2. n \in Names
    BY DEF Servable, Primaries, OfType
  <2> QED
    BY <1>0, <2>1, <2>2, ActivateKeepsRows
<1>4. CASE RequestStep(r)
  BY <1>0, <1>4, CreateKeepsRows, PatchKeepsRows, ImportKeepsRows, ActivateKeepsRows
     DEF RequestStep, Handled
<1>5. CASE RequestDropped(r)
  BY <1>0, <1>5, LeaveStep DEF RequestDropped, Drop, RowsInv, Typed
<1> QED
  BY <1>1, <1>2, <1>3, <1>4, <1>5

LEMMA RowsFrame ==
  ASSUME RowsInv, UNCHANGED treasury
  PROVE  RowsInv'
BY DEF RowsInv, Typed, Sound, Apart, WalletBacked, treasury

LEMMA PodKeepsRows ==
  ASSUME RowsInv, NEW p \in Pods, StartStep(p) \/ FetchFails(p) \/ BootTrouble(p) \/ Crash(p)
  PROVE  RowsInv'
<1>0. p \in Boots /\ p \in Desks
  BY StartUpAssumption DEF StartUpAssumption, Desks
<1>1. CASE BootStep(p) \/ BootTrouble(p)
  BY <1>0, <1>1, BootKeepsRows DEF BootStep, BootTrouble
<1>2. CASE Crash(p)
  BY <1>0, <1>2, LeaveStep DEF Crash, Leave, RowsInv, Typed
<1>3. CASE FetchFails(p) \/ Start(p) \/ LookNatives(p) \/ InsertNatives(p) \/ LookTokens(p)
             \/ InsertTokens(p) \/ RegistryGivesUp(p)
  BY <1>3, RowsFrame
     DEF FetchFails, Start, LookNatives, InsertNatives, LookTokens, InsertTokens, RegistryGivesUp
<1> QED
  BY <1>1, <1>2, <1>3 DEF StartStep

LEMMA RowsKept == RowsInv /\ [Next]_vars => RowsInv'
<1> SUFFICES ASSUME RowsInv, [Next]_vars PROVE RowsInv'
  OBVIOUS
<1>1. CASE \E p \in Pods : StartStep(p) \/ FetchFails(p) \/ BootTrouble(p) \/ Crash(p)
  BY <1>1, PodKeepsRows
<1>2. CASE \E r \in Requests : AdminRequest(r) \/ ActivateRequest(r) \/ EnsureRequest(r)
                                 \/ RequestStep(r) \/ RequestDropped(r)
  BY <1>2, RequestKeepsRows
<1>3. CASE \E t \in Tasks : RefreshBegins(t) \/ RefreshWithoutRedis(t) \/ RefreshEnds(t)
  BY <1>3, RowsFrame DEF RefreshBegins, RefreshWithoutRedis, RefreshEnds
<1>4. CASE KeyExpires
  BY <1>4, RowsFrame DEF KeyExpires
<1>5. CASE UNCHANGED vars
  BY <1>5, RowsFrame DEF vars
<1> QED
  BY <1>1, <1>2, <1>3, <1>4, <1>5 DEF Next

(* A wallet that is stored belongs to a stored vault in which Fireblocks has the asset
   activated, although activation, the rows of vaults and their rollbacks interleave and
   Fireblocks may fail (dao/asset.py:51-154, api/treasury.py:371-463). *)
THEOREM WalletsAreBacked == Spec => []WalletBacked
<1>1. RowsInv => WalletBacked
  BY DEF RowsInv
<1> QED
  BY <1>1, RowsStart, RowsKept, PTL DEF Spec

-----------------------------------------------------------------------------
(* Primaries. *)

Primary(n) == vaults[n] # None /\ vaults[n].primary

AtMostOne ==
  \A m, n \in Names : Primary(m) /\ Primary(n) /\ vaults[m].type = vaults[n].type => m = n

\* A request that promotes will unset every other primary of its type.
Target(s) == IF desk[s].op = "patch" THEN vaults[desk[s].name].type ELSE desk[s].type
Covers(s) ==
  \A n \in Names :
    Primary(n) /\ vaults[n].type = Target(s) => n = desk[s].name \/ n \in desk[s].unset

Administers(r) == desk[r].op \notin {"idle", "activate", "activate_commit"}

\* What a pod's bootstrap has seen of the HOT vaults still holds when it writes.
BootSees(p) ==
  /\ stage[p] # "boot" => desk[p] = Idle
  /\ desk[p].op \in {"idle", "boot_account", "boot_insert", "boot_write"}
  /\ desk[p].op \in {"boot_account", "boot_insert"} => OfType("hot") \subseteq {Default}
  /\ desk[p].op = "boot_write" => OfType("hot") = {desk[p].name}

PrimInv ==
  /\ DOMAIN stage = Pods
  /\ AtMostOne
  /\ \A p \in Pods : BootSees(p)
  /\ \A r \in Requests, p \in Pods : Administers(r) => desk[p] = Idle
  /\ \A r, q \in Requests : Promoting(r) /\ Promoting(q) => r = q
  /\ \A r \in Requests : Promoting(r) => Covers(r)

LEMMA PrimStart == Init => PrimInv
<1> SUFFICES ASSUME Init PROVE PrimInv
  OBVIOUS
<1>1. /\ \A s \in Desks : desk[s] = Idle
      /\ \A n \in Names : vaults[n] = None
  BY DEF Init, TreasuryInit
<1>2. \A p \in Pods : p \in Desks
  BY StartUpAssumption DEF StartUpAssumption, Desks
<1>3. \A r \in Requests : r \in Desks /\ ~Administers(r) /\ ~Promoting(r)
  BY <1>1 DEF Administers, Promoting, Making, Idle, Desks
<1>4. \A p \in Pods : BootSees(p)
  BY <1>1, <1>2, IdleIsDesk DEF BootSees
<1>5. AtMostOne /\ DOMAIN stage = Pods
  BY <1>1 DEF AtMostOne, Primary, Init
<1> QED
  BY <1>3, <1>4, <1>5 DEF PrimInv

LEMMA PodIsNoRequest == \A p \in Pods : p \in Desks /\ p \notin Requests
BY NoneIsNoRow, StartUpAssumption DEF StartUpAssumption, Desks

(* Rows that are no longer primary, and rows that never were, do no harm. *)
LEMMA NoNewPrimary ==
  ASSUME AtMostOne, RowsStay, \A n \in Names : Primary(n)' => Primary(n)
  PROVE  AtMostOne'
BY DEF AtMostOne, RowsStay, Primary

LEMMA RequestStepsPrimaries ==
  ASSUME RowsInv, PrimInv, NEW r \in Requests, Only(r), RowsStay, stage' = stage,
         Administers(r)' => \A p \in Pods : desk[p] = Idle,
         vaults' = vaults \/ Administers(r),
         AtMostOne',
         Promoting(r)' =>
           Covers(r)' /\ (Promoting(r) \/ \A q \in Requests : ~Promoting(q)),
         Promoting(r) \/ \A n \in Names : Primary(n)' => Primary(n)
  PROVE  PrimInv'
<1>1. \A z \in Desks \ {r} : desk'[z] = desk[z]
  BY DEF Only
<1>2. \A p \in Pods : desk'[p] = desk[p]
  BY <1>1, PodIsNoRequest
<1>3. \A q \in Requests \ {r} : desk'[q] = desk[q] /\ (Promoting(q)' <=> Promoting(q))
                                /\ (Administers(q)' <=> Administers(q))
  BY <1>1 DEF Desks, Promoting, Making, Administers
<1>4. ASSUME NEW p \in Pods PROVE BootSees(p)'
  <2>1. CASE vaults' = vaults
    BY <1>2, <2>1 DEF PrimInv, BootSees, OfType
  <2>2. CASE Administers(r)
    <3>1. desk[p] = Idle
      BY <2>2 DEF PrimInv
    <3> QED
      BY <1>2, <3>1 DEF BootSees, Idle
  <2> QED
    BY <2>1, <2>2
<1>5. ASSUME NEW q \in Requests, NEW p \in Pods, Administers(q)' PROVE desk'[p] = Idle
  BY <1>2, <1>3, <1>5 DEF PrimInv
<1>6. ASSUME NEW q \in Requests, NEW x \in Requests, Promoting(q)', Promoting(x)'
      PROVE  q = x
  BY <1>3, <1>6 DEF PrimInv
<1>7. ASSUME NEW q \in Requests, Promoting(q)' PROVE Covers(q)'
  <2>1. CASE q = r
    BY <1>7, <2>1
  <2>2. CASE q # r
    <3>1. Promoting(q) /\ Covers(q) /\ desk'[q] = desk[q] /\ ~Promoting(r)
      BY <1>3, <1>7, <2>2 DEF PrimInv
    <3>2. q \in Desks /\ desk[q].name \in Names /\ Sound(q)
      BY DEF Desks, RowsInv, Typed, Desk
    <3>3. Target(q)' = Target(q)
      BY <3>1, <3>2 DEF Target, Sound, RowsStay
    <3>4. ASSUME NEW n \in Names, Primary(n)' PROVE Primary(n) /\ vaults'[n].type = vaults[n].type
      BY <3>1, <3>4 DEF RowsStay, Primary
    <3> QED
      BY <3>1, <3>3, <3>4 DEF Covers
  <2> QED
    BY <2>1, <2>2
<1> QED
  BY <1>4, <1>5, <1>6, <1>7 DEF PrimInv

(* A request that ends, or goes on, without storing anything. *)
LEMMA RequestLeaves ==
  ASSUME RowsInv, PrimInv, NEW r \in Requests, Leave(r), vaults' = vaults, stage' = stage
  PROVE  PrimInv'
<1>1. Only(r) /\ desk'[r] = Idle
  BY Leaving DEF Desks
<1>2. RowsStay /\ AtMostOne' /\ (\A n \in Names : Primary(n)' => Primary(n))
  BY DEF RowsStay, RowsInv, Typed, PrimInv, AtMostOne, Primary
<1>3. ~Administers(r)' /\ ~Promoting(r)'
  BY <1>1 DEF Administers, Promoting, Making, Idle
<1> QED
  BY <1>1, <1>2, <1>3, RequestStepsPrimaries

LEMMA RequestGoesOn ==
  ASSUME RowsInv, PrimInv, NEW r \in Requests, Only(r), vaults' = vaults, stage' = stage,
         Administers(r)' => Administers(r),
         Promoting(r)' =>
           /\ Promoting(r) /\ desk[r].op # "patch" /\ desk'[r].op # "patch"
           /\ desk'[r].name = desk[r].name /\ desk'[r].type = desk[r].type
           /\ desk'[r].unset = desk[r].unset
  PROVE  PrimInv'
<1>2. RowsStay /\ AtMostOne' /\ (\A n \in Names : Primary(n)' => Primary(n))
  BY DEF RowsStay, RowsInv, Typed, PrimInv, AtMostOne, Primary
<1>3. Promoting(r)' => Covers(r)' /\ Promoting(r)
  BY DEF PrimInv, Covers, Target, Primary
<1>4. Administers(r)' => \A p \in Pods : desk[p] = Idle
  BY DEF PrimInv
<1> QED
  BY <1>2, <1>3, <1>4, RequestStepsPrimaries

LEMMA BeginsKeepsPrimaries ==
  ASSUME RowsInv, PrimInv, "overlap" \notin Stimuli, NEW r \in Requests, AdminRequest(r)
  PROVE  PrimInv'
<1>0. /\ r \in Desks /\ desk[r] \in Desk /\ desk[r].op = "idle"
      /\ vaults' = vaults /\ stage' = stage /\ Only(r) /\ RowsStay
  <2>1. r \in Desks /\ AdminBegins(r, may[r]) /\ stage' = stage
    BY DEF Desks, AdminRequest, pods
  <2> QED
    BY <2>1, DeskOf, BeginsKeepsRows DEF AdminBegins, CreateVault, PatchVault, ImportList
<1>1. \A p \in Pods : desk[p] = Idle
  BY DEF AdminRequest, Steady, PrimInv, BootSees
<1>2. AtMostOne' /\ (\A n \in Names : Primary(n)' => Primary(n))
  BY <1>0 DEF PrimInv, AtMostOne, Primary
<1>3. ASSUME NEW n \in Names, NEW ty \in Types, NEW b \in BOOLEAN, CreateVault(r, n, ty, b),
             Promoting(r)'
      PROVE  Covers(r)' /\ \A q \in Requests : ~Promoting(q)
  <2>1. /\ desk'[r].op = "create_account" /\ desk'[r].name = n /\ desk'[r].type = ty
        /\ desk'[r].primary = b /\ desk'[r].unset = IF b THEN Primaries(ty) ELSE {}
    BY <1>0, <1>3 DEF CreateVault, RowsInv, Typed, Desk
  <2>2. b
    BY <1>3, <2>1 DEF Promoting
  <2>3. Covers(r)'
    BY <1>0, <2>1, <2>2 DEF Covers, Target, Primaries, OfType, Primary
  <2> QED
    BY <1>3, <2>2, <2>3 DEF CreateVault, OneAtATime
<1>4. ASSUME NEW n \in Names, NEW b \in BOOLEAN, PatchVault(r, n, b), Promoting(r)'
      PROVE  Covers(r)' /\ \A q \in Requests : ~Promoting(q)
  <2>1. /\ desk'[r].op = "patch" /\ desk'[r].name = n /\ desk'[r].primary = b
        /\ desk'[r].unset = IF b THEN Primaries(vaults[n].type) \ {n} ELSE {}
    BY <1>0, <1>4 DEF PatchVault, RowsInv, Typed, Desk
  <2>2. b
    BY <1>4, <2>1 DEF Promoting
  <2>3. Covers(r)'
    BY <1>0, <2>1, <2>2 DEF Covers, Target, Primaries, OfType, Primary
  <2> QED
    BY <1>4, <2>2, <2>3 DEF PatchVault, OneAtATime
<1>5. ASSUME ImportList(r) PROVE ~Promoting(r)'
  <2>1. desk'[r].op = "import"
    BY <1>0, <1>5 DEF ImportList, RowsInv, Typed, Desk
  <2> QED
    BY <2>1 DEF Promoting, Making
<1>6. Promoting(r)' => Covers(r)' /\ \A q \in Requests : ~Promoting(q)
  BY <1>3, <1>4, <1>5 DEF AdminRequest, AdminBegins
<1> QED
  BY <1>0, <1>1, <1>2, <1>6, RequestStepsPrimaries

LEMMA CreateKeepsPrimaries ==
  ASSUME RowsInv, PrimInv, NEW r \in Requests, NEW known \in BOOLEAN, stage' = stage,
         CreateAccount(r) \/ CreateFlush(r) \/ CreateAssets(r, known) \/ CreateCommit(r)
  PROVE  PrimInv'
<1> DEFINE n == desk[r].name
<1>0. /\ r \in Desks /\ desk[r] \in Desk /\ Sound(r) /\ Only(r) /\ RowsStay /\ n \in Names
      /\ Administers(r)
  <2>1. r \in Desks
    BY DEF Desks
  <2>2. Administers(r)
    BY DEF CreateAccount, CreateFlush, CreateAssets, CreateCommit, Administers
  <2> QED
    BY <2>1, <2>2, DeskOf, CreateKeepsRows DEF Desk
<1>1. CASE CreateAccount(r)
  <2>1. CASE n \in accounts
    BY <1>1, <2>1, RequestLeaves DEF CreateAccount
  <2>2. CASE n \notin accounts
    <3>1. desk'[r] = [desk[r] EXCEPT !.op = "create_flush"] /\ desk[r].op = "create_account"
      BY <1>0, <1>1, <2>2, Going DEF CreateAccount, Ops
    <3>2. /\ desk'[r].op = "create_flush" /\ desk'[r].name = desk[r].name
          /\ desk'[r].type = desk[r].type /\ desk'[r].unset = desk[r].unset
          /\ desk'[r].primary = desk[r].primary
      BY <1>0, <3>1 DEF Desk
    <3>3. Promoting(r)' => Promoting(r)
      BY <3>1, <3>2 DEF Promoting, Making
    <3> QED
      BY <1>0, <1>1, <3>1, <3>2, <3>3, RequestGoesOn DEF CreateAccount
  <2> QED
    BY <2>1, <2>2
<1>2. CASE CreateFlush(r)
  <2>1. CASE vaults[n] # None
    BY <1>2, <2>1, RequestLeaves DEF CreateFlush
  <2>2. CASE vaults[n] = None
    <3>1. /\ desk' = [desk EXCEPT ![r].op = "create_assets", ![r].added = {n}]
          /\ desk[r].op = "create_flush" /\ vaults' = vaults
      BY <1>2, <2>2 DEF CreateFlush
    <3>2. /\ desk'[r].op = "create_assets" /\ desk'[r].name = desk[r].name
          /\ desk'[r].type = desk[r].type /\ desk'[r].unset = desk[r].unset
          /\ desk'[r].primary = desk[r].primary
      BY <1>0, <3>1 DEF Desk, RowsInv, Typed
    <3>3. Promoting(r)' => Promoting(r)
      BY <3>1, <3>2 DEF Promoting, Making
    <3> QED
      BY <1>0, <3>1, <3>2, <3>3, RequestGoesOn
  <2> QED
    BY <2>1, <2>2
<1>3. CASE CreateAssets(r, known)
  <2>1. /\ desk[r].op = "create_assets" /\ vaults' = vaults
        /\ \/ desk' = [desk EXCEPT ![r].op = "create_commit", ![r].holds = TRUE]
           \/ desk' = [desk EXCEPT ![r].op = "create_commit"]
    BY <1>3 DEF CreateAssets, Goes
  <2>2. /\ desk'[r].op = "create_commit" /\ desk'[r].name = desk[r].name
        /\ desk'[r].type = desk[r].type /\ desk'[r].unset = desk[r].unset
        /\ desk'[r].primary = desk[r].primary
    BY <1>0, <2>1 DEF Desk, RowsInv, Typed
  <2>3. Promoting(r)' => Promoting(r)
    BY <2>1, <2>2 DEF Promoting, Making
  <2> QED
    BY <1>0, <2>1, <2>2, <2>3, RequestGoesOn
<1>4. CASE CreateCommit(r)
  <2>0. /\ vaults[n] = None /\ desk[r].op = "create_commit"
        /\ [type |-> desk[r].type, primary |-> desk[r].primary] \in Row
    BY <1>0, <1>4 DEF CreateCommit, Sound, Desk, Row
  <2>1. /\ vaults' = [o \in Names |->
             IF o = n THEN [type |-> desk[r].type, primary |-> desk[r].primary]
               ELSE IF o \in desk[r].unset THEN [vaults[o] EXCEPT !.primary = FALSE] ELSE vaults[o]]
        /\ Leave(r)
    BY <1>4 DEF CreateCommit
  <2>2. \A o \in desk[r].unset : o \in Names /\ vaults[o] \in Row
    BY <1>0 DEF Sound, Desk, RowsInv, Typed
  <2>3. ASSUME NEW o \in Names, Primary(o)', o # n
        PROVE  Primary(o) /\ o \notin desk[r].unset /\ vaults'[o].type = vaults[o].type
    <3>1. o \notin desk[r].unset
      BY <2>1, <2>2, <2>3 DEF Primary, Row
    <3> QED
      BY <2>1, <2>3, <3>1 DEF Primary
  <2>4. /\ vaults'[n].type = desk[r].type
        /\ \A o \in Names : o = n /\ Primary(o)' => desk[r].primary
    BY <1>0, <2>1 DEF Primary
  <2>5. ~Promoting(r) => \A o \in Names : Primary(o)' => Primary(o)
    BY <2>0, <2>3, <2>4 DEF Promoting, Making
  <2>6. AtMostOne'
    <3>1. CASE ~Promoting(r)
      BY <1>0, <2>5, <3>1, NoNewPrimary DEF PrimInv
    <3>2. CASE Promoting(r)
      <4>1. \A o \in Names : Primary(o)' /\ vaults'[o].type = desk[r].type => o = n
        BY <2>0, <2>3, <3>2 DEF PrimInv, Covers, Target
      <4> SUFFICES ASSUME NEW m \in Names, NEW o \in Names, Primary(m)', Primary(o)',
                          vaults'[m].type = vaults'[o].type
                   PROVE  m = o
        BY DEF AtMostOne
      <4>2. CASE m # n /\ o # n
        BY <2>3, <4>2 DEF PrimInv, AtMostOne
      <4>3. CASE m = n \/ o = n
        BY <2>4, <4>1, <4>3
      <4> QED
        BY <4>2, <4>3
    <3> QED
      BY <3>1, <3>2
  <2>7. ~Administers(r)' /\ ~Promoting(r)'
    BY <1>0, <2>1, Leaving DEF Administers, Promoting, Making, Idle
  <2> QED
    BY <1>0, <2>5, <2>6, <2>7, RequestStepsPrimaries
<1> QED
  BY <1>1, <1>2, <1>3, <1>4

LEMMA PatchKeepsPrimaries ==
  ASSUME RowsInv, PrimInv, NEW r \in Requests, stage' = stage, PatchCommit(r)
  PROVE  PrimInv'
<1> DEFINE n == desk[r].name
           d == desk[r]
<1>0. /\ r \in Desks /\ desk[r] \in Desk /\ Sound(r) /\ Only(r) /\ RowsStay /\ n \in Names
      /\ Administers(r) /\ desk[r].op = "patch" /\ vaults[n] \in Row /\ vaults[n] # None
  <2>1. r \in Desks /\ desk[r].op = "patch" /\ Administers(r)
    BY DEF Desks, PatchCommit, Administers
  <2>2. desk[r] \in Desk /\ Sound(r) /\ Only(r) /\ RowsStay /\ n \in Names
    BY <2>1, DeskOf, PatchKeepsRows DEF Desk
  <2> QED
    BY <2>1, <2>2 DEF Sound, RowsInv, Typed
<1>1. /\ vaults' = [o \in Names |->
           IF o = n /\ desk[r].primary # desk[r].was
             THEN [vaults[o] EXCEPT !.primary = desk[r].primary]
             ELSE IF o \in desk[r].unset THEN [vaults[o] EXCEPT !.primary = FALSE] ELSE vaults[o]]
      /\ Leave(r)
  BY DEF PatchCommit
<1>2. \A o \in desk[r].unset : o \in Names /\ vaults[o] \in Row
  BY <1>0 DEF Sound, Desk, RowsInv, Typed
<1>3. ASSUME NEW o \in Names, Primary(o)', o # n
      PROVE  Primary(o) /\ o \notin desk[r].unset /\ vaults'[o].type = vaults[o].type
  <2>1. o \notin desk[r].unset
    BY <1>1, <1>2, <1>3 DEF Primary, Row
  <2> QED
    BY <1>1, <1>3, <2>1 DEF Primary
<1>4. vaults'[n].type = vaults[n].type
  BY <1>0 DEF RowsStay
<1>5. ASSUME ~Promoting(r), NEW m \in Names, m = n, Primary(m)' PROVE Primary(m)
  <2>1. desk[r].primary = FALSE
    BY <1>0, <1>5 DEF Promoting, Making, Desk
  <2>2. CASE desk[r].primary # desk[r].was
    <3>1. vaults'[m] = [vaults[m] EXCEPT !.primary = FALSE]
      BY <1>0, <1>1, <1>5, <2>1, <2>2
    <3> QED
      BY <1>0, <1>5, <3>1 DEF Primary, Row
  <2>3. CASE ~(desk[r].primary # desk[r].was) /\ m \in desk[r].unset
    <3>1. vaults'[m] = [vaults[m] EXCEPT !.primary = FALSE]
      BY <1>0, <1>1, <1>5, <2>3
    <3> QED
      BY <1>0, <1>5, <3>1 DEF Primary, Row
  <2>4. CASE ~(desk[r].primary # desk[r].was) /\ m \notin desk[r].unset
    BY <1>0, <1>1, <1>5, <2>4 DEF Primary
  <2> QED
    BY <2>2, <2>3, <2>4
<1>6. AtMostOne'
  <2>1. CASE ~Promoting(r)
    BY <1>0, <1>3, <1>5, <2>1, NoNewPrimary DEF PrimInv
  <2>2. CASE Promoting(r)
    <3>1. \A o \in Names : Primary(o)' /\ vaults'[o].type = vaults[n].type => o = n
      BY <1>0, <1>3, <2>2 DEF PrimInv, Covers, Target
    <3> SUFFICES ASSUME NEW m \in Names, NEW o \in Names, Primary(m)', Primary(o)',
                        vaults'[m].type = vaults'[o].type
                 PROVE  m = o
      BY DEF AtMostOne
    <3>2. CASE m # n /\ o # n
      BY <1>3, <3>2 DEF PrimInv, AtMostOne
    <3>3. CASE m = n \/ o = n
      BY <1>4, <3>1, <3>3
    <3> QED
      BY <3>2, <3>3
  <2> QED
    BY <2>1, <2>2
<1>7. ~Administers(r)' /\ ~Promoting(r)'
  BY <1>0, <1>1, Leaving DEF Administers, Promoting, Making, Idle
<1> QED
  BY <1>0, <1>3, <1>5, <1>6, <1>7, RequestStepsPrimaries

LEMMA ImportKeepsPrimaries ==
  ASSUME RowsInv, PrimInv, NEW r \in Requests, stage' = stage,
         ImportLook(r) \/ ImportFlush(r) \/ ImportCommit(r)
  PROVE  PrimInv'
<1>0. /\ r \in Desks /\ desk[r] \in Desk /\ Sound(r) /\ Only(r) /\ RowsStay
      /\ Administers(r)
  <2>1. r \in Desks /\ Administers(r)
    BY DEF Desks, ImportLook, ImportFlush, ImportCommit, Administers
  <2> QED
    BY <2>1, DeskOf, ImportKeepsRows
<1>1. CASE ImportLook(r) \/ ImportFlush(r)
  <2>1. vaults' = vaults
    BY <1>1 DEF ImportLook, ImportFlush
  <2>2. desk'[r].op \in {"import", "import_flush"}
    <3>1. CASE ImportLook(r)
      BY <1>0, <3>1 DEF ImportLook, RowsInv, Typed, Desk
    <3>2. CASE ImportFlush(r)
      BY <1>0, <3>2 DEF ImportFlush, RowsInv, Typed, Desk
    <3> QED
      BY <1>1, <3>1, <3>2
  <2>3. ~Promoting(r)'
    BY <2>2 DEF Promoting, Making
  <2> QED
    BY <1>0, <2>1, <2>3, RequestGoesOn
<1>2. CASE ImportCommit(r)
  <2>1. /\ vaults' = [n \in Names |-> IF n \in desk[r].added
                                      THEN [type |-> TypeOf[n], primary |-> FALSE] ELSE vaults[n]]
        /\ Leave(r)
    BY <1>2 DEF ImportCommit
  <2>2. \A n \in Names : Primary(n)' => Primary(n)
    BY <2>1 DEF Primary
  <2>3. AtMostOne'
    BY <1>0, <2>2, NoNewPrimary DEF PrimInv
  <2>4. ~Administers(r)' /\ ~Promoting(r)'
    BY <1>0, <2>1, Leaving DEF Administers, Promoting, Making, Idle
  <2> QED
    BY <1>0, <2>2, <2>3, <2>4, RequestStepsPrimaries
<1> QED
  BY <1>1, <1>2

LEMMA ActivateKeepsPrimaries ==
  ASSUME RowsInv, PrimInv, NEW r \in Requests, stage' = stage,
         \/ \E n \in Names, known \in BOOLEAN : ActivateLook(r, n, known)
         \/ ActivateCall(r) \/ ActivateRefused(r) \/ ActivateCommit(r)
  PROVE  PrimInv'
<1>0. /\ r \in Desks /\ desk[r] \in Desk /\ Only(r) /\ RowsStay /\ vaults' = vaults
  BY DeskOf, ActivateKeepsRows
     DEF Desks, ActivateLook, ActivateCall, ActivateRefused, ActivateCommit
<1>1. CASE Leave(r)
  BY <1>0, <1>1, RequestLeaves
<1>2. CASE desk'[r].op \in {"activate", "activate_commit"}
  <2>1. ~Promoting(r)' /\ ~Administers(r)'
    BY <1>2 DEF Promoting, Making, Administers
  <2> QED
    BY <1>0, <2>1, RequestGoesOn
<1>3. ASSUME NEW n \in Names, NEW known \in BOOLEAN, ActivateLook(r, n, known)
      PROVE  desk'[r].op = "activate"
  BY <1>0, <1>3 DEF ActivateLook, RowsInv, Typed, Desk
<1>4. ASSUME ActivateCall(r) PROVE Leave(r) \/ desk'[r].op = "activate_commit"
  <2>1. \/ Leave(r)
        \/ desk' = [desk EXCEPT ![r].op = "activate_commit",
                                ![r].holds = (wallets[desk[r].name] = 0)]
    BY <1>4 DEF ActivateCall
  <2> QED
    BY <1>0, <2>1 DEF RowsInv, Typed, Desk
<1> QED
  BY <1>1, <1>2, <1>3, <1>4 DEF ActivateRefused, ActivateCommit

LEMMA RequestKeepsPrimaries ==
  ASSUME RowsInv, PrimInv, "overlap" \notin Stimuli, NEW r \in Requests,
         \/ AdminRequest(r) \/ ActivateRequest(r) \/ EnsureRequest(r)
         \/ RequestStep(r) \/ RequestDropped(r)
  PROVE  PrimInv'
<1>0. r \in Desks /\ Known \in BOOLEAN /\ stage' = stage
  BY DEF Desks, Known, AdminRequest, ActivateRequest, EnsureRequest, RequestStep,
     RequestDropped, pods
<1>1. CASE AdminRequest(r)
  BY <1>1, BeginsKeepsPrimaries
<1>2. CASE ActivateRequest(r)
  BY <1>0, <1>2, ActivateKeepsPrimaries DEF ActivateRequest
<1>3. CASE EnsureRequest(r)
  <2>1. PICK n \in Servable : ActivateLook(r, n, Known)
    BY <1>3 DEF EnsureRequest, EnsureLook
  <2>2. n \in Names
    BY DEF Servable, Primaries, OfType
  <2> QED
    BY <1>0, <2>1, <2>2, ActivateKeepsPrimaries
<1>4. CASE RequestStep(r)
  BY <1>0, <1>4, CreateKeepsPrimaries, PatchKeepsPrimaries, ImportKeepsPrimaries,
     ActivateKeepsPrimaries DEF RequestStep, Handled
<1>5. CASE RequestDropped(r)
  BY <1>0, <1>5, RequestLeaves DEF RequestDropped, Drop
<1> QED
  BY <1>1, <1>2, <1>3, <1>4, <1>5

(* A pod that moves while no administrator is at work, or without touching vaults. *)
LEMMA PodStepsPrimaries ==
  ASSUME PrimInv, NEW p \in Pods, Only(p),
         DOMAIN stage' = Pods, \A q \in Pods \ {p} : stage'[q] = stage[q],
         \/ desk'[p] = Idle
         \/ \A r \in Requests : ~Administers(r),
         \/ vaults' = vaults
         \/ \A r \in Requests : ~Administers(r),
         AtMostOne', BootSees(p)',
         \A q \in Pods \ {p} : BootSees(q) => BootSees(q)'
  PROVE  PrimInv'
<1>1. \A z \in Desks \ {p} : desk'[z] = desk[z]
  BY DEF Only
<1>2. \A r \in Requests : desk'[r] = desk[r]
  BY <1>1, PodIsNoRequest DEF Desks
<1>3. \A r \in Requests : /\ Promoting(r)' <=> Promoting(r)
                          /\ Administers(r)' <=> Administers(r)
                          /\ Promoting(r) => Administers(r)
  BY <1>2 DEF Promoting, Making, Administers
<1>4. \A q \in Pods : BootSees(q)'
  BY DEF PrimInv
<1>5. ASSUME NEW r \in Requests, NEW q \in Pods, Administers(r)' PROVE desk'[q] = Idle
  BY <1>1, <1>3, <1>5, PodIsNoRequest DEF PrimInv
<1>6. ASSUME NEW r \in Requests, Promoting(r)' PROVE Covers(r)'
  BY <1>2, <1>3, <1>6 DEF PrimInv, Covers, Target, Primary
<1> QED
  BY <1>3, <1>4, <1>5, <1>6 DEF PrimInv

LEMMA SameVaults ==
  ASSUME PrimInv, NEW p \in Pods, Only(p), vaults' = vaults,
         DOMAIN stage' = Pods, \A q \in Pods \ {p} : stage'[q] = stage[q]
  PROVE  AtMostOne' /\ \A q \in Pods \ {p} : BootSees(q) => BootSees(q)'
<1>1. \A q \in Pods \ {p} : desk'[q] = desk[q]
  BY PodIsNoRequest DEF Only
<1> QED
  BY <1>1 DEF PrimInv, AtMostOne, Primary, BootSees, OfType

(* A pod that leaves the treasury alone, or its place in it. *)
LEMMA PodIdles ==
  ASSUME RowsInv, PrimInv, NEW p \in Pods, vaults' = vaults, Only(p), desk'[p] = Idle,
         DOMAIN stage' = Pods, \A q \in Pods \ {p} : stage'[q] = stage[q]
  PROVE  PrimInv'
<1>1. BootSees(p)'
  BY IdleIsDesk DEF BootSees
<1> QED
  BY <1>1, SameVaults, PodStepsPrimaries

LEMMA OneHot ==
  ASSUME ~BootDecided, NEW n \in OfType("hot")
  PROVE  OfType("hot") = {n}
<1>1. IsFiniteSet(OfType("hot"))
  BY TreasuryAssumption, FS_Subset DEF TreasuryAssumption, OfType
<1>2. Cardinality(OfType("hot")) \in Nat /\ ~(Cardinality(OfType("hot")) > 1)
  BY <1>1, FS_CardinalityType DEF BootDecided
<1>3. Cardinality(OfType("hot")) # 0
  BY <1>1, FS_EmptySet
<1>4. Cardinality(OfType("hot")) = 1
  BY <1>2, <1>3
<1> QED
  BY <1>1, <1>4, FS_Singleton

LEMMA BootStepKeepsPrimaries ==
  ASSUME RowsInv, PrimInv, "overlap" \notin Stimuli, NEW p \in Pods, BootStep(p)
  PROVE  PrimInv'
<1>0. /\ p \in Boots /\ p \in Desks /\ desk[p] \in Desk /\ BootSees(p) /\ Only(p) /\ RowsStay
      /\ \A z \in Pods \ {p} : desk'[z] = desk[z]
  <2>1. p \in Boots /\ p \in Desks
    BY StartUpAssumption DEF StartUpAssumption, Desks
  <2> QED
    BY <2>1, DeskOf, BootKeepsRows, PodIsNoRequest DEF BootStep, PrimInv, Only
<1>1. \A r \in Requests : ~Administers(r)
  BY DEF BootStep, NoAdmin, Administers
<1>2. stage'[p] = IF desk'[p] = Idle THEN "up" ELSE "boot"
  BY DEF BootStep, Moves, PrimInv
<1>3. DOMAIN stage' = Pods /\ \A q \in Pods \ {p} : stage'[q] = stage[q]
  BY DEF BootStep, Moves, PrimInv
<1>4. CASE BootFound(p)
  BY <1>0, <1>3, <1>4, Leaving, PodIdles DEF BootFound
<1>5. CASE BootPromotes(p)
  <2>1. PICK n \in OfType("hot") :
          desk' = [desk EXCEPT ![p].op = "boot_write", ![p].name = n]
    BY <1>5 DEF BootPromotes
  <2>2. desk'[p].op = "boot_write" /\ desk'[p].name = n /\ vaults' = vaults
    BY <1>0, <1>5, <2>1 DEF BootPromotes, RowsInv, Typed, Desk
  <2>3. OfType("hot") = {n}
    BY <1>5, OneHot DEF BootPromotes
  <2>4. BootSees(p)'
    BY <1>2, <2>2, <2>3 DEF BootSees, OfType
  <2> QED
    BY <1>0, <1>1, <1>3, <2>2, <2>4, SameVaults, PodStepsPrimaries
<1>6. CASE BootMissing(p)
  <2>1. /\ desk'[p].op = "boot_account" /\ vaults' = vaults /\ OfType("hot") = {}
    BY <1>0, <1>6 DEF BootMissing, Goes, RowsInv, Typed, Desk
  <2>2. BootSees(p)'
    BY <1>2, <2>1 DEF BootSees, OfType
  <2> QED
    BY <1>0, <1>1, <1>3, <2>1, <2>2, SameVaults, PodStepsPrimaries
<1>7. CASE BootAccount(p)
  <2>1. /\ desk'[p].op = "boot_insert" /\ vaults' = vaults /\ OfType("hot") \subseteq {Default}
    BY <1>0, <1>7 DEF BootAccount, Goes, RowsInv, Typed, Desk, BootSees
  <2>2. BootSees(p)'
    BY <1>2, <2>1 DEF BootSees, OfType
  <2> QED
    BY <1>0, <1>1, <1>3, <2>1, <2>2, SameVaults, PodStepsPrimaries
<1>8. CASE BootWrite(p)
  <2> DEFINE n == desk[p].name
  <2>1. /\ vaults' = [vaults EXCEPT ![n].primary = TRUE] /\ Leave(p)
        /\ OfType("hot") = {n}
    BY <1>0, <1>8 DEF BootWrite, BootSees
  <2>2. n \in Names /\ vaults[n] # None /\ vaults[n].type = "hot" /\ vaults[n] \in Row
    BY <2>1 DEF OfType, RowsInv, Typed
  <2>3. \A o \in Names : o # n => vaults'[o] = vaults[o]
    BY <2>1 DEF RowsInv, Typed
  <2>4. vaults'[n] # None /\ vaults'[n].type = "hot"
    BY <1>0, <2>2 DEF RowsStay
  <2>5. OfType("hot")' = OfType("hot")
    BY <2>1, <2>2, <2>3, <2>4 DEF OfType
  <2>6. AtMostOne'
    <3> SUFFICES ASSUME NEW m \in Names, NEW o \in Names, Primary(m)', Primary(o)',
                        vaults'[m].type = vaults'[o].type
                 PROVE  m = o
      BY DEF AtMostOne
    <3>1. CASE m # n /\ o # n
      BY <2>3, <3>1 DEF PrimInv, AtMostOne, Primary
    <3>2. CASE m = n \/ o = n
      <4>1. vaults'[m] # None /\ vaults'[o] # None
        BY DEF Primary
      <4>2. m \in OfType("hot")' /\ o \in OfType("hot")'
        BY <2>4, <3>2, <4>1 DEF OfType
      <4> QED
        BY <2>1, <2>5, <4>2
    <3> QED
      BY <3>1, <3>2
  <2>7. desk'[p] = Idle /\ BootSees(p)'
    BY <1>0, <2>1, Leaving, IdleIsDesk DEF BootSees
  <2>8. \A q \in Pods \ {p} : BootSees(q) => BootSees(q)'
    BY <1>0, <1>3, <2>5 DEF BootSees
  <2> QED
    BY <1>0, <1>1, <1>3, <2>6, <2>7, <2>8, PodStepsPrimaries
<1>9. CASE BootInsert(p)
  <2>1. /\ vaults' = IF vaults[Default] # None THEN vaults
                       ELSE [vaults EXCEPT ![Default] = [type |-> "hot", primary |-> TRUE]]
        /\ Leave(p) /\ OfType("hot") \subseteq {Default}
    BY <1>0, <1>9 DEF BootInsert, BootSees
  <2>2. desk'[p] = Idle /\ BootSees(p)'
    BY <1>0, <2>1, Leaving, IdleIsDesk DEF BootSees
  <2>3. CASE vaults[Default] # None
    <3>1. vaults' = vaults
      BY <2>1, <2>3
    <3> QED
      BY <1>0, <1>3, <2>2, <3>1, PodIdles
  <2>4. CASE vaults[Default] = None
    <3>1. /\ \A o \in Names : o # Default => vaults'[o] = vaults[o]
          /\ vaults'[Default] = [type |-> "hot", primary |-> TRUE]
      BY <2>1, <2>4, NoneIsNoRow DEF RowsInv, Typed
    <3>2. OfType("hot")' \subseteq {Default} /\ OfType("hot") = {}
      BY <2>1, <2>4, <3>1 DEF OfType
    <3>3. AtMostOne'
      <4> SUFFICES ASSUME NEW m \in Names, NEW o \in Names, Primary(m)', Primary(o)',
                          vaults'[m].type = vaults'[o].type
                   PROVE  m = o
        BY DEF AtMostOne
      <4>1. CASE m # Default /\ o # Default
        BY <3>1, <4>1 DEF PrimInv, AtMostOne, Primary
      <4>2. CASE m = Default \/ o = Default
        <5>1. vaults'[m] # None /\ vaults'[o] # None
          BY DEF Primary
        <5>2. m \in OfType("hot")' /\ o \in OfType("hot")'
          BY <3>1, <4>2, <5>1 DEF OfType
        <5> QED
          BY <3>2, <5>2
      <4> QED
        BY <4>1, <4>2
    <3>4. \A q \in Pods \ {p} : BootSees(q) => BootSees(q)'
      BY <1>0, <1>3, <3>2 DEF BootSees
    <3> QED
      BY <1>0, <1>1, <1>3, <2>2, <3>3, <3>4, PodStepsPrimaries
  <2> QED
    BY <2>3, <2>4
<1> QED
  BY <1>4, <1>5, <1>6, <1>7, <1>8, <1>9 DEF BootStep, BootAction

LEMMA PodKeepsPrimaries ==
  ASSUME RowsInv, PrimInv, "overlap" \notin Stimuli, NEW p \in Pods,
         StartStep(p) \/ FetchFails(p) \/ BootTrouble(p) \/ Crash(p)
  PROVE  PrimInv'
<1>0. p \in Desks
  BY PodIsNoRequest
<1>1. CASE BootStep(p)
  BY <1>1, BootStepKeepsPrimaries
<1>2. CASE BootTrouble(p)
  <2>1. /\ Leave(p) /\ vaults' = vaults /\ DOMAIN stage' = Pods
        /\ \A q \in Pods \ {p} : stage'[q] = stage[q]
    BY <1>2 DEF BootTrouble, BootRefused, Moves, PrimInv
  <2> QED
    BY <1>0, <2>1, Leaving, PodIdles
<1>3. CASE Crash(p)
  <2>1. /\ Leave(p) /\ vaults' = vaults /\ DOMAIN stage' = Pods
        /\ \A q \in Pods \ {p} : stage'[q] = stage[q]
    BY <1>3 DEF Crash, Leave, PrimInv
  <2> QED
    BY <1>0, <2>1, Leaving, PodIdles
<1>4. CASE FetchFails(p) \/ Start(p) \/ LookNatives(p) \/ InsertNatives(p) \/ LookTokens(p)
             \/ InsertTokens(p) \/ RegistryGivesUp(p)
  <2>1. /\ stage[p] # "boot" /\ UNCHANGED treasury /\ DOMAIN stage' = Pods
        /\ \A q \in Pods \ {p} : stage'[q] = stage[q]
    BY <1>4
       DEF FetchFails, Start, LookNatives, InsertNatives, LookTokens, InsertTokens,
           RegistryGivesUp, Moves, PrimInv
  <2>2. desk[p] = Idle /\ desk' = desk /\ vaults' = vaults
    BY <2>1 DEF PrimInv, BootSees, treasury
  <2>3. Only(p)
    BY <2>2 DEF Only, RowsInv, Typed
  <2> QED
    BY <2>1, <2>2, <2>3, PodIdles
<1> QED
  BY <1>1, <1>2, <1>3, <1>4 DEF StartStep

LEMMA PrimariesFrame ==
  ASSUME PrimInv, UNCHANGED <<treasury, stage>>
  PROVE  PrimInv'
BY DEF PrimInv, AtMostOne, Primary, BootSees, OfType, Administers, Promoting, Making, Covers,
   Target, treasury

LEMMA PrimariesKept ==
  ASSUME "overlap" \notin Stimuli
  PROVE  RowsInv /\ PrimInv /\ [Next]_vars => PrimInv'
<1> SUFFICES ASSUME RowsInv, PrimInv, [Next]_vars PROVE PrimInv'
  OBVIOUS
<1>1. CASE \E p \in Pods : StartStep(p) \/ FetchFails(p) \/ BootTrouble(p) \/ Crash(p)
  BY <1>1, PodKeepsPrimaries
<1>2. CASE \E r \in Requests : AdminRequest(r) \/ ActivateRequest(r) \/ EnsureRequest(r)
                                 \/ RequestStep(r) \/ RequestDropped(r)
  BY <1>2, RequestKeepsPrimaries
<1>3. CASE \E t \in Tasks : RefreshBegins(t) \/ RefreshWithoutRedis(t) \/ RefreshEnds(t)
  BY <1>3, PrimariesFrame DEF RefreshBegins, RefreshWithoutRedis, RefreshEnds, pods
<1>4. CASE KeyExpires
  BY <1>4, PrimariesFrame DEF KeyExpires, pods
<1>5. CASE UNCHANGED vars
  BY <1>5, PrimariesFrame DEF vars, pods
<1> QED
  BY <1>1, <1>2, <1>3, <1>4, <1>5 DEF Next

LEMMA AtMostOneCounted ==
  ASSUME AtMostOne
  PROVE  OnePrimary
<1> SUFFICES ASSUME NEW ty \in Types \cup {"hot"} PROVE Cardinality(Primaries(ty)) <= 1
  BY DEF OnePrimary
<1>1. CASE Primaries(ty) = {}
  BY <1>1, FS_EmptySet
<1>2. CASE Primaries(ty) # {}
  <2>1. PICK n : n \in Primaries(ty)
    BY <1>2
  <2>2. Primaries(ty) = {n}
    BY <2>1 DEF AtMostOne, Primary, Primaries, OfType
  <2> QED
    BY <2>2, FS_Singleton
<1> QED
  BY <1>1, <1>2

(* No type ever has two primary vaults, whichever pods start at once or crash in the
   middle, and whatever administrators create, promote and import before and after, as long
   as they promote one vault at a time and none while a pod starts
   (treasury_bootstrap.py:28-116, api/treasury.py:54-63, 316-369). *)
THEOREM NoSecondPrimary ==
  ASSUME "overlap" \notin Stimuli
  PROVE  Spec => []OnePrimary
<1>1. Init => RowsInv /\ PrimInv
  BY RowsStart, PrimStart
<1>2. RowsInv /\ PrimInv /\ [Next]_vars => RowsInv' /\ PrimInv'
  BY RowsKept, PrimariesKept
<1>3. RowsInv /\ PrimInv => OnePrimary
  BY AtMostOneCounted DEF PrimInv
<1> QED
  BY <1>1, <1>2, <1>3, PTL DEF Spec

-----------------------------------------------------------------------------
(* Imports. *)

Importing(s) == desk[s].op \in {"import", "import_flush"}

(* Every account that was listed is stored, flushed, or still to be looked at, unless
   the import has met an error. *)
Accounted(s) ==
  Importing(s) /\ desk[s].clean =>
    \A n \in desk[s].listed :
      \/ vaults[n] # None \/ n \in desk[s].todo \/ n \in desk[s].added
      \/ desk[s].op = "import_flush" /\ n = desk[s].name

ImportsInv == \A s \in Desks : Accounted(s)

LEMMA ImportsStart == Init => ImportsInv
BY DEF Init, TreasuryInit, ImportsInv, Accounted, Importing, Idle

(* Rows stay, so nobody disturbs the import of another session. *)
LEMMA ImportsStep ==
  ASSUME RowsInv, ImportsInv, NEW s \in Desks, Only(s), RowsStay,
         Importing(s)' => Accounted(s)'
  PROVE  ImportsInv'
<1> SUFFICES ASSUME NEW z \in Desks PROVE Accounted(z)'
  BY DEF ImportsInv
<1>1. CASE z = s
  BY <1>1 DEF Accounted
<1>2. CASE z # s
  <2>1. desk'[z] = desk[z] /\ desk[z].listed \subseteq Names /\ Accounted(z)
    BY <1>2 DEF Only, ImportsInv, RowsInv, Typed, Desk
  <2> QED
    BY <2>1 DEF Accounted, Importing, RowsStay
<1> QED
  BY <1>1, <1>2

LEMMA ImportKeepsImports ==
  ASSUME RowsInv, ImportsInv, NEW r \in Desks,
         ImportLook(r) \/ ImportFlush(r) \/ ImportCommit(r)
  PROVE  ImportsInv'
<1>0. /\ Only(r) /\ RowsStay /\ desk[r] \in Desk /\ Accounted(r)
      /\ desk[r].listed \subseteq Names
  BY ImportKeepsRows, DeskOf DEF ImportsInv, Desk
<1>1. CASE ImportLook(r)
  <2> DEFINE n == Upcoming(r)
             o == IF vaults[n] = None THEN "import_flush" ELSE "import"
  <2>1. /\ vaults' = vaults /\ desk[r].op = "import"
        /\ desk'[r] = [desk[r] EXCEPT !.todo = @ \ {n}, !.name = n, !.op = o]
    BY <1>1 DEF ImportLook, RowsInv, Typed
  <2>2. /\ desk'[r].todo = desk[r].todo \ {n} /\ desk'[r].name = n /\ desk'[r].op = o
        /\ desk'[r].clean = desk[r].clean /\ desk'[r].listed = desk[r].listed
        /\ desk'[r].added = desk[r].added
    BY <1>0, <2>1 DEF Desk
  <2>3. Accounted(r)'
    BY <1>0, <2>1, <2>2 DEF Accounted, Importing
  <2> QED
    BY <1>0, <2>3, ImportsStep
<1>2. CASE ImportFlush(r)
  <2> DEFINE n == desk[r].name
  <2>1. vaults' = vaults /\ desk[r].op = "import_flush"
    BY <1>2 DEF ImportFlush
  <2>2. CASE vaults[n] = None
    <3>1. desk'[r] = [desk[r] EXCEPT !.op = "import", !.added = @ \cup {n}]
      BY <1>2, <2>2 DEF ImportFlush, RowsInv, Typed
    <3>2. /\ desk'[r].op = "import" /\ desk'[r].added = desk[r].added \cup {n}
          /\ desk'[r].todo = desk[r].todo
          /\ desk'[r].clean = desk[r].clean /\ desk'[r].listed = desk[r].listed
      BY <1>0, <3>1 DEF Desk
    <3>3. Accounted(r)'
      BY <1>0, <2>1, <3>2 DEF Accounted, Importing
    <3> QED
      BY <1>0, <3>3, ImportsStep
  <2>3. CASE vaults[n] # None
    <3>1. desk'[r] = [desk[r] EXCEPT !.op = "import", !.added = {}, !.clean = FALSE]
      BY <1>2, <2>3 DEF ImportFlush, RowsInv, Typed
    <3>2. ~desk'[r].clean
      BY <1>0, <3>1 DEF Desk
    <3> QED
      BY <1>0, <3>2, ImportsStep DEF Accounted
  <2> QED
    BY <2>2, <2>3
<1>3. CASE ImportCommit(r)
  BY <1>0, <1>3, Leaving, IdleIsDesk, ImportsStep DEF ImportCommit, Importing
<1> QED
  BY <1>1, <1>2, <1>3

LEMMA BeginsKeepsImports ==
  ASSUME RowsInv, ImportsInv, NEW r \in Desks, NEW kinds, AdminBegins(r, kinds)
  PROVE  ImportsInv'
<1>0. Only(r) /\ RowsStay /\ desk[r] \in Desk
  BY BeginsKeepsRows, DeskOf
<1>1. CASE ImportList(r)
  <2>1. desk'[r] = [desk[r] EXCEPT !.op = "import", !.todo = accounts, !.listed = accounts]
    BY <1>1 DEF ImportList, RowsInv, Typed
  <2>2. desk'[r].todo = accounts /\ desk'[r].listed = accounts
    BY <1>0, <2>1 DEF Desk
  <2> QED
    BY <1>0, <2>2, ImportsStep DEF Accounted
<1>2. CASE ~ImportList(r)
  <2>1. ASSUME NEW n \in Names, NEW ty \in Types, NEW b \in BOOLEAN, CreateVault(r, n, ty, b)
        PROVE  desk'[r].op = "create_account"
    BY <1>0, <2>1 DEF CreateVault, RowsInv, Typed, Desk
  <2>2. ASSUME NEW n \in Names, NEW b \in BOOLEAN, PatchVault(r, n, b)
        PROVE  desk'[r].op = "patch"
    BY <1>0, <2>2 DEF PatchVault, RowsInv, Typed, Desk
  <2>3. desk'[r].op \in {"create_account", "patch"}
    BY <1>2, <2>1, <2>2 DEF AdminBegins
  <2> QED
    BY <1>0, <2>3, ImportsStep DEF Importing
<1> QED
  BY <1>1, <1>2

\* What all other steps of a session lead to is no import.
LEMMA OthersKeepImports ==
  ASSUME RowsInv, ImportsInv, NEW r \in Desks, NEW known \in BOOLEAN,
         \/ CreateAccount(r) \/ CreateFlush(r) \/ CreateAssets(r, known) \/ CreateCommit(r)
         \/ PatchCommit(r)
         \/ \E n \in Names : ActivateLook(r, n, known)
         \/ ActivateCall(r) \/ ActivateRefused(r) \/ ActivateCommit(r)
  PROVE  ImportsInv'
<1>0. Only(r) /\ RowsStay /\ desk[r] \in Desk
  BY CreateKeepsRows, PatchKeepsRows, ActivateKeepsRows, DeskOf
<1>1. \/ desk'[r] = Idle
      \/ desk'[r].op \in {"create_flush", "create_assets", "create_commit", "activate",
                          "activate_commit"}
  BY <1>0, IdleIsDesk
  DEF CreateAccount, CreateFlush, CreateAssets, CreateCommit, PatchCommit, ActivateLook,
    ActivateCall, ActivateRefused, ActivateCommit, Leave, Goes, RowsInv, Typed, Desk
<1> QED
  BY <1>0, <1>1, IdleIsDesk, ImportsStep DEF Importing

LEMMA RequestKeepsImports ==
  ASSUME RowsInv, ImportsInv, NEW r \in Requests,
         \/ AdminRequest(r) \/ ActivateRequest(r) \/ EnsureRequest(r)
         \/ RequestStep(r) \/ RequestDropped(r)
  PROVE  ImportsInv'
<1>0. r \in Desks /\ Known \in BOOLEAN
  BY DEF Desks, Known
<1>1. CASE AdminRequest(r)
  BY <1>0, <1>1, BeginsKeepsImports DEF AdminRequest
<1>2. CASE ActivateRequest(r)
  BY <1>0, <1>2, OthersKeepImports DEF ActivateRequest
<1>3. CASE EnsureRequest(r)
  <2>1. PICK n \in Servable : ActivateLook(r, n, Known)
    BY <1>3 DEF EnsureRequest, EnsureLook
  <2>2. n \in Names
    BY DEF Servable, Primaries, OfType
  <2> QED
    BY <1>0, <2>1, <2>2, OthersKeepImports
<1>4. CASE RequestStep(r)
  BY <1>0, <1>4, ImportKeepsImports, OthersKeepImports DEF RequestStep, Handled
<1>5. CASE RequestDropped(r)
  <2>1. Only(r) /\ RowsStay /\ desk'[r] = Idle
    BY <1>0, <1>5, RequestKeepsRows, Leaving DEF RequestDropped, Drop
  <2> QED
    BY <1>0, <2>1, IdleIsDesk, ImportsStep DEF Importing
<1> QED
  BY <1>1, <1>2, <1>3, <1>4, <1>5

LEMMA ImportsFrame ==
  ASSUME ImportsInv, UNCHANGED <<vaults, desk>>
  PROVE  ImportsInv'
BY DEF ImportsInv, Accounted, Importing

LEMMA PodKeepsImports ==
  ASSUME RowsInv, ImportsInv, NEW p \in Pods,
         StartStep(p) \/ FetchFails(p) \/ BootTrouble(p) \/ Crash(p)
  PROVE  ImportsInv'
<1>0. p \in Boots /\ p \in Desks
  BY StartUpAssumption DEF StartUpAssumption, Desks
<1>1. CASE BootStep(p) \/ BootTrouble(p)
  <2>1. Only(p) /\ RowsStay /\ desk[p] \in Desk
    BY <1>0, <1>1, BootKeepsRows, DeskOf DEF BootStep, BootTrouble
  <2>2. desk'[p] = Idle \/ desk'[p].op \in {"boot_write", "boot_account", "boot_insert"}
    BY <1>0, <1>1, <2>1, IdleIsDesk
    DEF BootStep, BootTrouble, BootAction, BootRefused, BootFound, BootPromotes, BootWrite,
      BootMissing, BootAccount, BootInsert, Leave, Goes, RowsInv, Typed, Desk
  <2> QED
    BY <1>0, <2>1, <2>2, IdleIsDesk, ImportsStep DEF Importing
<1>2. CASE Crash(p)
  <2>1. Leave(p) /\ vaults' = vaults
    BY <1>2 DEF Crash, Leave
  <2>2. Only(p) /\ RowsStay /\ desk'[p] = Idle
    BY <1>0, <2>1, Leaving DEF RowsStay, RowsInv, Typed
  <2> QED
    BY <1>0, <2>2, IdleIsDesk, ImportsStep DEF Importing
<1>3. CASE FetchFails(p) \/ Start(p) \/ LookNatives(p) \/ InsertNatives(p) \/ LookTokens(p)
             \/ InsertTokens(p) \/ RegistryGivesUp(p)
  BY <1>3, ImportsFrame
     DEF FetchFails, Start, LookNatives, InsertNatives, LookTokens, InsertTokens,
       RegistryGivesUp, treasury
<1> QED
  BY <1>1, <1>2, <1>3 DEF StartStep

LEMMA ImportsKept == RowsInv /\ ImportsInv /\ [Next]_vars => ImportsInv'
<1> SUFFICES ASSUME RowsInv, ImportsInv, [Next]_vars PROVE ImportsInv'
  OBVIOUS
<1>1. CASE \E p \in Pods : StartStep(p) \/ FetchFails(p) \/ BootTrouble(p) \/ Crash(p)
  BY <1>1, PodKeepsImports
<1>2. CASE \E r \in Requests : AdminRequest(r) \/ ActivateRequest(r) \/ EnsureRequest(r)
                                 \/ RequestStep(r) \/ RequestDropped(r)
  BY <1>2, RequestKeepsImports
<1>3. CASE \E t \in Tasks : RefreshBegins(t) \/ RefreshWithoutRedis(t) \/ RefreshEnds(t)
  BY <1>3, ImportsFrame DEF RefreshBegins, RefreshWithoutRedis, RefreshEnds, treasury
<1>4. CASE KeyExpires
  BY <1>4, ImportsFrame DEF KeyExpires, treasury
<1>5. CASE UNCHANGED vars
  BY <1>5, ImportsFrame DEF vars, treasury
<1> QED
  BY <1>1, <1>2, <1>3, <1>4, <1>5 DEF Next

LEMMA CommitStoresAll ==
  ASSUME RowsInv, ImportsInv, NEW r \in Requests, desk[r].todo = {}, desk[r].clean,
         ImportCommit(r), NEW n \in desk[r].listed
  PROVE  vaults'[n] # None
<1>1. r \in Desks /\ desk[r] \in Desk /\ n \in Names /\ RowsStay
  <2>1. r \in Desks
    BY DEF Desks
  <2> QED
    BY <2>1, ImportKeepsRows, DeskOf DEF Desk
<1>2. vaults[n] # None \/ n \in desk[r].added
  BY <1>1 DEF ImportsInv, Accounted, Importing, ImportCommit
<1>3. CASE vaults[n] # None
  BY <1>1, <1>3 DEF RowsStay
<1>4. CASE n \in desk[r].added
  <2>1. vaults'[n] = [type |-> TypeOf[n], primary |-> FALSE]
    BY <1>1, <1>4 DEF ImportCommit
  <2>2. [type |-> TypeOf[n], primary |-> FALSE] \in Row
    BY <1>1, TreasuryAssumption DEF TreasuryAssumption, Row
  <2> QED
    BY <2>1, <2>2, NoneIsNoRow
<1> QED
  BY <1>2, <1>3, <1>4

(* An import that reports no error has a row for every account it has listed, however
   many others insert rows of the same accounts meanwhile, promotions and starts of pods
   included (api/treasury.py:757-797). *)
THEOREM CleanImportStoresAll == Spec => CleanImport
<1>1. Init => RowsInv /\ ImportsInv
  BY RowsStart, ImportsStart
<1>2. RowsInv /\ ImportsInv /\ [Next]_vars => RowsInv' /\ ImportsInv'
  BY RowsKept, ImportsKept
<1>3. RowsInv /\ ImportsInv =>
        [\A r \in Requests :
           desk[r].op = "import" /\ desk[r].todo = {} /\ desk[r].clean /\ ImportCommit(r) =>
             \A n \in desk[r].listed : vaults'[n] # None]_vars
  BY CommitStoresAll
<1> QED
  BY <1>1, <1>2, <1>3, PTL DEF Spec, CleanImport

-----------------------------------------------------------------------------
(* Starts. *)

(* A pod that found no HOT vault goes on to create one: if the default has got a row
   since, another pod inserted it, as the primary. *)
BootHeld(p) ==
  desk[p].op \in {"boot_account", "boot_insert"} /\ Default \in OfType("hot") =>
    Primary(Default)

BootInv == \A p \in Pods : BootHeld(p)

LEMMA BootInvStarts == Init => BootInv
BY PodIsNoRequest DEF Init, TreasuryInit, BootInv, BootHeld, Idle

LEMMA BootInvFrame ==
  ASSUME BootInv, vaults' = vaults, \A p \in Pods : desk'[p] = desk[p]
  PROVE  BootInv'
BY DEF BootInv, BootHeld, OfType, Primary

\* No row of vaults changes under a pod that is starting, but by another pod.
LEMMA RequestKeepsBootInv ==
  ASSUME RowsInv, PrimInv, BootInv, NEW r \in Requests,
         \/ AdminRequest(r) \/ ActivateRequest(r) \/ EnsureRequest(r)
         \/ RequestStep(r) \/ RequestDropped(r)
  PROVE  BootInv'
<1>1. \A p \in Pods : desk'[p] = desk[p]
  BY RequestKeepsRows, PodIsNoRequest DEF Only
<1>2. CASE Administers(r)
  <2>1. \A p \in Pods : desk'[p].op = "idle"
    BY <1>1, <1>2, IdleIsDesk DEF PrimInv
  <2> QED
    BY <2>1 DEF BootInv, BootHeld
<1>3. CASE ~Administers(r)
  <2>1. vaults' = vaults
    BY <1>3
    DEF Administers, AdminRequest, AdminBegins, CreateVault, PatchVault, ImportList,
      ActivateRequest, EnsureRequest, EnsureLook, ActivateLook, RequestStep, Handled,
      CreateAccount, CreateFlush, CreateAssets, CreateCommit, PatchCommit, ImportLook,
      ImportFlush, ImportCommit, ActivateCall, ActivateRefused, ActivateCommit,
      RequestDropped, Drop
  <2> QED
    BY <1>1, <2>1, BootInvFrame
<1> QED
  BY <1>2, <1>3

LEMMA HotRow == [type |-> "hot", primary |-> TRUE] # None
<1>1. [type |-> "hot", primary |-> TRUE] \in Row
  BY NoneIsNoRow DEF Row
<1> QED
  BY <1>1, NoneIsNoRow

\* What the bootstrap stores is a primary HOT vault.
LEMMA BootStores ==
  ASSUME RowsInv, PrimInv, NEW p \in Pods, BootWrite(p) \/ BootInsert(p)
  PROVE  /\ desk'[p] = Idle /\ RowsStay
         /\ \A n \in Names : Primary(n) => Primary(n)'
         /\ \A n \in Names : vaults'[n] # vaults[n] => Primary(n)' /\ vaults'[n].type = "hot"
         /\ BootWrite(p) => \E n \in Names : Primary(n)' /\ vaults'[n].type = "hot"
<1>0. p \in Desks /\ p \in Boots /\ BootAction(p)
  BY StartUpAssumption DEF StartUpAssumption, Desks, BootAction
<1>1. desk'[p] = Idle /\ RowsStay
  BY <1>0, BootKeepsRows, Leaving DEF BootWrite, BootInsert
<1>2. CASE BootWrite(p)
  <2> DEFINE n == desk[p].name
  <2>1. vaults' = [vaults EXCEPT ![n].primary = TRUE] /\ n \in OfType("hot")
    BY <1>2 DEF BootWrite, PrimInv, BootSees
  <2>2. n \in Names /\ vaults[n] \in Row /\ vaults[n] # None /\ vaults[n].type = "hot"
    BY <2>1 DEF OfType, RowsInv, Typed
  <2>3. /\ vaults'[n] = [vaults[n] EXCEPT !.primary = TRUE]
        /\ \A o \in Names \ {n} : vaults'[o] = vaults[o]
    BY <2>1, <2>2 DEF RowsInv, Typed
  <2>4. vaults'[n].primary /\ vaults'[n].type = "hot" /\ vaults'[n] # None
    BY <1>1, <2>2, <2>3 DEF Row, RowsStay
  <2> QED
    BY <1>1, <2>2, <2>3, <2>4 DEF Primary
<1>3. CASE BootInsert(p)
  <2>0. ~BootWrite(p)
    BY <1>3 DEF BootInsert, BootWrite
  <2>1. CASE vaults[Default] # None
    BY <1>1, <1>3, <2>0, <2>1 DEF BootInsert, Primary
  <2>2. CASE vaults[Default] = None
    <3>1. vaults' = [vaults EXCEPT ![Default] = [type |-> "hot", primary |-> TRUE]]
      BY <1>3, <2>2 DEF BootInsert
    <3>2. /\ vaults'[Default] = [type |-> "hot", primary |-> TRUE]
          /\ \A o \in Names \ {Default} : vaults'[o] = vaults[o]
      BY <3>1, NoneIsNoRow DEF RowsInv, Typed
    <3>3. vaults'[Default].primary /\ vaults'[Default].type = "hot" /\ vaults'[Default] # None
      BY <3>2, HotRow
    <3> QED
      BY <1>1, <2>0, <2>2, <3>2, <3>3 DEF Primary
  <2> QED
    BY <2>1, <2>2
<1> QED
  BY <1>2, <1>3

LEMMA BootStepKeepsBootInv ==
  ASSUME RowsInv, PrimInv, BootInv, NEW p \in Pods, BootStep(p) \/ BootTrouble(p)
  PROVE  BootInv'
<1>0. /\ p \in Boots /\ p \in Desks /\ Only(p) /\ RowsStay
      /\ \A q \in Pods \ {p} : desk'[q] = desk[q]
  <2>1. p \in Boots /\ p \in Desks
    BY StartUpAssumption DEF StartUpAssumption, Desks
  <2> QED
    BY <2>1, BootKeepsRows, PodIsNoRequest DEF BootStep, BootTrouble, Only
<1>1. CASE BootWrite(p) \/ BootInsert(p)
  <2>1. /\ desk'[p] = Idle /\ \A n \in Names : Primary(n) => Primary(n)'
        /\ \A n \in Names : vaults'[n] # vaults[n] => Primary(n)' /\ vaults'[n].type = "hot"
    BY <1>1, BootStores
  <2>2. ASSUME NEW q \in Pods, q # p PROVE BootHeld(q)'
    BY <1>0, <2>1, <2>2, NoneIsNoRow DEF BootInv, BootHeld, OfType
  <2>3. BootHeld(p)'
    BY <2>1, IdleIsDesk DEF BootHeld
  <2> QED
    BY <2>2, <2>3 DEF BootInv
<1>2. CASE BootMissing(p)
  <2>1. vaults' = vaults /\ OfType("hot") = {}
    BY <1>2 DEF BootMissing
  <2> QED
    BY <2>1 DEF BootInv, BootHeld, OfType
<1>3. CASE BootAccount(p)
  <2>1. vaults' = vaults /\ desk[p].op = "boot_account"
    BY <1>3 DEF BootAccount
  <2> QED
    BY <1>0, <2>1 DEF BootInv, BootHeld, OfType, Primary
<1>4. CASE BootFound(p) \/ BootPromotes(p) \/ BootRefused(p)
  <2>1. vaults' = vaults /\ desk'[p].op \in {"idle", "boot_write"}
    BY <1>0, <1>4, IdleIsDesk
    DEF BootFound, BootPromotes, BootRefused, Leave, RowsInv, Typed, Desk
  <2> QED
    BY <1>0, <2>1 DEF BootInv, BootHeld, OfType, Primary
<1> QED
  BY <1>1, <1>2, <1>3, <1>4 DEF BootStep, BootTrouble, BootAction

LEMMA PodKeepsBootInv ==
  ASSUME RowsInv, PrimInv, BootInv, NEW p \in Pods,
         StartStep(p) \/ FetchFails(p) \/ BootTrouble(p) \/ Crash(p)
  PROVE  BootInv'
<1>1. CASE BootStep(p) \/ BootTrouble(p)
  BY <1>1, BootStepKeepsBootInv
<1>2. CASE Crash(p)
  <2>1. Leave(p) /\ vaults' = vaults /\ p \in Desks
    BY <1>2, PodIsNoRequest DEF Crash, Leave
  <2>2. desk'[p].op = "idle" /\ \A q \in Pods \ {p} : desk'[q] = desk[q]
    BY <2>1, Leaving, IdleIsDesk, PodIsNoRequest DEF Only
  <2> QED
    BY <2>1, <2>2 DEF BootInv, BootHeld, OfType, Primary
<1>3. CASE FetchFails(p) \/ Start(p) \/ LookNatives(p) \/ InsertNatives(p) \/ LookTokens(p)
             \/ InsertTokens(p) \/ RegistryGivesUp(p)
  BY <1>3, BootInvFrame
     DEF FetchFails, Start, LookNatives, InsertNatives, LookTokens, InsertTokens,
       RegistryGivesUp, treasury
<1> QED
  BY <1>1, <1>2, <1>3 DEF StartStep

LEMMA BootInvKept == RowsInv /\ PrimInv /\ BootInv /\ [Next]_vars => BootInv'
<1> SUFFICES ASSUME RowsInv, PrimInv, BootInv, [Next]_vars PROVE BootInv'
  OBVIOUS
<1>1. CASE \E p \in Pods : StartStep(p) \/ FetchFails(p) \/ BootTrouble(p) \/ Crash(p)
  BY <1>1, PodKeepsBootInv
<1>2. CASE \E r \in Requests : AdminRequest(r) \/ ActivateRequest(r) \/ EnsureRequest(r)
                                 \/ RequestStep(r) \/ RequestDropped(r)
  BY <1>2, RequestKeepsBootInv
<1>3. CASE \E t \in Tasks : RefreshBegins(t) \/ RefreshWithoutRedis(t) \/ RefreshEnds(t)
  BY <1>3, BootInvFrame DEF RefreshBegins, RefreshWithoutRedis, RefreshEnds, treasury
<1>4. CASE KeyExpires
  BY <1>4, BootInvFrame DEF KeyExpires, treasury
<1>5. CASE UNCHANGED vars
  BY <1>5, BootInvFrame DEF vars, treasury
<1> QED
  BY <1>1, <1>2, <1>3, <1>4, <1>5 DEF Next

(* A pod comes up by the end of its bootstrap, or by a trouble. *)
LEMMA UpOnlyByBoot ==
  ASSUME RowsInv, PrimInv, [Next]_vars, NEW p \in Pods,
         stage[p] = "boot", stage'[p] = "up", p \notin troubled'
  PROVE  BootStep(p) /\ desk'[p] = Idle
<1>1. stage' # stage
  OBVIOUS
<1>2. PICK q \in Pods : StartStep(q) \/ FetchFails(q) \/ BootTrouble(q) \/ Crash(q)
  BY <1>1
  DEF Next, AdminRequest, ActivateRequest, EnsureRequest, RequestStep, RequestDropped,
    RefreshBegins, RefreshWithoutRedis, RefreshEnds, KeyExpires, vars, pods
<1>3. /\ q = p
      /\ BootStep(p) \/ BootTrouble(p)
  BY <1>2
  DEF StartStep, Start, LookNatives, InsertNatives, LookTokens, InsertTokens, RegistryGivesUp,
    FetchFails, BootStep, BootTrouble, Crash, Moves, PrimInv
<1>4. BootStep(p)
  BY <1>3 DEF BootTrouble
<1> QED
  BY <1>4 DEF BootStep, Moves, PrimInv

LEMMA UpWithPrimary ==
  ASSUME RowsInv, PrimInv, BootInv, [Next]_vars, NEW p \in Pods,
         stage[p] = "boot", stage'[p] = "up", p \notin troubled'
  PROVE  \/ Primaries("hot")' # {} \/ Cardinality(OfType("hot")') > 1
         \/ vaults'[Default] # None /\ vaults'[Default].type # "hot"
<1>1. BootStep(p) /\ desk'[p] = Idle /\ p \in Desks /\ desk[p] \in Desk
  BY UpOnlyByBoot, PodIsNoRequest, DeskOf
<1>2. CASE BootFound(p)
  BY <1>2 DEF BootFound, BootDecided, Primaries, OfType
<1>3. CASE BootWrite(p)
  <2>1. PICK n \in Names : Primary(n)' /\ vaults'[n].type = "hot"
    BY <1>3, BootStores
  <2> QED
    BY <2>1 DEF Primary, Primaries, OfType
<1>4. CASE BootInsert(p)
  <2>1. vaults'[Default] = IF vaults[Default] # None THEN vaults[Default]
                             ELSE [type |-> "hot", primary |-> TRUE]
    BY <1>4, NoneIsNoRow DEF BootInsert, RowsInv, Typed
  <2>2. vaults'[Default] # None
    BY <1>4, <2>1, HotRow
  <2>3. CASE vaults'[Default].type = "hot"
    <3>1. Primary(Default)'
      <4>1. CASE vaults[Default] = None
        BY <2>1, <2>2, <4>1 DEF Primary
      <4>2. CASE vaults[Default] # None
        <5>1. Default \in OfType("hot") /\ desk[p].op = "boot_insert"
          BY <1>4, <2>1, <2>3, <4>2, NoneIsNoRow DEF OfType, BootInsert
        <5> QED
          BY <2>1, <4>2, <5>1 DEF BootInv, BootHeld, Primary
      <4> QED
        BY <4>1, <4>2
    <3> QED
      BY <2>3, <3>1, NoneIsNoRow DEF Primary, Primaries, OfType
  <2> QED
    BY <2>2, <2>3
<1>5. CASE BootPromotes(p) \/ BootMissing(p) \/ BootAccount(p)
  <2>1. desk'[p].op # "idle"
    BY <1>1, <1>5 DEF BootPromotes, BootMissing, BootAccount, Goes, RowsInv, Typed, Desk
  <2> QED
    BY <1>1, <2>1, IdleIsDesk
<1> QED
  BY <1>1, <1>2, <1>3, <1>4, <1>5 DEF BootStep, BootAction

(* A pod that comes up without trouble leaves a primary HOT vault behind, however many
   start at once, wherever they or earlier ones died, and whatever administrators have
   created, imported or promoted before; unless there are several HOT vaults, or
   HOT_DEFAULT was made a vault of another type (treasury_bootstrap.py:28-116). *)
THEOREM BootLeavesPrimary ==
  ASSUME "overlap" \notin Stimuli
  PROVE  Spec => PrimaryAtBoot
<1>1. Init => RowsInv /\ PrimInv /\ BootInv
  BY RowsStart, PrimStart, BootInvStarts
<1>2. RowsInv /\ PrimInv /\ BootInv /\ [Next]_vars => RowsInv' /\ PrimInv' /\ BootInv'
  BY RowsKept, PrimariesKept, BootInvKept
<1>3. RowsInv /\ PrimInv /\ BootInv /\ [Next]_vars =>
        [\A p \in Pods :
           stage[p] = "boot" /\ stage'[p] = "up" /\ p \notin troubled' =>
             \/ Primaries("hot")' # {} \/ Cardinality(OfType("hot")') > 1
             \/ vaults'[Default] # None /\ vaults'[Default].type # "hot"]_vars
  BY UpWithPrimary
<1> QED
  BY <1>1, <1>2, <1>3, PTL DEF Spec, PrimaryAtBoot
=============================================================================
