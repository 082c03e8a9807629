------------------------------ MODULE Treasury ------------------------------
(***************************************************************************)
(* Treasury vaults: the account at Fireblocks first, the row in the        *)
(* database second.  Pods look for a primary HOT vault when they start and *)
(* make one; administrators create, promote and import vaults; an asset is *)
(* activated in a vault by them, or by a transfer that needs it.           *)
(*                                                                         *)
(* An account stands for its provider_vault_id, which is unique in the     *)
(* table vaults.  Fireblocks refuses a second account of one name.         *)
(***************************************************************************)
EXTENDS FiniteSets, Integers

CONSTANTS
  Boots,      \* sessions in which a pod starts
  Requests,   \* sessions in which a request is handled
  Names,      \* names an account can have
  Default,    \* HOT_DEFAULT
  TypeOf,     \* the type /sync-vaults reads from a name
  Types,      \* types an administrator asks for
  Stimuli,    \* the calls and failures that can happen
  None        \* no row

ASSUME TreasuryAssumption ==
  /\ IsFiniteSet(Names) /\ Default \in Names /\ TypeOf \in [Names -> STRING] /\ TypeOf[Default] = "hot"
  /\ Boots \cap Requests = {} /\ Types \subseteq STRING
  /\ None \notin [type : STRING, primary : BOOLEAN]

VARIABLES
  accounts,  \* accounts at Fireblocks
  active,    \* those in which Fireblocks has the asset
  vaults,    \* the table vaults: [type, primary] or None
  wallets,   \* how many rows the table wallets has for the asset in each vault
  desk       \* open sessions

treasury == <<accounts, active, vaults, wallets, desk>>

Desks == Boots \cup Requests

\* name, type, primary: of the vault at hand; was: whether it was primary when it
\* was loaded; unset: primaries loaded to be unset;
\* todo, listed, clean: accounts an import still has to look at, has listed, and
\* whether it met no error; added: rows flushed and not committed; holds: a wallet
\* row is to be added.
Idle ==
  [op |-> "idle", name |-> Default, type |-> "hot", primary |-> FALSE, was |-> FALSE,
   unset |-> {}, todo |-> {}, listed |-> {}, clean |-> TRUE, added |-> {}, holds |-> FALSE]

TreasuryInit ==
  /\ accounts \in SUBSET (Names \ {Default})
  /\ active = {}
  /\ vaults = [n \in Names |-> None]
  /\ wallets = [n \in Names |-> 0]
  /\ desk = [s \in Desks |-> Idle]

OfType(ty) == {n \in Names : vaults[n] # None /\ vaults[n].type = ty}
Primaries(ty) == {n \in OfType(ty) : vaults[n].primary}

Leave(s) == desk' = [desk EXCEPT ![s] = Idle]
Goes(s, o) == desk' = [desk EXCEPT ![s].op = o]

\* No other session has inserted a row for this account, or unset a primary
\* vault, without having committed.
Unlocked(s, n) ==
  \A z \in Desks \ {s} :
    /\ n \notin desk[z].added
    /\ desk[z].op = "create_commit" => n \notin desk[z].unset

\* The answer of Fireblocks to a failing call says nothing of what it did.
Lost(before, after) == {before, after}

-----------------------------------------------------------------------------
(* bootstrap_default_hot_wallet *)

\* There is a primary HOT vault, or more vaults than the query can choose from:
\* MultipleResultsFound ends the bootstrap as success does.
BootDecided ==
  \/ Primaries("hot") # {}
  \/ Cardinality(OfType("hot")) > 1

BootFound(p) ==
  /\ desk[p].op = "idle" /\ BootDecided
  /\ Leave(p)
  /\ UNCHANGED <<accounts, active, vaults, wallets>>

\* Slip: the first of several HOT vaults is taken.
BootPromotesFirst(p) ==
  /\ desk[p].op = "idle" /\ Primaries("hot") = {}
  /\ \E n \in OfType("hot") : desk' = [desk EXCEPT ![p].op = "boot_write", ![p].name = n]
  /\ UNCHANGED <<accounts, active, vaults, wallets>>

(* The only HOT vault is not primary: it is made so. *)
BootPromotes(p) ==
  /\ desk[p].op = "idle" /\ ~BootDecided
  /\ \E n \in OfType("hot") : desk' = [desk EXCEPT ![p].op = "boot_write", ![p].name = n]
  /\ UNCHANGED <<accounts, active, vaults, wallets>>

BootWrite(p) ==
  LET n == desk[p].name
  IN  /\ desk[p].op = "boot_write" /\ Unlocked(p, n)
      /\ vaults' = [vaults EXCEPT ![n].primary = TRUE]
      /\ Leave(p)
      /\ UNCHANGED <<accounts, active, wallets>>

BootMissing(p) ==
  /\ desk[p].op = "idle" /\ OfType("hot") = {}
  /\ Goes(p, "boot_account")
  /\ UNCHANGED <<accounts, active, vaults, wallets>>

\* Slip: "already exists" is an error like any other.
BootAccountOnce(p) ==
  /\ desk[p].op = "boot_account"
  /\ IF Default \in accounts THEN Leave(p) /\ UNCHANGED accounts
       ELSE Goes(p, "boot_insert") /\ accounts' = accounts \cup {Default}
  /\ UNCHANGED <<active, vaults, wallets>>

(* The account is created, or found by its name when it "already exists". *)
BootAccount(p) ==
  /\ desk[p].op = "boot_account"
  /\ accounts' = accounts \cup {Default}
  /\ Goes(p, "boot_insert")
  /\ UNCHANGED <<active, vaults, wallets>>

BootRefused(p) ==
  /\ "provider_fails" \in Stimuli
  /\ desk[p].op = "boot_account"
  /\ accounts' \in Lost(accounts, accounts \cup {Default})
  /\ Leave(p)
  /\ UNCHANGED <<active, vaults, wallets>>

(* provider_vault_id is unique: the slower of two pods rolls back. *)
BootInsert(p) ==
  /\ desk[p].op = "boot_insert" /\ Unlocked(p, Default)
  /\ vaults' = IF vaults[Default] # None THEN vaults
                 ELSE [vaults EXCEPT ![Default] = [type |-> "hot", primary |-> TRUE]]
  /\ Leave(p)
  /\ UNCHANGED <<accounts, active, wallets>>

BootAction(p) ==
  \/ BootFound(p) \/ BootPromotes(p) \/ BootWrite(p)
  \/ BootMissing(p) \/ BootAccount(p) \/ BootInsert(p)

-----------------------------------------------------------------------------
(* POST /treasury/vaults *)

Making(s) == desk[s].op \in {"create_account", "create_flush", "create_assets", "create_commit", "patch"}
Promoting(s) == Making(s) /\ desk[s].primary

\* Administrators promote one vault at a time (README, section 6).
OneAtATime == "overlap" \in Stimuli \/ \A s \in Requests : ~Promoting(s)

(* More than one primary of the type: 500 before anything is done. *)
CreateVault(r, n, ty, primary) ==
  /\ desk[r].op = "idle"
  /\ primary => OneAtATime /\ Cardinality(Primaries(ty)) <= 1
  /\ desk' = [desk EXCEPT ![r].op = "create_account", ![r].name = n, ![r].type = ty,
                          ![r].primary = primary,
                          ![r].unset = IF primary THEN Primaries(ty) ELSE {}]
  /\ UNCHANGED <<accounts, active, vaults, wallets>>

CreateAccount(r) ==
  LET n == desk[r].name
  IN  /\ desk[r].op = "create_account"
      /\ IF n \in accounts THEN Leave(r) ELSE Goes(r, "create_flush")
      /\ accounts' = accounts \cup {n}
      /\ UNCHANGED <<active, vaults, wallets>>

CreateFlush(r) ==
  LET n == desk[r].name
  IN  /\ desk[r].op = "create_flush" /\ \A o \in {n} \cup desk[r].unset : Unlocked(r, o)
      /\ IF vaults[n] # None THEN Leave(r)
           ELSE desk' = [desk EXCEPT ![r].op = "create_assets", ![r].added = {n}]
      /\ UNCHANGED <<accounts, active, vaults, wallets>>

(* The asset of the request is activated if it is registered; a failure of it
   is only logged. *)
CreateAssets(r, known) ==
  LET n == desk[r].name
  IN  /\ desk[r].op = "create_assets"
      /\ \/ /\ known
            /\ active' = active \cup {n}
            /\ desk' = [desk EXCEPT ![r].op = "create_commit", ![r].holds = TRUE]
         \/ Goes(r, "create_commit") /\ UNCHANGED active
      /\ UNCHANGED <<accounts, vaults, wallets>>

CreateCommit(r) ==
  LET d == desk[r]
  IN  /\ d.op = "create_commit"
      /\ vaults' = [n \in Names |->
           IF n = d.name THEN [type |-> d.type, primary |-> d.primary]
             ELSE IF n \in d.unset THEN [vaults[n] EXCEPT !.primary = FALSE] ELSE vaults[n]]
      /\ wallets' = IF d.holds THEN [wallets EXCEPT ![d.name] = @ + 1] ELSE wallets
      /\ Leave(r)
      /\ UNCHANGED <<accounts, active>>

-----------------------------------------------------------------------------
(* PATCH /treasury/vaults/{id}: the primaries of the type are loaded, all are
   unset, and whatever differs from what was loaded is written. *)

PatchVault(r, n, primary) ==
  /\ desk[r].op = "idle" /\ vaults[n] # None /\ vaults[n].type # "regular"
  /\ primary => OneAtATime
  /\ desk' = [desk EXCEPT ![r].op = "patch", ![r].name = n, ![r].primary = primary,
                ![r].was = vaults[n].primary,
                ![r].unset = IF primary THEN Primaries(vaults[n].type) \ {n} ELSE {}]
  /\ UNCHANGED <<accounts, active, vaults, wallets>>

PatchCommit(r) ==
  LET d == desk[r]
  IN  /\ d.op = "patch" /\ \A o \in {d.name} \cup d.unset : Unlocked(r, o)
      /\ vaults' = [n \in Names |->
           IF n = d.name /\ d.primary # d.was THEN [vaults[n] EXCEPT !.primary = d.primary]
             ELSE IF n \in d.unset THEN [vaults[n] EXCEPT !.primary = FALSE] ELSE vaults[n]]
      /\ Leave(r)
      /\ UNCHANGED <<accounts, active, wallets>>

-----------------------------------------------------------------------------
(* POST /treasury/sync-vaults *)

ImportList(r) ==
  /\ desk[r].op = "idle" /\ accounts # {}
  /\ desk' = [desk EXCEPT ![r].op = "import", ![r].todo = accounts, ![r].listed = accounts]
  /\ UNCHANGED <<accounts, active, vaults, wallets>>

\* In the order of the listing, which is the same for all.
Upcoming(r) == CHOOSE n \in desk[r].todo : TRUE

ImportLook(r) ==
  /\ desk[r].op = "import" /\ desk[r].todo # {}
  /\ desk' = [desk EXCEPT ![r].todo = @ \ {Upcoming(r)}, ![r].name = Upcoming(r),
                ![r].op = IF vaults[Upcoming(r)] = None THEN "import_flush" ELSE "import"]
  /\ UNCHANGED <<accounts, active, vaults, wallets>>

\* Slip: a row that is there already is no error.
ImportFlushQuiet(r) ==
  LET n == desk[r].name
  IN  /\ desk[r].op = "import_flush" /\ Unlocked(r, n)
      /\ desk' = [desk EXCEPT ![r].op = "import",
                    ![r].added = IF vaults[n] = None THEN @ \cup {n} ELSE {}]
      /\ UNCHANGED <<accounts, active, vaults, wallets>>

(* Somebody else has inserted the row meanwhile: the error is reported, and the
   rollback takes every row this import has flushed with it. *)
ImportFlush(r) ==
  LET n == desk[r].name
  IN  /\ desk[r].op = "import_flush" /\ Unlocked(r, n)
      /\ desk' = IF vaults[n] = None
                   THEN [desk EXCEPT ![r].op = "import", ![r].added = @ \cup {n}]
                   ELSE [desk EXCEPT ![r].op = "import", ![r].added = {}, ![r].clean = FALSE]
      /\ UNCHANGED <<accounts, active, vaults, wallets>>

ImportCommit(r) ==
  /\ desk[r].op = "import" /\ desk[r].todo = {}
  /\ vaults' = [n \in Names |-> IF n \in desk[r].added
                                  THEN [type |-> TypeOf[n], primary |-> FALSE] ELSE vaults[n]]
  /\ Leave(r)
  /\ UNCHANGED <<accounts, active, wallets>>

-----------------------------------------------------------------------------
(* POST /treasury/vaults/{id}/activate-asset, and ensure_asset_in_hot_wallet of
   a transfer that finds no HOT wallet with the asset. *)

Servable == IF Cardinality(Primaries("hot")) = 1 THEN Primaries("hot") ELSE {}

ActivateLook(r, n, known) ==
  /\ desk[r].op = "idle" /\ known /\ vaults[n] # None /\ vaults[n].type # "regular"
  /\ wallets[n] = 0
  /\ desk' = [desk EXCEPT ![r].op = "activate", ![r].name = n]
  /\ UNCHANGED <<accounts, active, vaults, wallets>>

EnsureLook(r, known) == \E n \in Servable : ActivateLook(r, n, known)

(* activate_asset_for_vault looks for a wallet once more; several are an error.
   "Already exists" is a success; the row may then have an empty address, when the
   account's entry for the asset is not found (103-116).  Addresses are not kept here. *)
ActivateCall(r) ==
  LET n == desk[r].name
  IN  /\ desk[r].op = "activate"
      /\ IF wallets[n] > 1 THEN Leave(r) /\ UNCHANGED active
           ELSE /\ active' = active \cup {n}
                /\ desk' = [desk EXCEPT ![r].op = "activate_commit", ![r].holds = wallets[n] = 0]
      /\ UNCHANGED <<accounts, vaults, wallets>>

\* Slip: the wallet is stored without an address when Fireblocks fails.
ActivateRefusedKept(r) ==
  /\ "provider_fails" \in Stimuli
  /\ desk[r].op = "activate"
  /\ active' \in Lost(active, active \cup {desk[r].name})
  /\ desk' = [desk EXCEPT ![r].op = "activate_commit", ![r].holds = wallets[desk[r].name] = 0]
  /\ UNCHANGED <<accounts, vaults, wallets>>

ActivateRefused(r) ==
  /\ "provider_fails" \in Stimuli
  /\ desk[r].op = "activate"
  /\ active' \in Lost(active, active \cup {desk[r].name})
  /\ Leave(r)
  /\ UNCHANGED <<accounts, vaults, wallets>>

(* Nothing is unique in the table wallets. *)
ActivateCommit(r) ==
  LET d == desk[r]
  IN  /\ d.op = "activate_commit"
      /\ wallets' = IF d.holds THEN [wallets EXCEPT ![d.name] = @ + 1] ELSE wallets
      /\ Leave(r)
      /\ UNCHANGED <<accounts, active, vaults>>

-----------------------------------------------------------------------------
(* The pod is gone, or the connection to the database: nothing is stored. *)
Drop(s) ==
  /\ desk[s] # Idle
  /\ Leave(s)
  /\ UNCHANGED <<accounts, active, vaults, wallets>>

(* kinds: what the request may be for. *)
AdminBegins(r, kinds) ==
  \/ /\ "create" \in kinds
     /\ \E n \in Names, ty \in Types, b \in BOOLEAN : CreateVault(r, n, ty, b)
  \/ "patch" \in kinds /\ \E n \in Names, b \in BOOLEAN : PatchVault(r, n, b)
  \/ "import" \in kinds /\ ImportList(r)

Handled(r, known) ==
  \/ CreateAccount(r) \/ CreateFlush(r) \/ CreateAssets(r, known) \/ CreateCommit(r)
  \/ PatchCommit(r) \/ ImportLook(r) \/ ImportFlush(r) \/ ImportCommit(r)
  \/ ActivateCall(r) \/ ActivateRefused(r) \/ ActivateCommit(r)
=============================================================================
