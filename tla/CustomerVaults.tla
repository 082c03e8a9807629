--------------------------- MODULE CustomerVaults ---------------------------
(***************************************************************************)
(* The vaults of customers: POST /vault/create and GET /wallet/get over    *)
(* the accounts of the provider, one session of get_db for each request.   *)
(* The session is only closed at the end, so what was not committed by     *)
(* then is rolled back.                                                    *)
(*                                                                         *)
(* An account is named by its name, a vault row and a wallet row by the    *)
(* request that makes it; all wallets are for one asset.                   *)
(***************************************************************************)
EXTENDS Naturals, FiniteSets

CONSTANTS
  Requests,
  Names,       \* of vaults
  Alike,       \* pairs of names that _vault_names_match takes for one
  MaxMishaps,  \* bound: failures of the provider
  None

\* What an instance gives.
CustomerVaultsAssumption ==
  /\ Alike \subseteq Names \X Names /\ \A n \in Names : <<n, n>> \in Alike
  /\ MaxMishaps \in Nat /\ None \notin Requests \cup Names

VARIABLES
  accounts, \* provider: names of the accounts
  active,   \* provider: accounts in which the asset is activated
  vaults,   \* committed row of each account (provider_vault_id is unique), or None
  wallets,  \* committed rows
  desk,     \* what each request is doing
  answered, \* rows whose ids were answered
  mishaps

vars == <<accounts, active, vaults, wallets, desk, answered, mishaps>>

Idle == [op |-> "none", name |-> None, assets |-> FALSE, step |-> "idle",
         account |-> None, vault |-> None, flushed |-> FALSE, added |-> FALSE]

Init ==
  /\ accounts = {} /\ active = {} /\ wallets = {} /\ answered = {} /\ mishaps = 0
  /\ vaults = [a \in Names |-> None]
  /\ desk = [r \in Requests |-> Idle]

Mishap == mishaps < MaxMishaps /\ mishaps' = mishaps + 1

At(r, step) == desk[r].step = step
Proceed(r, step) == desk' = [desk EXCEPT ![r].step = step]

(* The session is closed: rows that were flushed or added are gone. *)
Closed(r) ==
  desk' = [desk EXCEPT ![r].step = "done", ![r].flushed = FALSE, ![r].added = FALSE]

VaultRow(v) == <<"vault", v>>
WalletRow(w) == <<"wallet", w>>

(* A vault row is in hand: create_vault activates the assets of the request,
   get_or_create_wallet_for_vault looks for its one. *)
InHand(r, account, vault, mine) ==
  desk' = [desk EXCEPT ![r].account = account, ![r].vault = vault, ![r].flushed = mine,
             ![r].step = IF desk[r].op = "wallet" THEN "wallet"
                         ELSE IF desk[r].assets THEN "activate" ELSE "answer"]

\* Another session has flushed a row for this account: an insert waits for its end.
Awaited(r, account) ==
  \E q \in Requests \ {r} : desk[q].flushed /\ desk[q].account = account

WalletsOf(vault) == {w \in wallets : w.vault = vault}

-----------------------------------------------------------------------------
Create(r, n, assets) ==
  /\ At(r, "idle")
  /\ desk' = [desk EXCEPT ![r].op = "create", ![r].name = n, ![r].assets = assets,
                          ![r].step = "find"]
  /\ UNCHANGED <<accounts, active, vaults, wallets, answered, mishaps>>

GetWallet(r, n) ==
  /\ At(r, "idle")
  /\ desk' = [desk EXCEPT ![r].op = "wallet", ![r].name = n, ![r].step = "look"]
  /\ UNCHANGED <<accounts, active, vaults, wallets, answered, mishaps>>

NamedRows(n) == {a \in Names : vaults[a] # None /\ vaults[a].name = n}

(* The row of that name, looked for by GET /wallet/get and again by create_vault;
   two of them are an error. *)
Find(r) ==
  /\ At(r, "look") \/ At(r, "find")
  /\ LET rows == NamedRows(desk[r].name) IN
     \/ \E a \in rows : rows = {a} /\ InHand(r, a, vaults[a].id, FALSE)
     \/ rows = {} /\ Proceed(r, IF At(r, "look") THEN "find" ELSE "create")
     \/ Cardinality(rows) > 1 /\ Closed(r)
  /\ UNCHANGED <<accounts, active, vaults, wallets, answered, mishaps>>

(* The provider makes the account, or says that there is one (9004). *)
ProviderCreates(r) ==
  /\ At(r, "create")
  /\ IF desk[r].name \in accounts
     THEN Proceed(r, "list") /\ UNCHANGED accounts
     ELSE /\ accounts' = accounts \cup {desk[r].name}
          /\ desk' = [desk EXCEPT ![r].account = desk[r].name, ![r].step = "flush"]
  /\ UNCHANGED <<active, vaults, wallets, answered, mishaps>>

(* Any other error is the request's, also when only the answer was lost. *)
ProviderFails(r) ==
  /\ At(r, "create") /\ Mishap
  /\ accounts' \in {accounts, accounts \cup {desk[r].name}}
  /\ Closed(r)
  /\ UNCHANGED <<active, vaults, wallets, answered>>

(* The first account of the listing whose name is taken for the one wanted, or an
   error if the listings fail. *)
ListAccounts(r) ==
  /\ At(r, "list")
  /\ \/ /\ \E a \in accounts :
             /\ <<a, desk[r].name>> \in Alike
             /\ desk' = [desk EXCEPT ![r].account = a, ![r].step = "sync"]
        /\ UNCHANGED mishaps
     \/ Mishap /\ Closed(r)
  /\ UNCHANGED <<accounts, active, vaults, wallets, answered>>

(* _sync_vault_from_provider: the row of that account if there is one. *)
Sync(r) ==
  /\ At(r, "sync")
  /\ LET a == desk[r].account IN
     IF vaults[a] # None THEN InHand(r, a, vaults[a].id, FALSE) ELSE Proceed(r, "insert")
  /\ UNCHANGED <<accounts, active, vaults, wallets, answered, mishaps>>

(* Inserted and committed; on a conflict the row that was faster is taken. *)
SyncInsert(r) ==
  /\ At(r, "insert") /\ ~Awaited(r, desk[r].account)
  /\ LET a == desk[r].account IN
     IF vaults[a] # None
     THEN InHand(r, a, vaults[a].id, FALSE) /\ UNCHANGED vaults
     ELSE /\ vaults' = [vaults EXCEPT ![a] = [id |-> r, name |-> desk[r].name]]
          /\ InHand(r, a, r, FALSE)
  /\ UNCHANGED <<accounts, active, wallets, answered, mishaps>>

(* create_vault flushes the row of the account it has made, and does not commit; a
   conflict with a row synced meanwhile is an error. *)
Flush(r) ==
  /\ At(r, "flush") /\ ~Awaited(r, desk[r].account)
  /\ IF vaults[desk[r].account] # None
     THEN Closed(r)
     ELSE InHand(r, desk[r].account, r, TRUE)
  /\ UNCHANGED <<accounts, active, vaults, wallets, answered, mishaps>>

-----------------------------------------------------------------------------
(* activate_asset_for_vault: a wallet is added unless there is one; nothing is
   flushed.  It fails if there are two, or the provider does. *)
Activated(r, step) ==
  LET mine == WalletsOf(desk[r].vault) IN
  /\ Cardinality(mine) <= 1
  /\ active' = active \cup {desk[r].account}
  /\ desk' = [desk EXCEPT ![r].added = (mine = {}), ![r].step = step]
  /\ UNCHANGED mishaps

NotActivated(r) ==
  /\ \/ Cardinality(WalletsOf(desk[r].vault)) > 1 /\ UNCHANGED mishaps
     \/ Mishap
  /\ UNCHANGED active

(* _activate_assets_async: failures are logged, and each batch is committed. *)
ActivateAssets(r) ==
  /\ At(r, "activate")
  /\ \/ Activated(r, "commit")
     \/ NotActivated(r) /\ Proceed(r, "commit")
  /\ UNCHANGED <<accounts, vaults, wallets, answered>>

Commit(r) ==
  /\ At(r, "commit")
  /\ LET d == desk[r] IN
     /\ vaults' = IF d.flushed
                  THEN [vaults EXCEPT ![d.account] = [id |-> d.vault, name |-> d.name]]
                  ELSE vaults
     /\ wallets' = IF d.added THEN wallets \cup {[id |-> r, vault |-> d.vault]} ELSE wallets
  /\ desk' = [desk EXCEPT ![r].flushed = FALSE, ![r].added = FALSE, ![r].step = "answer"]
  /\ UNCHANGED <<accounts, active, answered, mishaps>>

(* The wallet of the vault for the asset, activated if there is none; an asset that
   is not registered, two wallets or a failing provider are errors. *)
FindWallet(r) ==
  /\ At(r, "wallet")
  /\ \/ /\ Cardinality(WalletsOf(desk[r].vault)) = 1
        /\ Proceed(r, "answer") /\ UNCHANGED <<active, mishaps>>
     \/ WalletsOf(desk[r].vault) = {} /\ Activated(r, "answer")
     \/ NotActivated(r) /\ Closed(r)
  /\ UNCHANGED <<accounts, vaults, wallets, answered>>

(* The ids are answered and the session ends. *)
Answer(r) ==
  /\ At(r, "answer")
  /\ answered' = answered \cup {VaultRow(desk[r].vault)}
                   \cup {WalletRow(w.id) : w \in WalletsOf(desk[r].vault)}
                   \cup (IF desk[r].added THEN {WalletRow(r)} ELSE {})
  /\ Closed(r)
  /\ UNCHANGED <<accounts, active, vaults, wallets, mishaps>>

-----------------------------------------------------------------------------
Next ==
  \E r \in Requests :
    \/ \E n \in Names : GetWallet(r, n) \/ \E assets \in BOOLEAN : Create(r, n, assets)
    \/ Find(r) \/ ProviderCreates(r) \/ ProviderFails(r) \/ ListAccounts(r)
    \/ Sync(r) \/ SyncInsert(r) \/ Flush(r)
    \/ ActivateAssets(r) \/ Commit(r) \/ FindWallet(r) \/ Answer(r)

Spec == Init /\ [][Next]_vars

(* A vault or a wallet whose id was answered can be asked for by that id: what
   tests/test_fireblocks_integration.py does with a vault it has just created
   without assets (api/vault.py:70-74). *)
AnsweredIsStored ==
  answered \subseteq {VaultRow(vaults[a].id) : a \in {n \in Names : vaults[n] # None}}
                       \cup {WalletRow(w.id) : w \in wallets}
=============================================================================
