# Custody service: TLA+ models, checks and proofs

The repository (`src/`) is a FastAPI service that keeps crypto wallets at
Fireblocks and sends transfers from them. Several pods run the same code over one
PostgreSQL database, one RabbitMQ and one Redis. This directory models where money can
be lost, paid twice or forgotten, how pods start and share a treasury, and how they keep
their access to the database; it checks the models with TLC on small instances and proves
what matters most with TLAPS for every size.

All paths below are relative to `src/app/`.

## 1. Inventory

| Component | State it keeps | Operations | Talks to |
|---|---|---|---|
| Wallet ledger (`dao/transfer.py`, `models/wallet.py`) | `wallets.balance`, `wallets.pending_amount` | reserve, release, complete, overwrite, reset: one SQL statement each | every component below |
| Transfer API (`api/transfer.py`) | table `transfers` (status, wallet, provider id) | create in four forms, approve, reject, signing, complete, cancel, queue/process | ledger, publisher, Fireblocks, backend |
| Consumers, publisher (`broker/`) | queues `transfer.created`, `.approved`, `.rejected` | handle an approval (commit, call, commit), a rejection, publish | Workflow service, Fireblocks, backend |
| Outgoing webhooks (`dao/webhook/service.py`) | none of its own | find the transfer, move status and money | ledger, backend |
| Deposit and vault-to-vault webhooks (`dao/webhook/`) | table `transactions` | record, overwrite balances, work the queue | ledger, publisher |
| Balance sync task (`services/balance_sync.py`) | the rows it loaded | read, ask Fireblocks, overwrite, work the queue | ledger, Fireblocks, publisher |
| Treasury API and bootstrap (`api/treasury.py`, `services/treasury_bootstrap.py`) | table `vaults` (HOT, primary, active) | create, promote, activate, reset-pending | Fireblocks, ledger |
| Distributed lock, asset refresh (`services/redis_client.py`, `services/asset_sync.py`) | one Redis key, an asset cache | acquire, release, refresh | Redis, Fireblocks |
| Sessions and credentials (`storage/database.py`, `services/vault_*.py`) | engine, credentials, Vault token | open a session, refresh, renew | Vault, PostgreSQL |
| Assets and resolver, vaults, wallets, whitelist, admin | tables `assets`, `vaults`, `wallets`; a cache without expiry | lookups, single-statement writes, creation at Fireblocks first | Fireblocks |
| Payout callback (`services/payout_callback.py`) | none | POST a verdict to the backend | backend |

What is hard about it:

* **Sessions decide on rows they loaded.** `autoflush=False`, `expire_on_commit=False`,
  no version column, no `SELECT ... FOR UPDATE`: a handler's guard is about the row
  as it was (`storage/database.py:104-110`). Only the `UPDATE`s of `dao/transfer.py`
  look at the row as it is.
* **Two commits and a call.** The approved consumer commits `SIGNING`, calls
  Fireblocks, commits `BROADCASTING` or `FAILED`; a crash, a lost answer or a webhook
  may fall in between. The queue of `/queue/process` publishes before it commits, the
  sync task commits before it publishes.
* **Messages** are redelivered when a pod or a connection dies, dropped when a callback
  raises (`requeue=False`), and lost when the publisher fails. **Webhooks** can be
  repeated and reordered; one that fails is answered 200 and not sent again.
* **One pending_amount per wallet.** Nothing in a wallet row says whose reservation it
  is: the guards see the sum.

What makes each part correct: reservations stay within the balance and are granted
once (ledger); a reservation is held as long as its transfer is alive and given back
once (API, consumers, webhooks); one transfer is one transaction at the provider
(consumer); the backend hears one verdict, and no refused payout is paid (callbacks);
who waits for money and can be paid is paid, and balances come to equal the provider's
(sync task); no deposit goes unknown (webhooks); one primary hot vault (bootstrap); one
refresh at a time, and always another one (lock); a session is not refused for a rotation
(database); a token does not end (Vault client); an id that was answered exists (vaults).

`PROJECT.json` lists the components with their status and every hazard at its line.

## 2. Modules

    WalletLedger            what the wallets table promises: five kinds of step
    PayoutPromise           what the backend is promised of every payout
       ^ both implemented by
    Payouts                 the handlers of app/ on the transfers of one asset
       ^ extended by
    PayoutsProperties       type invariant, safety, action and liveness properties
       ^ extended by
    MCPayouts (TLC)         PayoutsProofs <- PayoutsOnceProofs (TLAPS)

    PayoutsLapses           PayoutsProperties with a history of what went wrong per transfer
       ^
    MCPayoutsLapses (TLC, with MCPayouts)   PayoutsLapsesProofs (TLAPS, with PayoutsOnceProofs)

    Sums                    sums over sets of rows, used by the two modules of properties
       ^                    that compare a column with what it must cover
    SumProofs (TLAPS)       what such a sum is, for the proofs of Payouts and Deposits

    Deposits                webhooks of deposits and of vault-to-vault transfers, the
       ^                    sync task, against the provider's own totals
    DepositsProperties      <- MCDeposits (TLC), DepositsProofs (TLAPS)

    DistributedLock   AssetRegistry   Treasury
       ^                ^               ^       composed by
    StartUp                 pods that start, serve and crash
       ^
    StartUpProperties       <- MCStartUp (TLC); StartUpProofs, TreasuryProofs (TLAPS)

    Credentials             Vault's token, the password it rotates, engine and sessions
       ^
    CredentialsProperties   <- MCCredentials (TLC), CredentialsProofs (TLAPS)

    CustomerVaults          vaults and wallets of customers
       ^
    MCCustomerVaults (TLC)

### `Payouts`

**State of `Payouts`.** `balance`, `pending` are the wallets; `status`, `wallet`,
`known` (the provider's id is stored), `kind` and `older` (the order of creation) the
transfers; `sess` what every open session has loaded and where in its handler it is;
`add` what a session has reserved in a transaction it has not committed;
`createdQ`, `approvedQ`, `rejectedQ` the queues; `sent`, `fb`, `inbox` the transactions
at Fireblocks, how far the last one got, and the webhooks to come; `told` the verdicts
the backend was sent.

**Steps.** A session opens by loading a row (`Open`), and every further step is one
transaction, or the part of a handler up to the next call that other sessions can
interleave with:

| Code | Actions |
|---|---|
| `/external/create` | `CreateReserved`, `PublishCreated`; `CreateQueued`; with an explicit source `CreateSend`, `CreateCommit` |
| `/internal/create` to an address | `CreateSend`, `CreateCommit` |
| `/approve`, `/reject`, `/signing`, `/complete`, `/cancel` | `Call` (load and guard), then `ApproveTransfer`, `RejectTransfer`, ... |
| `handle_transfer_approved` | `ApprovedBegin` or `ApprovedDropped`, `ApprovedSign`, `ExecuteTx` / `ExecuteRefused` / `ExecuteReplyLost`, `ApprovedDone` / `ApprovedFailed` |
| `handle_transfer_rejected` | `RejectedBegin`, `RejectedFinish` |
| `/queue/process` | `BeginQueue`, `QueueReserve` or `LeftWaiting` per transfer, `QueueCommit` |
| sync task | `SyncRead`, `SyncWrite`, `SyncSelect`, `SyncReserve` / `LeftWaiting`, `SyncPublish`, `SyncEnd` |
| outgoing webhook | `WebhookBegin`, `WebhookFinish`; `WebhookUnmatched` |
| `/wallets/{id}/reset-pending` | `ResetWalletPending` |
| failures | `Abort` (the handler raises), `Crash` (the pod dies), `Redeliver` (the broker connection dies) |
| external | `WorkflowDecides`, `ProviderReports` |

`RowFree` and `TransferFree` are PostgreSQL's row locks: a writer of a row waits for the
transaction that has written it. `Written` is the unit of work of the ORM: a column
equal to what was loaded is not written.

**Stimuli.** The constant `Stimuli` names the calls and failures an instance has:
endpoints (`"approve"`, `"reject"`, `"signing"`, `"complete"`, `"cancel"`, `"queue"`,
`"reset"`), kinds of creation (`"direct"`, `"address"`), `"sync"`, what the Workflow
answers (`"wf_approve"`, `"wf_reject"`), and what can go wrong:

| Stimulus | Meaning |
|---|---|
| `"overlap"` | two sessions may work on one transfer at once |
| `"contention"` | the sub-select of a reservation may be out of date when its `UPDATE` gets the row |
| `"abort"`, `"crash"`, `"redeliver"` | see above |
| `"refuse"`, `"lost_reply"` | Fireblocks refuses a transaction; accepts it and the answer is lost |
| `"lost_publish"` | `transfer.created` is not published |
| `"tx_fails"` | a transaction fails at Fireblocks |
| `"duplicate"`, `"reorder"` | webhooks come again, any number of times; out of order. Without `"reorder"` a webhook comes again only until the next status is delivered |
| `"external_id"` | the transaction bodies of the Workflow carry the request id, so a webhook finds its transfer before the provider's id is stored |
| `"backend"` | `BACKEND_URL` is set: verdicts are recorded |

The theorems of `PayoutsProofs` hold for every value of `Stimuli`, the others name the
stimuli they exclude; the runs choose.

**What the backend sees.** `PromiseSpec` maps every transfer to a phase (absent, open,
started, over: `Phase`), the number of transactions the provider has made of it (`sent`) and
the verdicts that were sent (`told`), and says that `Payouts` implements `PayoutPromise`: a
payout opens, starts or is cancelled, is paid at most once and only between its start and its
end, and ends with the one verdict that fits.

### `PayoutsLapses`

`Payouts` with one history variable that no action reads. `lapses[t]` keeps which of three
things have happened to `t`:

| Lapse | What happened | Where |
|---|---|---|
| `overtaken` | a session changed the row, Fireblocks or the verdicts, or signed, while the row was no longer in the status it had loaded or written itself (`Believed`) | every handler: no row is locked or versioned between the load and the write |
| `orphaned` | a payout was created under the request id of a direct transaction whose row was lost or not stored yet | `api/transfer.py:147` |
| `half_told` | the backend was told a verdict and the row does not have it | `dao/transfer.py:553-554` before the commit of `api/transfer.py:865` |

The code prevents none of them. The properties say that nothing else leads to a second
payment, or to one after a refusal: a change that opens a further way breaks them, also under
overlap, with several workers and with every failure.

### `Deposits`

`Payouts` has the transfers and leaves open where balances come from; `Deposits` has the
balances and follows a transfer up to its reservation. `truth` is what Fireblocks has,
`fb` and `inbox` its transactions and the events under way; `balance`, `pending`, `record`
(table `transactions`) and `place` (the wallet a waiting transfer got) the database; `sess`
the open sessions: `put` and `add` what a session has flushed, which locks the rows, `late`
what it has only assigned; `told` and `unsent` the statuses of a deposit that were published to
the backend before the commit, and those whose publish failed: the failure is swallowed and the
handler goes on (stimulus `"lost_publish"`, `Reported`).

| Code | Actions |
|---|---|
| `process_webhook` of a deposit | `RecordBegin`, then `RecordInsert`, `RecordConflict` or `RecordUpdate`, `Notify`, `Commit` |
| `update_wallet_balance` | `Overwritten`, part of `RecordInsert` and `RecordUpdate` |
| `_process_internal_transfer` | `MoveBegin`, `MoveIgnored`, the queue, `Commit` |
| queue run inside a webhook | `QueueTurn` or `QueueSkip` per transfer, `QueueEnd` |
| `/transfers/internal/create` to a vault | `MoveCreate`, `Commit` |
| sync task | `SyncRead`, `SyncFetch` per wallet, `SyncWrite`, `SyncTurn` per transfer, `SyncEnd` |
| a handler that raises | `Abort` |
| external | `ProviderStarts`, `ProviderCompletes`, `ProviderFails` |

### `StartUp` with `AssetRegistry`, `Treasury`, `DistributedLock`

`StartUp` is `lifespan` of `main.py`: register the coins, then the tokens (`AssetRegistry`,
one transaction each), find or make the primary HOT vault (`Treasury`), serve. Pods that are
up handle requests of administrators, activate assets for transfers, and refresh the asset
cache under the lock. `desk` has the open sessions of `Treasury` and where they are;
`accounts` and `active` are Fireblocks, `vaults` and `wallets` the tables.

| Code | Actions |
|---|---|
| `sync_fireblocks_assets` | `LookNatives`, `InsertNatives`, `LookTokens`, `InsertTokens`; `RegistryGivesUp` (unique constraint), `FetchFails` |
| `bootstrap_default_hot_wallet` | `BootFound`, `BootPromotes`, `BootWrite`; `BootMissing`, `BootAccount`, `BootInsert`; `BootRefused` |
| `POST /treasury/vaults` | `CreateVault`, `CreateAccount`, `CreateFlush`, `CreateAssets`, `CreateCommit` |
| `PATCH /treasury/vaults/{id}` | `PatchVault`, `PatchCommit` |
| `POST /treasury/sync-vaults` | `ImportList`, `ImportLook`, `ImportFlush`, `ImportCommit` |
| `activate-asset`, `ensure_asset_in_hot_wallet` | `ActivateLook` or `EnsureLook`, `ActivateCall` or `ActivateRefused`, `ActivateCommit` |
| `DistributedLock` | `Acquire`, `AcquireWithoutRedis`, `Release`, `Expire` |
| failures | `Crash` (a pod), `Drop` (a request) |

### `Credentials`

One pod. A tick is the 300 s of both checking loops; `token.left` are the ticks left of the
lease, passwords are numbered by age (0 is the one PostgreSQL accepts). hvac's calls are
synchronous and block the event loop, so everything between two awaits is one action; the
disposal of the old engine in `initialize` is awaited, and `pending` is an `initialize` that
waits for it.

| Code | Actions |
|---|---|
| `_token_refresh_loop`, `renew_token`, `reauthenticate` | `CheckToken` with `Renew`, `Reauthenticate` |
| `_check_and_refresh_credentials` | `CheckCredentials`, `LoopReinitializes` |
| `get_db` | `Open`, then `Answered`, `Denied` or `Broken`, `SessionReinitializes`, `TryAgain`; `Close` |
| `get_db_local` | the same and `FailsInside` |
| external | `Rotate`, `Expire`, `Revoke`, `Outage`, `Return`, `Tick` |

### `CustomerVaults`

`POST /vault/create` and `GET /wallet/get`, each in one session: `Find`, `ProviderCreates` or
`ProviderFails`, `ListAccounts`, `Sync`, `SyncInsert`, `Flush`, `ActivateAssets`, `Commit`,
`FindWallet`, `Answer`. A row that was flushed or added and not committed is gone with
`Closed`.

### Slips

**Definitions that mark a slip** (`...ForgetsOwn`, `...Unguarded`, `...OnBalance`,
`AcceptsSigned`, `BootPromotesFirst` and the like, each with a comment "Slip") are used nowhere in the
specification: put in the place of the definition that follows them, they show that a
property notices that mistake.

## 3. What TLC checks

The first five are instances of `Payouts`: two transfers of amounts 1 and 2 (one of 2 in
`Delivery`), one or two wallets, two sessions; a wallet holds at most 3. `Contention`,
`Settlement` and `Delivery` take the sessions as interchangeable (symmetry); their properties
are about safety only.

| Run | Stimuli beyond creation and outcomes | Properties |
|---|---|---|
| `Contention` (818000 states) | overlap, contention, queue, sync, reset, `/reject`, failing handlers, crash; two wallets | `UncommittedCovered`, `ReserveWithinAvailable`, `LedgerSpec` |
| `Settlement` (872000 states) | overlap, internal transfers to an address, webhooks of every status repeated, rejections redelivered, `/signing`, `/complete`, failing transactions; balances are not overwritten | `NonNegative`, `Solvent` |
| `Delivery` (466000 states) | one transfer, of `PayoutsLapses`: overlap, two workers, sync, `/approve`, `/reject`, `/signing`, `/complete`, `/cancel`, rejections of the Workflow, direct transfers, repeated webhooks, redelivery, crash, abort, refusals, lost answers and messages | `TypeOK`, `NonNegative`, `PaidTwiceOnlyAfterLapse`, `RefusedPaidOnlyAfterLapse` |
| `Serial` (181000 states) | `/approve`, queue, sync, redelivered approvals, crash, refusals, lost answers, failing transactions, cancel; a wallet that holds 2, two workers; no overlap, webhooks once and in order | `LiveReserveBacked`, `OneVerdict`, `AtMostOneProviderTx`, `FinalIsFinal`, `PromiseSpec` |
| `Liveness` | queue, sync, rejections of the Workflow, refusals, failing transactions; no overlap, no crash, no failing handler, every message and webhook once and in order; fairness of section 4 | `QueueDrains`, `PayoutEnds` |

| Run | Instance | Properties |
|---|---|---|
| `Deposits` (435000 states) | a deposit of 2 to the hot wallet, a move of 1 from the cold one whose COMPLETED may come twice, a transfer of 2 that waits; events in any order, failing handlers, one failing publish of a deposit, failing transactions, two sessions of which one syncs | `TypeOK`, `ReservationsKept`, `NoDepositUnknown`, `GrantedOnCommitted`, `Converges`, `WaitingServed` |
| `StartUp` (329000 states) | two pods, two HOT accounts that may be there already, `HOT_DEFAULT` among them (vaults of a second type take the run close to four minutes and add nothing: the theorems have all types), two requests, one mishap (a crash, a failing backend or Fireblocks, Redis away) and requests that are dropped | `OneRefresher`, `RegistryComplete`, `OnePrimary`, `WalletBacked`, `RefreshGoesOn`, `PrimaryAtBoot`, `CleanImport` |
| `Credentials` (304000 states) | a lease of 3 ticks, a rotation every 3, two sessions, one by `get_db_local`, one mishap (an outage, a revocation, a broken connection) | `TokenKept`, `RotationRefusesNobody`, `EngineCatchesUp` |

Deadlock is not checked: a finished set of transfers with nothing left to do is a
regular end. That nobody waits for ever is what `Liveness`, `WaitingServed`,
`RefreshGoesOn` and `EngineCatchesUp` show.

What the three show beyond their properties: a deposit webhook that overwrites
`wallets.balance` with the amount of one transaction does no lasting harm to a treasury
wallet, because every round of the sync task compares with the provider; a pod that dies
between the account and its row is repaired by the next start, because "already exists" is
looked up by name; a rotation under a session that is being opened costs it one attempt of
three.

Four runs show where the code does something else than its comments say:

* `CancelLeaks` (`NothingLeaks`). Create with funds, cancel: the transfer was still
  `pending_approval`, the release is for `pending` alone, the reservation stays.
  There is a second way, which TLC finds with `"sync"`, `"wf_approve"` and a total of 1 instead
  of `"cancel"`: the sync task has taken over the lower total before the COMPLETED webhook is
  handled, the guard of the deduction fails (`dao/transfer.py:236-240`), its result is ignored
  (`dao/webhook/service.py:218`), and the reservation of the completed transfer stays.
* `SecondRelease` (`LiveReserveBacked`). Two transfers on one wallet, one cancelled in
  `pending`, then rejected by the Workflow: the amount is given back twice, the second
  time at the cost of the other transfer.
* `DoublePayout` (`AtMostOneProviderTx`). Two queue workers loaded the same waiting
  transfer; the slower one reserves it again and writes `pending` over `signing`; it is
  published, approved and paid twice.
* `CustomerVaults` (`AnsweredIsStored`). A customer vault created with no assets is flushed
  and never committed: its id is answered, its row rolled back, its account stays.

**Where the other properties end.** They were chosen with the stimuli under which the
code keeps them. Beyond these the code is known to break them:

| Property | Holds | Fails with |
|---|---|---|
| `AtMostOneProviderTx` | one queue worker at a time, or no overlap | overlap of two queue workers on one transfer, or of an approval delivered again with its callback; a pod that dies between the provider's answer and the row of a direct transfer, whose request is then made again without a source (TLC, nine states) |
| `OneVerdict` | `Serial` | overlap; a webhook found by externalTxId after a lost answer; a cancellation whose commit fails |
| `FinalIsFinal` | `Serial` | overlap of a webhook with the consumer, which writes BROADCASTING over COMPLETED (`consumer.py:291-293`); webhooks out of order |
| `PromiseSpec` | `Serial` | what breaks one of the three above; overlap of a cancellation with the consumer, by which a cancelled payout is paid |
| `PaidTwiceOnlyAfterLapse`, `RefusedPaidOnlyAfterLapse` | everywhere | that the lapses themselves do not happen: TLC finds a double payment with `overtaken` alone and with `orphaned` alone, and a payment after a verdict with each of the three alone |
| `LiveReserveBacked` | `Serial` | a rejection after a cancellation; duplicate webhooks; `/wallets/{id}/reset-pending` |
| `Solvent` | nothing overwrites balances | the sync task takes over a lower total |
| `PayoutEnds` | no crash, no lost message, no failing handler, no overlap on one transfer, webhooks in order | a crash after `SIGNING`; a lost `transfer.created`; a webhook whose handler raises (answered 200): the code has no second try. BROADCASTING written over a COMPLETED that a webhook stored meanwhile (`consumer.py:291-293`), or a late QUEUED webhook after COMPLETED: the transfer stays there for good |
| `QueueDrains` | as many waiting transfers as the sync task looks at | more than that which never fit |
| `GrantedOnCommitted` | moves from a wallet that is not HOT | a move from a HOT wallet: the queue run of its webhook reserves on the balance before it was lowered (TLC, eight states) |
| `NoDepositUnknown` | the record exists, unless a handler failed; the status in the record was published, unless that publish failed | that the backend hears of every deposit: a failed publish is logged and swallowed, and nobody tries again; that it was told COMPLETED: the slower of two events that insert is lost; that the record ends at the last status: events out of order leave an older one |
| `Converges` | wallets of the treasury | wallets of customers, which the sync task does not load |
| `ReservationsKept` | moves included, whatever fails or is repeated | that the reservation of a move is given back: none of its webhooks looks for the transfer |
| `OnePrimary`, `PrimaryAtBoot` | administrators promote one at a time, and not while a pod boots | two promotions at once, or a boot beside one (TLC, stimulus `"overlap"`): two primaries, and every later query for the primary raises |
| `PrimaryAtBoot` | no HOT vault, or one; `HOT_DEFAULT` is HOT or free | several HOT vaults of which none is primary; or `HOT_DEFAULT` was created as a vault of another type: the pod logs an error and serves without a primary (TLC with the types HOT and COLD) |
| `RotationRefusesNobody` | every interleaving of loop and sessions, three attempts, with the excuse of `shaken` | two attempts (TLC with `MaxTries = 2`); without it: two `initialize` calls finish in the wrong order after a period without Vault. `_reinit_lock` is for that (`database.py:36`), but only the loop takes it |
| `TokenKept` | below the token's maximum age | at it, a renewal succeeds and extends nothing; the token lapses for up to 300 s until the next one fails |
| `OneRefresher` | Redis is there and nobody outlives 5 minutes, the time to live of the key (`asset_sync.py:13`) | otherwise two refresh, and the first to end deletes the key of the other |

**Bounds, and why they are enough.** Two transfers are what it takes for one to lose its
reservation to the other, for the queue to have an order, and for two amounts to compete
for one wallet; the interleavings of interest are of two sessions. `Totals` has a
balance too low for the larger transfer, where waiting matters. `SendBound` (2, or 1
where payments do not matter) cuts a transfer after two transactions at the provider:
one more than allowed is enough to see. A repeated webhook stays in `inbox`: it may be handled
any number of times. `QueueLimit` and `SyncLimit` stand for 10 and
20; `Liveness` sets the first to 1 so that the limit is met. `Delivery` has one transfer,
because a lapse and what it leads to are about one row; and it explores a behaviour up to the
first `overtaken` or `orphaned` (`Undecided`): a lapse is never taken back, and from there on
the two properties about lapses hold whatever happens. `NonNegative` is checked there up to the same point, with
failing handlers, which `Settlement` leaves out; `NeverNegative` and `StaysSolvent` have no such
limit. `fb` follows one transaction
per transfer, the first: where a second one exists `AtMostOneProviderTx` has failed.

In `Deposits` the deposit and the move reach the same wallet, so that each overwrites what
the other left, and the waiting transfer needs more than either leaves of the other. Two
sessions are what it takes for an insert to conflict and for a round of the sync task to be
overtaken. One publish per deposit may fail: the property is about each status on its own. In
`StartUp`, `Scenes` says what the two requests and the refresh tasks do in one
behaviour: requests and refreshes have only the pods in common, and pairs of requests that
touch no common row are left out. Two accounts are what it takes for two primaries; one
mishap is enough to interrupt each step once. In `Credentials` the lease (3) exceeds the
threshold (2) by one, so that a token has a tick in which it is not renewed; the rotation
is near (2) in two of three ticks; `MaxTries` is the code's; `Oldest` 2 tells the last
password from all before it. `CustomerVaults` has three requests for two names that the
fuzzy comparison takes for one.

## 4. Fairness

`Fairness`: an open session goes on (`WF` of `Step`: its statements return, and
PostgreSQL serves waiting writers), and the sync task starts again and again
(`balance_sync.py:39-48`) in a session of its own, whatever requests a pod serves
(`SF`, since requests of the model use the same sessions). `Partners` adds that the
Workflow answers, that RabbitMQ and Fireblocks deliver to a free session, and that
Fireblocks decides every transaction. Nothing else is fair: nobody has to create,
cancel, approve or call `/queue/process`, and no failure has to happen or to stop.

`Deposits`: sessions go on (`WF`), the sync task begins again and again and Fireblocks
delivers what it has sent (`SF`: a session may be busy in between). Fireblocks need not start
or complete anything. `StartUp`: pods are started again by their orchestrator and get on,
requests that have begun end, a refresh ends, a key's time to live ends (`WF`), and the
loop of a pod that is up tries every ten minutes (`SF`: another pod may hold the lock or
this one may be down when it does; crashes are bounded by `MaxMishaps`). `Credentials`:
time passes, the loops run, Vault comes back, and a session that is being opened goes on
(`WF`); `MaxMishaps` bounds the outages.

## 5. What is proved

For all finite or infinite sets of transfers, wallets, sessions, pods, vaults and assets, all
amounts above 0 and all bounds. The assumptions of the constants (`SetsAssumption`,
`NumbersAssumption` and the like) are evaluated by TLC in every run; what a theorem assumes
beyond them stands in the theorem.

| Module | Theorem | Statement | Assumes |
|---|---|---|---|
| `PayoutsProofs` | `TypeCorrect` | `Spec => []TypeOK` | |
| | `NeverNegative` | `Spec => []NonNegative` | |
| | `ReservationsCovered` | `Spec => []UncommittedCovered` | |
| | `NoOverReservation` | `Spec => ReserveWithinAvailable` | |
| | `ImplementsLedger` | `Spec => LedgerSpec`, the refinement of `WalletLedger` | |
| `PayoutsOnceProofs` | `StaysSolvent` | `Spec => []Solvent` | the sync task overwrites no balance (no `"sync"`) |
| | `PaidAtMostOnce` | `Spec => []AtMostOneProviderTx` | `OneAtATime` |
| `PayoutsLapsesProofs` | `DoublePaymentTakesLapse` | `LapseSpec => []PaidTwiceOnlyAfterLapse` | |
| | `LatePaymentTakesLapse` | `LapseSpec => RefusedPaidOnlyAfterLapse` | |
| `DepositsProofs` | `TypesHold` | `Spec => []TypeOK` | |
| | `GrantsAreCommitted` | `Spec => GrantedOnCommitted` | `MovesSpareHot` |
| | `NoDepositIsUnknown` | `Spec => []NoDepositUnknown` | `EventsArrive`, `NullIsNoStatus` |
| | `NoReservationIsLost` | `Spec => []ReservationsKept` | `NullIsNoStatus` |
| `StartUpProofs` | `OnlyOneRefreshes` | `LockSpec => []OneRefresher` | |
| | `ImplementsLock` | `Spec => LockSpec` | |
| | `OneRefreshesAtATime` | `Spec => []OneRefresher` | |
| | `RegistryIsComplete` | `Spec => []RegistryComplete` | |
| `TreasuryProofs` | `WalletsAreBacked` | `Spec => []WalletBacked` | |
| | `NoSecondPrimary` | `Spec => []OnePrimary` | no `"overlap"` (section 6) |
| | `CleanImportStoresAll` | `Spec => CleanImport` | |
| | `BootLeavesPrimary` | `Spec => PrimaryAtBoot` | no `"overlap"` (section 6) |
| `CredentialsProofs` | `TokenIsKept` | `Spec => []TokenKept` | |
| | `RotationIsSurvived` | `Spec => []RotationRefusesNobody` | `MaxTries >= 3`; the code has 3 |

### The ledger

That a reservation is within the balance when it becomes visible does not
follow from its guard alone: a queue run reserves now and commits later, and in between
others write. The inductive invariant is `LedgerInv == TypeOK /\ NonNegative /\
UncommittedCovered`: what a session holds uncommitted on a wallet fits what is left
there, it is the only one to hold anything there (row lock), and only queue runs and
explicit-source creations hold anything at all, so the sync task and the consumers, when
they write a wallet, write one nobody holds. The lemmas `Granted`, `Held`, `Committed`,
`Dropped`, `GivenBack`, `Spent`, `Refreshed`, `Forgotten` say that each way in which code
changes the two columns keeps `NonNegative` and `HeldCovered` and is a step of
`WalletLedger`; `HoldersAfter` covers who holds; the `...Safe` lemmas take the actions one
by one. `NoOverReservation` reads off the ledger step: only `Reserve` lets
`pending_amount` grow. `StaysSolvent` reads off the same steps that only `Refresh` can take
the balance below what is reserved, and `Refresh` is the sync task.

### One transfer, one transaction

`OneAtATime`: one worker works the queue, `/queue/process` is not called, no message comes
again to a callback that still runs, and transfers go through the Workflow. Crashes, lost
messages and answers, failing handlers and overlapping calls are all allowed. `OnceInv` is
`TypeOK`, `Tidy` and, for every transfer, `Once`:

* `InOnePlace`: what can lead to a transaction (a list of the queue, a session of the
  consumer, `transfer.created`, `transfer.approved`) has the transfer in one place only;
* `NotStarted`: while the transfer waits for funds it is in no queue;
* `NotAgain`: from the commit of `SIGNING` on no consumer begins, and once the provider
  has it nothing carries it there again.

`Tidy` holds whatever the stimuli, and has a by-product: a transfer in `pending_approval` has a
wallet, so the branch of `/approve` that reserves (`dao/transfer.py`, `approve_transfer`) is
reached by no transfer the code creates. It is modelled all the same.

`PaidAtMostOnce` restricts the workers and redelivery, which the code does not; what holds
without any restriction is the next.

### No payment without a lapse

`DoublePaymentTakesLapse` and `LatePaymentTakesLapse` assume nothing of the stimuli, of the
number of workers or of what overlaps. `LapseInv` is `TypeOK`, `Tidy`, `Grounded` and, for every
transfer:

* `PaidOnce(t)`, while `t` is neither overtaken nor orphaned: it has been sent at most once, it
  has not been sent while its row is in a status the consumer takes up, and at most one session
  is about to send it, when it was not sent yet and its row has left those statuses;
* `Settled(t)`, while `t` has no lapse: if the backend was told a verdict and the transfer was
  not sent, the row is in a final status.

Both are about what the row says and what has happened outside, and neither could be kept by
looking at one session: what makes them inductive is that a session whose loaded status no
longer fits the row counts as a lapse the moment it acts, so that every other step may be
taken to act on the row as it is. `Grounded` supplies what a handler found out when it opened
(an approval loaded a status the consumer takes up; `/signing` and every webhook are of a
transfer that was sent). The lemmas `...Effect` sort all steps by what they do to a transfer:
nothing, the creation of a payout, a reservation, a status after which no consumer begins, the
commit of `SIGNING`, the payment, or a direct transaction.

That `OneVerdict`, `FinalIsFinal`, `PromiseSpec` and `LiveReserveBacked` hold in `Serial` stays
with TLC: they need assumptions (no overlap, webhooks once and in order) that nothing in the
code ensures, so a theorem for every size would say little more than the run.

### The sums

`ReservationsKept` compares `pending_amount` with a sum over rows (`LiveReserveBacked` does,
too, and is only model-checked).
`Sums` defines the sum by a fold, and the library's induction principles cannot be used here
(they take the statement as a parameter, which no installed prover instantiates). `SumProofs`
goes by the least counterexample instead: `NatLeast` (a set of natural numbers that is not
empty has a least member) follows from the well-foundedness of `<`, `Minimal` picks from a
family of finite sets one of which no member can be left out, and with it

* `FoldEquation`: the function a fold chooses exists and satisfies its recursion, since partial
  solutions up to each size exist (`UpToNext`, `UpToAll`);
* `FoldSame`, `SumRemove`: the sum does not depend on the order the fold takes the rows in;
* `SumNat`, `SumAdd`, `SumMonotone`, `SumUnion`, `SumGrows`: what one more row, one row less,
  or two sets together come to.

`NoReservationIsLost`: a webhook's queue run reserves in its session, so `KInv` says of every
session that what it will add to a wallet covers the transfers it will give that wallet, and
that a session about to record a move reserves what the move takes (`Reserves`); `Commit` adds
both together. No restriction on stimuli: overlapping queue runs may give one transfer two
wallets, and then a reservation too many stays, never one too few.

### The others

* `DepositsProofs`: `IInv` says of every session which of its fields are in use at its step
  (`Shape`), that what it reserved is within the balance it will commit (`Backed`), and that two
  sessions never have flushed the same row (`Alone`). `MovesSpareHot` says that no
  vault-to-vault transfer takes from a HOT wallet; without it the theorem is false (section 3).
  `DInv` says where a deposit that is not recorded still is: under way, or in a session.
  It also says that the status of a record, and of one about to be committed, was published or
  its publish failed (`Tried`).
  `EventsArrive` says that the first event of every transaction is delivered at least once.
* `StartUpProofs`, `LockInv == LockTypeOK /\ HolderHasKey`: unless Redis was away or a
  holder outlived its key, whoever refreshes is the one the key stands for. The theorem is about
  `DistributedLock` alone and carried over to pods that start, crash and serve by refinement.
* `StartUpProofs`, `RegInv`: a transaction registers all coins, or all tokens, or nothing
  (`Whole`); what a pod found missing is missing or has been registered by another
  (`PodKnows`); while tokens are missing some pod has still to look (`TokensDue`).
* `TreasuryProofs`: `RowsInv` says that what a session has loaded is stored, that a wallet about
  to be added is activated (`Sound`) and that two sessions do not insert the same vault
  (`Apart`). `PrimInv` says that what a starting pod has seen of the HOT vaults still holds
  when it writes (`BootSees`), and that a promotion under way unsets every other primary
  (`Covers`). `ImportsInv` says that every account an import has listed is stored, flushed by it
  or still to be looked at, unless it met an error (`Accounted`); `BootInv` that a pod which has
  found no HOT vault and goes on to create the default can find a row there only if another
  pod has put it there as the primary (`BootHeld`).
* `CredentialsProofs`: `IInv` says that a token the loop has just checked lasts until the next
  check (`CheckedLasts`) and is never unchecked in its last tick (`NotInItsLastTick`); it needs
  a lease and a threshold of two intervals or more (`CredentialsAssumption`). `RotInv` counts:
  the attempts a session has lost and those it can still lose are at most two (`Budget`), one
  for an engine that is stale already and one for the rotation that is due, because a password
  about to be put in place was fetched after the last one (`PendingIsRecent`). Three attempts
  are therefore enough, and two are not.

**Only model-checked.** The liveness properties rest on TLC alone: `QueueDrains`, `PayoutEnds`,
`Converges`, `WaitingServed`, `RefreshGoesOn`, `EngineCatchesUp`. They are about fairness, which
this version of the prover does not reason about. So do `OneVerdict`, `FinalIsFinal`,
`PromiseSpec` and `LiveReserveBacked`, as said above. Every other invariant and action property
of the passing runs is a theorem, under the assumptions of the table. `CustomerVaults` has a run
and no theorem.

## 6. What is left out

Of the models:

* `Payouts`: one asset. Handlers for different assets share the sync task's limit of 20 over
  all assets, the queue, and nothing of a wallet row. `Hot` is fixed: `NoHotWalletError` and
  the activation it sets off are `EnsureLook` of `Treasury`. Deposits and vault-to-vault
  transfers are in `Deposits`; the transfers of `Payouts` and the totals of `Deposits` are not
  composed, together they are more states than TLC gets through.
* Amounts are positive. The API does not check it (`schemas/transfer.py:14`).
* `retry_count` of a waiting transfer: its `UPDATE` makes other writers of that transfer
  wait until the commit, which only removes interleavings.
* Deadlocks PostgreSQL breaks: the victim's handler raises, which is `Abort`.
* `balance_ready` is published to a routing key without a queue (`broker/queues.py:20-56`).
* `StartUp`: administrators promote one vault at a time, and none while a pod starts. Nothing
  in the code ensures it; the stimulus `"overlap"` drops it, and section 3 says what follows.
  The limits, refill settings and description `PATCH` can set, and the flag `is_active`, are left
  out.
* `StartUp`: addresses. When Fireblocks says that an asset is activated already and has no entry
  for it, the wallet is stored with an empty address (`dao/asset.py:103-116`); `WalletBacked`
  does not notice.
* `Deposits`: what happens to a waiting transfer after its reservation, from
  `publish_transfer_created` on, whose failure is swallowed like that of the deposits; `Payouts`
  has it (`"lost_publish"`).
* `Deposits`: a total that Fireblocks reports as the number 0 is skipped by the sync task like
  a missing one; the totals of the model are reported.
* `Credentials`: time goes in intervals of the loops; a call of Vault is one step; a session is
  opened once; the cache of secrets of `vault_client.py` is left out.
* `CustomerVaults`: a customer has one vault, wallets of one asset; assets beyond the first are
  activated alike.
* Reads (`GET`), the text of errors, timestamps, addresses, `tx_hash`.

Not modelled:

* The resolver (`services/custody/fireblocks/resolver.py`): a map from assets to Fireblocks' ids
  that is filled on a miss and that nothing clears; the sync task asks it.
* The endpoints of `api/v1/assets.py`, which write one row with one statement and commit each,
  and of the whitelist, which are passed through to Fireblocks.
* The lookup of the asset a webhook is of (`dao/webhook/common.py`): the constant `Recognised`.
* The webhook's signature (`services/webhook_signature.py`) and the Workflow's JWT: cryptography.
* Configuration, logging, metrics.

Seen in passing, outside the models: `api/admin.py:84` can sync the assets without the lock, by
an older path that stores coins without `is_native`; `dao/vault.py:177` activates up to ten
assets at once on one `AsyncSession`, which SQLAlchemy does not allow; `dao/wallet.py:127, 149`
name a column `VaultModel` and a parameter `create_vault` do not have.

## 7. Plan

What further work on this project would add, in this order:

1. The composition of `Payouts` and `Deposits` on instances of one transfer, so that the totals
   which the sync task writes are those the payments leave.
2. Which lapse leads to which other harm: two verdicts, a final status left, a reservation
   spent for another transfer, stated over `lapses` like the payments.
3. What `CustomerVaults` does keep, as a theorem.
4. A model of amounts that may be zero or negative, once the API says what they mean.
