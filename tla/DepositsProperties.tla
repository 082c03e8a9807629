------------------------- MODULE DepositsProperties -------------------------
(* What the module Deposits is checked for. *)
EXTENDS Deposits, Sums

Ops == {"idle", "record", "queue", "notify", "commit", "sync_fetch", "sync_queue"}

Session ==
  [op : Ops, tx : Txs \cup {None}, st : Statuses \cup {None}, found : Statuses \cup {None},
   put : [Wallets -> Nat \cup {None}], late : Nat \cup {None}, add : [Wallets -> Nat],
   todo : SUBSET DOMAIN Arrival, picked : [Waiting -> Wallets \cup {None}],
   loaded : [Wallets -> Nat \cup {None}], asked : SUBSET Synced]

(* The rows, the open sessions and Fireblocks keep their types; balances are never
   negative, also when the source of a repeated move is lowered again
   (dao/webhook/service.py:331-335). *)
TypeOK ==
  /\ truth \in [Wallets -> Nat] /\ balance \in [Wallets -> Nat] /\ pending \in [Wallets -> Nat]
  /\ fb \in [Txs -> Statuses \cup {"none"}] /\ inbox \in [Txs -> [Statuses -> Nat]]
  /\ record \in [Txs -> Statuses \cup {None}] /\ place \in [Waiting -> Wallets \cup {None}]
  /\ sess \in [Sessions -> Session]
  /\ told \in [Txs -> SUBSET Statuses] /\ unsent \in [Txs -> SUBSET Statuses]
  /\ moved \subseteq Txs /\ aborted \subseteq Txs

HeldOn(w) ==
  SumOf(Need, {p \in Waiting : place[p] = w})
    + SumOf(Amount, {x \in moved : Source[x] = w})

(* Whatever webhooks and sync rounds overwrite balances meanwhile, no
   reservation is lost: pending_amount covers every transfer that was given the
   wallet and every vault-to-vault transfer created from it.  Those of the
   latter stay for good, since no webhook of theirs releases them
   (dao/webhook/service.py:68-71, 306-364). *)
ReservationsKept == \A w \in Wallets : pending[w] >= HeldOn(w)

(* A reservation becomes visible only within the balance that is committed
   with it, although the queue run of a webhook reserves on a balance it has
   only flushed, and other sessions overwrite the same balance
   (dao/webhook/update.py:69-100, 184-188, dao/webhook/service.py:355).  This ends
   where a move is taken from a HOT wallet: its lowered balance is assigned
   and not flushed when the queue run reserves (service.py:335). *)
GrantedOnCommitted ==
  [][\A w \in Wallets : pending'[w] > pending[w] => pending'[w] <= balance'[w]]_vars

Quiet ==
  /\ \A s \in Sessions : sess[s] = IdleSession
  /\ \A x \in Txs, st \in Statuses : inbox[x][st] = 0

(* Two events of one deposit that arrive together both find no record, and the
   slower one is dropped for good (dao/webhook/service.py:91-98).  Even so, when
   everything is quiet a deposit to a known vault has its record, unless a handler
   failed.  And whichever of its events got into the record, the backend was sent
   that status too, unless just that publish failed: its failure is swallowed and
   the handler commits (broker/publisher.py:248-257, dao/webhook/update.py:142-146). *)
NoDepositUnknown ==
  \A x \in Txs : Notifies(x) =>
    /\ Quiet /\ fb[x] # "none" /\ x \notin aborted => record[x] # None
    /\ record[x] # None => record[x] \in told[x] \cup unsent[x]

(* A deposit webhook leaves the amount of one transaction in wallets.balance, a
   repeated vault-to-vault webhook lowers the source twice, and the sync task
   compares with rows it loaded earlier.  All the same the wallets of the treasury
   come to hold, and keep, what Fireblocks has (services/balance_sync.py:71-146). *)
Converges == <>[](\A w \in Synced : balance[w] = truth[w])

(* A transfer does not wait for ever while a HOT wallet has the money, although a
   deposit first seen as COMPLETED does not look at the queue
   (dao/webhook/create.py:46-50, services/balance_sync.py:149-151). *)
WaitingServed ==
  \A p \in Waiting :
    ~ <>[](place[p] = None /\ \E w \in Hot : balance[w] - pending[w] >= Need[p])
=============================================================================
