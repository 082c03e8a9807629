------------------------- MODULE PayoutsProperties -------------------------
(***************************************************************************)
(* What the module Payouts is checked for.  Each property names the code   *)
(* it is about; the README says under which stimuli each one holds.        *)
(***************************************************************************)
EXTENDS Payouts, Sums

RowsOK ==
  /\ status \in [Transfers -> RowStatus]
  /\ wallet \in [Transfers -> Wallets \cup {None}]
  /\ known \in [Transfers -> BOOLEAN]
  /\ kind \in [Transfers -> Kinds]
  /\ older \in [Transfers -> SUBSET Transfers]

\* Sessions that work on one transfer know which.
Nameless == {"idle", "queue", "sync_read", "sync_select", "sync_queue"}

SessionsOK ==
  /\ sess \in [Sessions -> Session]
  /\ add \in [Sessions -> [Wallets -> Nat]]
  /\ \A s \in Sessions : sess[s].op \notin Nameless => sess[s].req # None

OutsideOK ==
  /\ createdQ \subseteq Transfers
  /\ approvedQ \subseteq Transfers
  /\ rejectedQ \subseteq Transfers
  /\ sent \in [Transfers -> Nat]
  /\ fb \in [Transfers -> {"none", SUBMITTED} \cup Events]
  /\ inbox \in [Transfers -> SUBSET Events]
  /\ told \in [Transfers -> SUBSET Final]

(* The rows, the sessions and the queues have the shapes the models and the
   handlers of app/ give them: a status is one of enums/status.py or the
   provider's word of a direct transfer, amounts are numbers. *)
TypeOK ==
  /\ balance \in [Wallets -> Int]
  /\ pending \in [Wallets -> Int]
  /\ RowsOK /\ SessionsOK /\ OutsideOK

(* No interleaving, duplicate or failure drives a column of wallets below
   zero: release_reserve and complete_transfer_balance check the row they
   update (dao/transfer.py:208-215, 234-246). *)
NonNegative == \A w \in Wallets : balance[w] >= 0 /\ pending[w] >= 0

HeldCovered ==
  \A s \in Sessions, w \in Wallets : add[s][w] > 0 =>
    /\ pending[w] + add[s][w] <= balance[w]
    /\ \A z \in Sessions \ {s} : add[z][w] = 0

\* Only a queue run or a creation with an explicit source holds anything.
HeldByWriters ==
  \A s \in Sessions, w \in Wallets :
    add[s][w] > 0 => sess[s].op \in {"queue"} \cup SentKinds

(* Two sessions never hold uncommitted reservations on one wallet, and what a
   session has reserved but not committed stays covered until its commit,
   whatever the other sessions do in between (dao/transfer.py:47-48,
   api/transfer.py:924-960).  This is what makes the guard of the UPDATE enough. *)
UncommittedCovered == HeldCovered /\ HeldByWriters

(* Reservations are granted within balance - pending_amount as they are at the
   commit that makes them visible (dao/transfer.py:62, 184). *)
ReserveWithinAvailable ==
  [][\A w \in Wallets : pending'[w] > pending[w] => pending'[w] <= balance'[w]]_vars

(* While no balance is overwritten from outside, what is promised on a wallet
   never exceeds what is on it: the wallet's available balance, which the API
   and the limits of the UPDATEs use, is never negative. *)
Solvent == \A w \in Wallets : pending[w] <= balance[w]

(* The wallets table as Payouts drives it is the one WalletLedger promises. *)
LedgerSpec == Ledger!Spec

(* handle_transfer_approved commits SIGNING before it calls the provider and
   refuses any later status (broker/consumer.py:257-268): one transfer never
   becomes two transactions at Fireblocks. *)
AtMostOneProviderTx == \A t \in Transfers : sent[t] <= 1

(* The backend, which pays its own customers by these callbacks, never gets two
   different verdicts on one payout (services/payout_callback.py). *)
OneVerdict == \A t \in Transfers : Cardinality(told[t]) <= 1

(* A transfer in a final status stays in it (models/transfer.py:180-187). *)
FinalIsFinal ==
  [][\A t \in Transfers : status[t] \in Final => status'[t] = status[t]]_vars

Phase(t) ==
  CASE status[t] = "absent"      -> "absent"
    [] status[t] \in Approvable -> "open"
    [] status[t] \in Final      -> "over"
    [] OTHER                     -> "started"

Promise == INSTANCE PayoutPromise WITH
  phase <- [t \in Transfers |-> Phase(t)],
  paid <- sent,
  verdict <- told

(* Seen from the backend and from Fireblocks, the handlers, the consumers and
   the webhooks together are the life of a payout that PayoutPromise describes:
   a cancelled one is never paid, a completed one was paid once
   (api/transfer.py, broker/consumer.py, dao/webhook/service.py). *)
PromiseSpec == Promise!Spec

Live == {"pending_approval", "pending", "signing", "broadcasting", SUBMITTED}

Reserved(w) == {t \in Transfers : status[t] \in Live /\ wallet[t] = w}

(* The pending_amount of a wallet covers every transfer that still counts on a
   reservation there: no handler gives back, or spends, the money of another
   transfer. *)
LiveReserveBacked ==
  \A w \in Wallets : SumOf(Amount, Reserved(w)) <= pending[w]

(* Nothing stays reserved for transfers that no longer need it.  /cancel is
   documented to free the reservation (api/transfer.py:848, dao/transfer.py:534),
   a confirmed transfer to take it off and lower the balance (dao/transfer.py:233);
   the code frees it in status "pending" alone, while an external transfer is
   reserved in "pending_approval", and takes it off only if the balance has not
   been lowered already. *)
NothingLeaks ==
  \A w \in Wallets : pending[w] <= SumOf(Amount, Reserved(w))

Affordable(t) == \E w \in Hot : balance[w] - pending[w] >= Amount[t]

(* The sync task works the pending_balance queue after every round
   (services/balance_sync.py:148-149): no transfer waits for ever while a hot
   wallet has the money for it all the time. *)
QueueDrains ==
  \A t \in Transfers : []<>(status[t] # "pending_balance" \/ ~Affordable(t))

(* A transfer the Workflow knows of, or that is on its way through Fireblocks,
   reaches a final status, if every message and webhook of it arrives, in order,
   each handler runs to its end and no two sessions work on it at once
   (broker/consumer.py:257-315, dao/webhook/service.py:163-240).  Outside of these
   the code does park transfers: the consumer writes BROADCASTING over what a
   webhook has stored since (consumer.py:291-293), a late webhook takes a final
   status back, and one whose handler fails does not come again. *)
PayoutEnds ==
  \A t \in Transfers :
    status[t] \in Live ~> status[t] \in Final
=============================================================================
