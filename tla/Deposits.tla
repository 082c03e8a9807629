------------------------------ MODULE Deposits ------------------------------
(***************************************************************************)
(* Money that arrives in a wallet, or moves between two of them: the       *)
(* webhooks of deposits and of vault-to-vault transfers, what they do to   *)
(* wallets.balance, and the sync task that reads the provider's own total. *)
(* One asset.                                                              *)
(*                                                                         *)
(* wallets.balance is never computed from the wallet's history here: a     *)
(* deposit overwrites it with the amount of that one transaction, the sync *)
(* task with the total at Fireblocks.  A webhook is one database session;  *)
(* what it has flushed keeps the rows locked until it commits, what it has *)
(* only assigned (autoflush=False) is written at the next flush.  It tells *)
(* the backend before it commits.                                          *)
(*                                                                         *)
(* Payouts is about what happens to a transfer after its reservation, from *)
(* publish_transfer_created on.                                            *)
(***************************************************************************)
EXTENDS Integers, Sequences, FiniteSets

CONSTANTS
  Txs,         \* transactions at Fireblocks
  Kind,        \* "deposit", "move" (vault to vault), "legacy" (no transfer known)
  Amount,      \* the net amount of each
  Source,      \* the wallet row it is taken from, or None
  Dest,        \* the wallet row it is paid to, or None
  Recognised,  \* those whose vault and asset are in the database
  Wallets,     \* rows of the wallets table
  Hot,         \* those in an active HOT vault
  Synced,      \* those in an active HOT, WARM or COLD vault
  Start,       \* what each wallet holds at first
  Arrival,     \* transfers that wait in pending_balance, oldest first
  Need,        \* the amount of each
  Sessions,    \* database sessions that can be open at once
  Workers,     \* those of the sync task and of /treasury/sync/run
  QueueLimit,  \* transfers one run over the queue looks at
  Copies,      \* how often the event of each status of each may be delivered
  Stimuli,     \* the calls and failures that can happen
  None         \* SQL NULL

Waiting == {Arrival[i] : i \in DOMAIN Arrival}

Statuses == {"CONFIRMING", "COMPLETED", "FAILED"}

ASSUME DepositsAssumption ==
  /\ Hot \subseteq Synced /\ Synced \subseteq Wallets /\ Workers \subseteq Sessions
  /\ None \notin Wallets \cup Waiting
  /\ Kind \in [Txs -> {"deposit", "move", "legacy"}]
  /\ Amount \in [Txs -> Nat \ {0}] /\ Need \in [Waiting -> Nat \ {0}]
  /\ Source \in [Txs -> Wallets \cup {None}] /\ Dest \in [Txs -> Wallets \cup {None}]
  /\ Start \in [Wallets -> Nat] /\ QueueLimit \in Nat
  /\ Copies \in [Txs -> [Statuses -> SUBSET Nat]]

VARIABLES
  truth,              \* Fireblocks: the total of each wallet
  fb, inbox,          \* Fireblocks: status of each transaction, events to deliver
  balance, pending,   \* table wallets
  record,             \* table transactions: the status stored, or None
  place,              \* table transfers: the wallet a waiting transfer got, or None
  sess,               \* open sessions
  told, unsent,       \* statuses of a deposit the backend was sent, and was to be sent
  moved,              \* vault-to-vault transfers that were created by the API
  aborted             \* transactions one of whose events met a failing handler

provider == <<truth, fb, inbox>>
tables   == <<balance, pending, record, place>>
outside  == <<told, unsent>>
vars     == <<provider, tables, sess, outside, moved, aborted>>

\* put: wallet balances flushed; add: reservations; picked: transfers served;
\* late: the balance assigned to the source wallet and not flushed yet;
\* todo: positions in Arrival of those still to be looked at;
\* loaded: what the sync task has loaded of a wallet, then what it has assigned;
\* asked: the wallets it has asked Fireblocks for.
IdleSession ==
  [op |-> "idle", tx |-> None, st |-> None, found |-> None,
   put |-> [w \in Wallets |-> None], late |-> None, add |-> [w \in Wallets |-> 0],
   todo |-> {}, picked |-> [p \in Waiting |-> None],
   loaded |-> [w \in Wallets |-> None], asked |-> {}]

-----------------------------------------------------------------------------
(* What a session sees, and what it waits for *)

RowFree(s, w) == \A z \in Sessions \ {s} : sess[z].put[w] = None /\ sess[z].add[w] = 0
TransferFree(s, p) == \A z \in Sessions \ {s} : sess[z].picked[p] = None

\* Another session has inserted or updated the record and not committed.
RecordFree(s, tx) ==
  \A z \in Sessions \ {s} : sess[z].tx = tx => sess[z].op \notin {"queue", "notify", "commit"}

Balance(s, w) == IF sess[s].put[w] = None THEN balance[w] ELSE sess[s].put[w]

\* Slip: the reservation is checked against the balance alone.
AvailableOnBalance(s, w) == Balance(s, w)

Available(s, w) == Balance(s, w) - pending[w] - sess[s].add[w]

\* Which of them is taken does not matter here.
Fitting(s, p) == {w \in Hot : Available(s, w) >= Need[p]}

\* The oldest waiting transfers, as a session that selects them now sees them.
Unplaced == {i \in DOMAIN Arrival : place[Arrival[i]] = None}
Oldest == {i \in Unplaced : Cardinality({j \in Unplaced : j < i}) < QueueLimit}

\* The transfer at position i is the next one a run over the queue looks at.
Foremost(s, i) == i \in sess[s].todo /\ \A j \in sess[s].todo : i <= j

Close(s) == sess' = [sess EXCEPT ![s] = IdleSession]

Init ==
  /\ truth = Start /\ balance = Start
  /\ pending = [w \in Wallets |-> 0]
  /\ fb = [x \in Txs |-> "none"]
  /\ inbox = [x \in Txs |-> [st \in Statuses |-> 0]]
  /\ record = [x \in Txs |-> None]
  /\ place = [p \in Waiting |-> None]
  /\ sess = [s \in Sessions |-> IdleSession]
  /\ told = [x \in Txs |-> {}] /\ unsent = [x \in Txs |-> {}]
  /\ moved = {} /\ aborted = {}

-----------------------------------------------------------------------------
(* Fireblocks: transactions start, move money when they complete, and each
   change of status is sent as an event, once or more, in any order. *)

Emit(x, st) ==
  /\ fb' = [fb EXCEPT ![x] = st]
  /\ \E n \in Copies[x][st] : inbox' = [inbox EXCEPT ![x][st] = n]

\* A deposit, or a move made in the Fireblocks console.
ProviderStarts(x) ==
  /\ fb[x] = "none"
  /\ Emit(x, "CONFIRMING")
  /\ UNCHANGED <<truth, tables, sess, outside, moved, aborted>>

Paid(x, w) == (IF w = Dest[x] THEN Amount[x] ELSE 0) - (IF w = Source[x] THEN Amount[x] ELSE 0)

ProviderCompletes(x) ==
  /\ fb[x] = "CONFIRMING"
  /\ truth' = [w \in Wallets |-> truth[w] + Paid(x, w)]
  /\ \A w \in Wallets : truth'[w] >= 0
  /\ Emit(x, "COMPLETED")
  /\ UNCHANGED <<tables, sess, outside, moved, aborted>>

ProviderFails(x) ==
  /\ "tx_fails" \in Stimuli
  /\ fb[x] = "CONFIRMING"
  /\ Emit(x, "FAILED")
  /\ UNCHANGED <<truth, tables, sess, outside, moved, aborted>>

Taken(x, st) ==
  /\ inbox[x][st] > 0
  /\ inbox' = [inbox EXCEPT ![x][st] = @ - 1]
  /\ UNCHANGED <<truth, fb>>

-----------------------------------------------------------------------------
(* Deposits, and outgoing transactions of which no transfer is known *)

Notifies(x) == Kind[x] = "deposit" /\ x \in Recognised

(* The record of the transaction is looked up by its provider_tx_id. *)
RecordBegin(s, x, st) ==
  /\ sess[s].op = "idle" /\ Kind[x] # "move"
  /\ Taken(x, st)
  /\ sess' = [sess EXCEPT ![s] = [IdleSession EXCEPT !.op = "record", !.tx = x, !.st = st,
                                                     !.found = record[x]]]
  /\ UNCHANGED <<tables, outside, moved, aborted>>

\* The ORM writes only what differs from the row it has loaded.
Write(w, value) == IF value = balance[w] THEN None ELSE value

(* update_wallet_balance: the amount of the one transaction becomes the
   balance.  Its flush needs the row. *)
Overwritten(s, x) ==
  IF Notifies(x) /\ sess[s].st = "COMPLETED" /\ Dest[x] # None
    THEN [sess[s].put EXCEPT ![Dest[x]] = Write(Dest[x], Amount[x])] ELSE sess[s].put

CanFlush(s, put) == \A w \in Wallets : put[w] # None => RowFree(s, w)

Goes(s, o, put, todo) ==
  sess' = [sess EXCEPT ![s].op = o, ![s].put = put, ![s].todo = todo]

(* create_transaction: no record was found.  The queue is not looked at. *)
RecordInsert(s) ==
  LET x == sess[s].tx
      put == Overwritten(s, x)
  IN  /\ sess[s].op = "record" /\ sess[s].found = None
      /\ RecordFree(s, x) /\ CanFlush(s, put)
      /\ record[x] = None
      /\ Goes(s, IF Notifies(x) THEN "notify" ELSE "commit", put, {})
      /\ UNCHANGED <<provider, tables, outside, moved, aborted>>

(* provider_tx_id is unique: another event of the transaction was first.  The
   handler raises, the session is rolled back, Fireblocks gets its 200 and does
   not send the event again. *)
RecordConflict(s) ==
  /\ sess[s].op = "record" /\ sess[s].found = None
  /\ RecordFree(s, sess[s].tx)
  /\ record[sess[s].tx] # None
  /\ Close(s)
  /\ UNCHANGED <<provider, tables, outside, moved, aborted>>

(* update_transaction: whatever the event says replaces what is stored; the
   balance and the queue when it says COMPLETED. *)
RecordUpdate(s) ==
  LET x == sess[s].tx
      put == Overwritten(s, x)
      works == Notifies(x) /\ sess[s].st = "COMPLETED"
  IN  /\ sess[s].op = "record" /\ sess[s].found # None
      /\ RecordFree(s, x) /\ CanFlush(s, put)
      /\ IF works THEN Goes(s, "queue", put, Oldest)
           ELSE Goes(s, IF Notifies(x) THEN "notify" ELSE "commit", put, {})
      /\ UNCHANGED <<provider, tables, outside, moved, aborted>>

\* A failing publish is logged and swallowed: the handler goes on.  Bound: once
\* for each transaction.
Reported(x, st) ==
  \/ told' = [told EXCEPT ![x] = @ \cup {st}] /\ UNCHANGED unsent
  \/ /\ "lost_publish" \in Stimuli /\ unsent[x] = {}
     /\ unsent' = [unsent EXCEPT ![x] = @ \cup {st}] /\ UNCHANGED told

\* Slip: nothing is sent for a transaction seen for the first time.
NotifyUpdates(s) ==
  /\ sess[s].op = "notify"
  /\ IF sess[s].found = None THEN UNCHANGED <<told, unsent>>
       ELSE Reported(sess[s].tx, sess[s].st)
  /\ sess' = [sess EXCEPT ![s].op = "commit"]
  /\ UNCHANGED <<provider, tables, moved, aborted>>

\* notify_backend_about_deposit, for every status, before the commit.
Notify(s) ==
  /\ sess[s].op = "notify"
  /\ Reported(sess[s].tx, sess[s].st)
  /\ sess' = [sess EXCEPT ![s].op = "commit"]
  /\ UNCHANGED <<provider, tables, moved, aborted>>

-----------------------------------------------------------------------------
(* Vault to vault *)

(* POST /transfers/internal/create with a destination vault: reserve, send;
   the session goes on to commit. *)
MoveCreate(s, x) ==
  LET w == Source[x]
  IN  /\ "api_move" \in Stimuli
      /\ sess[s].op = "idle" /\ Kind[x] = "move" /\ w # None
      /\ fb[x] = "none"
      /\ Available(s, w) >= Amount[x] /\ RowFree(s, w)
      /\ sess' = [sess EXCEPT ![s].op = "commit", ![s].tx = x, ![s].add[w] = Amount[x]]
      /\ Emit(x, "CONFIRMING")
      /\ UNCHANGED <<truth, tables, outside, moved, aborted>>

Applies(x, st) == st = "COMPLETED" /\ x \in Recognised /\ Dest[x] # None

\* Not completed, or not to a wallet of ours: the transfer itself, if there is
\* one, and its reservation are left as they are.
MoveIgnored(x, st) ==
  /\ Kind[x] = "move" /\ ~Applies(x, st)
  /\ Taken(x, st)
  /\ UNCHANGED <<tables, sess, outside, moved, aborted>>

\* Slip: below 0 as well.
LoweredBelowZero(x) ==
  LET w == Source[x]
  IN  IF w = None THEN None ELSE Write(w, balance[w] - Amount[x])

\* The source wallet is lowered from the value loaded here, not below 0.
Lowered(x) ==
  LET w == Source[x]
  IN  IF w = None THEN None
        ELSE Write(w, IF balance[w] < Amount[x] THEN 0 ELSE balance[w] - Amount[x])

MoveBegin(s, x, st) ==
  LET put == [IdleSession.put EXCEPT ![Dest[x]] = Write(Dest[x], Amount[x])]
  IN  /\ sess[s].op = "idle" /\ Kind[x] = "move" /\ Applies(x, st)
      /\ Taken(x, st)
      /\ CanFlush(s, put)
      /\ sess' = [sess EXCEPT ![s] = [IdleSession EXCEPT !.op = "queue", !.tx = x, !.st = st,
                                        !.put = put, !.late = Lowered(x), !.todo = Oldest]]
      /\ UNCHANGED <<tables, outside, moved, aborted>>

-----------------------------------------------------------------------------
(* The queue of waiting transfers inside a webhook, and the sync task *)

\* The flush that ends a turn also writes the source wallet.
Flushed(s) ==
  IF sess[s].late = None THEN sess[s].put
    ELSE [sess[s].put EXCEPT ![Source[sess[s].tx]] = sess[s].late]

Reserved(s, i, w) ==
  sess' = [sess EXCEPT ![s].add[w] = @ + Need[Arrival[i]], ![s].picked[Arrival[i]] = w,
                       ![s].todo = @ \ {i}, ![s].put = Flushed(s), ![s].late = None]

(* process_pending_balance_transfer.  The transfer is not read again: another
   session may have had it. *)
QueueTurn(s) ==
  /\ sess[s].op = "queue"
  /\ CanFlush(s, Flushed(s))
  /\ \E i \in DOMAIN Arrival :
       /\ Foremost(s, i) /\ TransferFree(s, Arrival[i])
       /\ \E w \in Fitting(s, Arrival[i]) : RowFree(s, w) /\ Reserved(s, i, w)
  /\ UNCHANGED <<provider, tables, outside, moved, aborted>>

\* Not enough on any HOT wallet: retry_count is flushed, nothing else.
QueueSkip(s) ==
  /\ sess[s].op = "queue"
  /\ CanFlush(s, Flushed(s))
  /\ \E i \in DOMAIN Arrival :
       /\ Foremost(s, i) /\ Fitting(s, Arrival[i]) = {}
       /\ sess' = [sess EXCEPT ![s].todo = @ \ {i}, ![s].put = Flushed(s), ![s].late = None]
  /\ UNCHANGED <<provider, tables, outside, moved, aborted>>

QueueEnd(s) ==
  /\ sess[s].op = "queue" /\ sess[s].todo = {}
  /\ sess' = [sess EXCEPT ![s].op = IF Kind[sess[s].tx] = "deposit" THEN "notify" ELSE "commit"]
  /\ UNCHANGED <<provider, tables, outside, moved, aborted>>

\* Slip: pending_amount is written back as the webhook knew it.
CommitPendingAbsolute(s) == pending' = sess[s].add

CommitPending(s) == pending' = [w \in Wallets |-> pending[w] + sess[s].add[w]]

(* Everything assigned is flushed and the session commits. *)
Commit(s) ==
  LET put == Flushed(s)
      x == sess[s].tx
  IN  /\ sess[s].op = "commit"
      /\ CanFlush(s, put)
      /\ balance' = [w \in Wallets |-> IF put[w] = None THEN balance[w] ELSE put[w]]
      /\ CommitPending(s)
      /\ place' = [p \in Waiting |-> IF sess[s].picked[p] = None THEN place[p] ELSE sess[s].picked[p]]
      /\ record' = IF Kind[x] = "move" \/ sess[s].found = sess[s].st THEN record
                     ELSE [record EXCEPT ![x] = sess[s].st]
      /\ moved' = IF sess[s].st = None THEN moved \cup {x} ELSE moved
      /\ Close(s)
      /\ UNCHANGED <<provider, outside, aborted>>

(* One round of the sync task loads the wallets of the treasury ... *)
SyncRead(s) ==
  /\ s \in Workers /\ sess[s].op = "idle"
  /\ sess' = [sess EXCEPT ![s].op = "sync_fetch",
       ![s].loaded = [w \in Wallets |-> IF w \in Synced THEN balance[w] ELSE None]]
  /\ UNCHANGED <<provider, tables, outside, moved, aborted>>

\* Slip: a total of 0 is taken for no answer.
DiffersUnlessZero(w, loaded) == truth[w] # loaded /\ truth[w] # 0

\* Only a total other than the balance loaded is assigned.
Differs(w, loaded) == truth[w] # loaded

\* In the order of the query, which is the same for every round.
Upcoming(s) == CHOOSE w \in Synced \ sess[s].asked : TRUE

(* ... and then asks Fireblocks for the totals, vault by vault; *)
SyncFetch(s) ==
  LET w == Upcoming(s)
  IN  /\ sess[s].op = "sync_fetch" /\ sess[s].asked # Synced
      /\ sess' = [sess EXCEPT ![s].asked = @ \cup {w},
                    ![s].loaded[w] = IF Differs(w, @) THEN truth[w] ELSE None]
      /\ UNCHANGED <<provider, tables, outside, moved, aborted>>

\* Slip: the queue is looked at only when a balance has changed.
SyncWriteQuiet(s) ==
  /\ sess[s].op = "sync_fetch" /\ sess[s].asked = Synced
  /\ CanFlush(s, sess[s].loaded)
  /\ balance' = [w \in Wallets |->
                   IF sess[s].loaded[w] = None THEN balance[w] ELSE sess[s].loaded[w]]
  /\ sess' = [sess EXCEPT ![s] = [IdleSession EXCEPT !.op = "sync_queue",
                                    !.todo = IF balance' = balance THEN {} ELSE Oldest]]
  /\ UNCHANGED <<provider, pending, record, place, outside, moved, aborted>>

(* it commits them and goes through the queue. *)
SyncWrite(s) ==
  /\ sess[s].op = "sync_fetch" /\ sess[s].asked = Synced
  /\ CanFlush(s, sess[s].loaded)
  /\ balance' = [w \in Wallets |->
                   IF sess[s].loaded[w] = None THEN balance[w] ELSE sess[s].loaded[w]]
  /\ sess' = [sess EXCEPT ![s] = [IdleSession EXCEPT !.op = "sync_queue", !.todo = Oldest]]
  /\ UNCHANGED <<provider, pending, record, place, outside, moved, aborted>>

(* Each transfer of the queue is reserved and committed. *)
SyncTurn(s) ==
  /\ sess[s].op = "sync_queue"
  /\ \E i \in DOMAIN Arrival :
       LET p == Arrival[i]
       IN  /\ Foremost(s, i)
           /\ \/ /\ TransferFree(s, p)
                 /\ \E w \in Fitting(s, p) :
                      /\ RowFree(s, w)
                      /\ pending' = [pending EXCEPT ![w] = @ + Need[p]]
                      /\ place' = [place EXCEPT ![p] = w]
              \/ Fitting(s, p) = {} /\ UNCHANGED <<pending, place>>
           /\ sess' = [sess EXCEPT ![s].todo = @ \ {i}]
  /\ UNCHANGED <<provider, balance, record, outside, moved, aborted>>

SyncEnd(s) ==
  /\ sess[s].op = "sync_queue" /\ sess[s].todo = {}
  /\ Close(s)
  /\ UNCHANGED <<provider, tables, outside, moved, aborted>>

-----------------------------------------------------------------------------
(* A webhook's handler raises: nothing of it is stored, and the event is not
   sent again.  Bound: once for each transaction. *)
Abort(s) ==
  /\ "abort" \in Stimuli
  /\ sess[s].op # "idle" /\ sess[s].tx # None /\ sess[s].tx \notin aborted
  /\ aborted' = aborted \cup {sess[s].tx}
  /\ Close(s)
  /\ UNCHANGED <<provider, tables, outside, moved>>

Step(s) ==
  \/ RecordInsert(s) \/ RecordConflict(s) \/ RecordUpdate(s) \/ Notify(s)
  \/ QueueTurn(s) \/ QueueSkip(s) \/ QueueEnd(s) \/ Commit(s)
  \/ SyncFetch(s) \/ SyncWrite(s) \/ SyncTurn(s) \/ SyncEnd(s)

Provider(x) == ProviderStarts(x) \/ ProviderCompletes(x) \/ ProviderFails(x)

Deliver(s, x) == \E st \in Statuses : RecordBegin(s, x, st) \/ MoveBegin(s, x, st)

Next ==
  \/ \E s \in Sessions : Step(s) \/ SyncRead(s) \/ Abort(s)
  \/ \E s \in Sessions, x \in Txs : Deliver(s, x) \/ MoveCreate(s, x)
  \/ \E x \in Txs : Provider(x)
  \/ \E x \in Txs, st \in Statuses : MoveIgnored(x, st)

Spec == Init /\ [][Next]_vars

(* Sessions go on, the sync task starts again and again, Fireblocks delivers
   what it has sent. *)
Fairness ==
  /\ \A s \in Sessions : WF_vars(Step(s))
  /\ SF_vars(\E s \in Workers : SyncRead(s))
  /\ \A x \in Txs : SF_vars(\E s \in Sessions : Deliver(s, x))
  /\ WF_vars(\E x \in Txs, st \in Statuses : MoveIgnored(x, st))

FairSpec == Spec /\ Fairness
=============================================================================
