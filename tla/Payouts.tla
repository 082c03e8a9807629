------------------------------ MODULE Payouts ------------------------------
(***************************************************************************)
(* The life of a transfer, from the API call to the provider's last        *)
(* webhook, for the transfers and wallets of one asset.                    *)
(*                                                                         *)
(* The shared state is the wallets and transfers tables, the queues of the *)
(* broker, the transactions at Fireblocks and what the backend was told.   *)
(* Every piece of custody code that touches it runs in a database session  *)
(* (one HTTP request, one consumer callback, one round of the sync task,   *)
(* on any pod).  A session first LOADS the rows it decides on and later    *)
(* writes: the ORM keeps what it loaded (autoflush=False,                  *)
(* expire_on_commit=False, no version column), so a decision may rest on a *)
(* row that another session has changed meanwhile.  The conditional        *)
(* UPDATEs on wallets are evaluated by PostgreSQL on the current row, and  *)
(* a row written by an uncommitted transaction makes other writers wait.   *)
(*                                                                         *)
(* The Workflow service, Fireblocks and the backend are external: they are *)
(* modelled from how the code calls them and is called by them.            *)
(***************************************************************************)
EXTENDS Integers, FiniteSets

CONSTANTS
  Transfers,     \* request ids
  Wallets,       \* wallet rows of the asset
  Hot,           \* those in an active HOT vault
  Primary,       \* those in the primary HOT vault
  Sessions,      \* database sessions that can be open at once
  Workers,       \* those of the sync task and of /queue/process
  Amount,        \* the amount of each transfer
  Totals,        \* balances the provider can report
  QueueLimit,    \* transfers one call of /queue/process looks at
  SyncLimit,     \* transfers one round of the sync task looks at
  SendBound,     \* bound: provider transactions of one transfer
  Stimuli,       \* the calls and failures that can happen
  None           \* SQL NULL

ASSUME SetsAssumption ==
  Hot \subseteq Wallets /\ Primary \subseteq Hot /\ Workers \subseteq Sessions

ASSUME NumbersAssumption ==
  /\ Amount \in [Transfers -> Nat \ {0}]
  /\ Totals \subseteq Nat
  /\ QueueLimit \in Nat /\ SyncLimit \in Nat /\ SendBound \in Nat

ASSUME NoneAssumption == None \notin Wallets /\ None \notin Transfers

VARIABLES
  balance, pending,                    \* table wallets
  status, wallet, known, kind, older,  \* table transfers
  sess, add,                           \* open sessions
  createdQ, approvedQ, rejectedQ,      \* RabbitMQ
  sent, fb, inbox,                     \* Fireblocks
  told                                 \* payout callbacks the backend received

wallets   == <<balance, pending>>
rows      == <<status, wallet, known, kind, older>>
broker    == <<createdQ, approvedQ, rejectedQ>>
provider  == <<sent, fb, inbox>>
vars      == <<wallets, rows, sess, add, broker, provider, told>>

-----------------------------------------------------------------------------
(* Values *)

Statuses ==
  {"pending_approval", "pending_balance", "pending", "signing", "broadcasting",
   "completed", "rejected", "failed", "cancelled"}

\* A direct transfer stores the provider's own word for the status of its
\* transaction, which is none of the above.
SUBMITTED == "SUBMITTED"

Final       == {"completed", "rejected", "failed", "cancelled"}
Cancellable == {"pending_approval", "pending_balance", "pending"}
\* Slip: a consumer that knows the first status only.
ApprovableOnce == {"pending_approval"}
Approvable  == {"pending", "pending_balance", "pending_approval"}

RowStatus == Statuses \cup {SUBMITTED, "absent"}

\* "payout": through the Workflow; "direct": external with an explicit source;
\* "address": internal to a whitelisted address.
SentKinds == {"direct", "address"}
Kinds == {"payout"} \cup SentKinds
IsInternal(t) == kind[t] = "address"

Events == {"QUEUED", "BROADCASTING", "COMPLETED", "FAILED"}

Endpoints == {"approve", "reject", "signing", "complete", "cancel"}
ApprovedOps == {"approved", "execute", "executed", "exec_failed"}
SyncOps == {"sync_read", "sync_select", "sync_queue", "sync_publish"}
Ops == {"idle", "publish", "queue", "rejected"}
         \cup SentKinds \cup Endpoints \cup ApprovedOps \cup SyncOps \cup Events

Session ==
  [op : Ops, req : Transfers \cup {None}, seen : RowStatus,
   src : Wallets \cup {None}, todo : SUBSET Transfers,
   picked : [Transfers -> Wallets \cup {None}], bal : [Wallets -> Int]]

IdleSession ==
  [op |-> "idle", req |-> None, seen |-> "absent", src |-> None, todo |-> {},
   picked |-> [t \in Transfers |-> None], bal |-> [w \in Wallets |-> 0]]

NoAdd == [w \in Wallets |-> 0]
Exists(t) == status[t] # "absent"

-----------------------------------------------------------------------------
(* Row locks and the conditional UPDATEs of dao/transfer.py *)

RowFree(s, w) == \A z \in Sessions \ {s} : add[z][w] = 0
TransferFree(s, t) == \A z \in Sessions \ {s} : sess[z].picked[t] = None

\* Slip: what the session itself has reserved is not seen.
AvailableForgetsOwn(s, w) == balance[w] - pending[w]

\* What session s sees available on w: committed rows and its own writes.
Available(s, w) == balance[w] - pending[w] - add[s][w]

\* Slip: pending_amount is left out of the guard.
GrantsOnBalance(s, w, amount) == balance[w] >= amount

\* A reservation is granted on the row as it is now.
Grants(s, w, amount) == Available(s, w) >= amount

Fitting(s, amount) == {w \in Hot : Grants(s, w, amount)}

(* The sub-select of select_and_reserve_hot_wallet: HOT wallets with enough
   available, those of the primary vault first, then the fullest. *)
Best(s, amount) ==
  LET fit == Fitting(s, amount)
      first == IF fit \cap Primary # {} THEN fit \cap Primary ELSE fit
  IN  {w \in first : \A v \in first : Available(s, w) >= Available(s, v)}

(* The sub-select ran before the UPDATE had the row: under contention its
   choice may no longer be the best, and is checked again for funds alone. *)
Candidates(s, amount) ==
  IF "contention" \in Stimuli THEN Fitting(s, amount) ELSE Best(s, amount)

\* No row updated: nothing fits, or the row chosen no longer does.
Refused(s, amount) ==
  \/ Fitting(s, amount) = {}
  \/ "contention" \in Stimuli /\ Fitting(s, amount) # Hot

\* Slip: pending_amount is lowered without a guard.
ReleaseUnguarded(w, amount) == TRUE

ReleaseGuard(w, amount) == pending[w] >= amount

Released(w, amount) ==
  IF w # None /\ ReleaseGuard(w, amount)
    THEN [pending EXCEPT ![w] = @ - amount] ELSE pending

\* Slip: only the balance is checked.
CompleteOnBalance(w, amount) == balance[w] >= amount

CompleteGuard(w, amount) == pending[w] >= amount /\ balance[w] >= amount

\* Slip: pending_amount is not lowered with the balance.
CompletedOnBalance(w, amount) ==
  /\ balance' = IF w # None /\ CompleteGuard(w, amount)
                  THEN [balance EXCEPT ![w] = @ - amount] ELSE balance
  /\ UNCHANGED pending

(* complete_transfer_balance: both columns, or neither. *)
Completed(w, amount) ==
  IF w # None /\ CompleteGuard(w, amount)
    THEN /\ pending' = [pending EXCEPT ![w] = @ - amount]
         /\ balance' = [balance EXCEPT ![w] = @ - amount]
    ELSE UNCHANGED wallets

\* The ORM writes a column only when it differs from what the session loaded.
Written(s, t, new) ==
  IF sess[s].seen = new THEN status ELSE [status EXCEPT ![t] = new]

(* Nothing keeps two sessions from working on one transfer at once; without
   "overlap" the callers happen not to. *)
Alone(s, t) ==
  "overlap" \in Stimuli
    \/ \A z \in Sessions \ {s} : t # sess[z].req /\ t \notin sess[z].todo
                               /\ sess[z].picked[t] = None

Open(s, o, t) ==
  /\ sess[s].op = "idle"
  /\ Exists(t) /\ Alone(s, t)
  /\ sess' = [sess EXCEPT ![s] = [IdleSession EXCEPT !.op = o, !.req = t,
                                    !.seen = status[t], !.src = wallet[t]]]

Close(s) == sess' = [sess EXCEPT ![s] = IdleSession]

\* What the session has not committed is gone.
Rollback(s) ==
  /\ Close(s)
  /\ add' = [add EXCEPT ![s] = NoAdd]

\* Nobody is told of an internal transfer, or when BACKEND_URL is not set.
Tell(t, what) ==
  told' = IF IsInternal(t) \/ "backend" \notin Stimuli
            THEN told ELSE [told EXCEPT ![t] = @ \cup {what}]

\* publish_transfer_created logs a failure and returns False; no caller retries.
Publish(t) ==
  \/ createdQ' = createdQ \cup {t}
  \/ "lost_publish" \in Stimuli /\ createdQ' = createdQ

-----------------------------------------------------------------------------
Init ==
  /\ balance \in [Wallets -> Totals]
  /\ pending = [w \in Wallets |-> 0]
  /\ status = [t \in Transfers |-> "absent"]
  /\ wallet = [t \in Transfers |-> None]
  /\ known = [t \in Transfers |-> FALSE]
  /\ kind = [t \in Transfers |-> "payout"]
  /\ older = [t \in Transfers |-> {}]
  /\ sess = [s \in Sessions |-> IdleSession]
  /\ add = [s \in Sessions |-> NoAdd]
  /\ createdQ = {} /\ approvedQ = {} /\ rejectedQ = {}
  /\ sent = [t \in Transfers |-> 0]
  /\ fb = [t \in Transfers |-> "none"]
  /\ inbox = [t \in Transfers |-> {}]
  /\ told = [t \in Transfers |-> {}]

-----------------------------------------------------------------------------
(* Creating transfers *)

NewRow(t, k, st, w) ==
  /\ status' = [status EXCEPT ![t] = st]
  /\ wallet' = [wallet EXCEPT ![t] = w]
  /\ kind' = [kind EXCEPT ![t] = k]
  /\ older' = [older EXCEPT ![t] = {u \in Transfers : Exists(u)}]

(* POST /transfers/external/create with funds: reserve, insert, commit; the
   session goes on to publish. *)
CreateReserved(s, t) ==
  /\ sess[s].op = "idle" /\ ~Exists(t)
  /\ \E w \in Candidates(s, Amount[t]) :
       /\ RowFree(s, w)
       /\ pending' = [pending EXCEPT ![w] = @ + Amount[t]]
       /\ NewRow(t, "payout", "pending_approval", w)
  /\ sess' = [sess EXCEPT ![s].op = "publish", ![s].req = t]
  /\ UNCHANGED <<balance, known, add, broker, provider, told>>

(* ... and without funds: the transfer waits in the pending_balance queue and
   the Workflow is not told of it. *)
CreateQueued(s, t) ==
  /\ sess[s].op = "idle" /\ ~Exists(t)
  /\ Refused(s, Amount[t])
  /\ NewRow(t, "payout", "pending_balance", None)
  /\ UNCHANGED <<wallets, known, sess, add, broker, provider, told>>

PublishCreated(s) ==
  /\ sess[s].op = "publish"
  /\ Publish(sess[s].req)
  /\ Close(s)
  /\ UNCHANGED <<wallets, rows, add, approvedQ, rejectedQ, provider, told>>

(* Fireblocks accepts a transaction. *)
Accept(t) ==
  /\ sent[t] < SendBound
  /\ sent' = [sent EXCEPT ![t] = @ + 1]
  /\ fb' = [fb EXCEPT ![t] = IF @ = "none" THEN SUBMITTED ELSE @]
  /\ UNCHANGED inbox

(* POST /transfers/external/create with an explicit source ("direct") and POST
   /transfers/internal/create ("address"): reserve on the given wallet, then have
   the provider create the transaction (which refuses a known externalTxId). *)
CreateSend(s, t, k, w) ==
  /\ k \in Stimuli
  /\ sess[s].op = "idle" /\ ~Exists(t) /\ sent[t] = 0
  /\ Grants(s, w, Amount[t]) /\ RowFree(s, w)
  /\ add' = [add EXCEPT ![s][w] = Amount[t]]
  /\ Accept(t)
  /\ sess' = [sess EXCEPT ![s].op = k, ![s].req = t, ![s].src = w]
  /\ UNCHANGED <<wallets, rows, broker, told>>

(* ... then insert the row with the provider's status and commit; the insert of
   a request_id that exists by now fails and takes the reservation back. *)
CreateCommit(s) ==
  /\ sess[s].op \in SentKinds
  /\ LET t == sess[s].req IN
       IF Exists(t)
         THEN UNCHANGED <<pending, rows>>
         ELSE /\ pending' = [w \in Wallets |-> pending[w] + add[s][w]]
              /\ NewRow(t, sess[s].op, SUBMITTED, sess[s].src)
              /\ known' = [known EXCEPT ![t] = TRUE]
  /\ Rollback(s)
  /\ UNCHANGED <<balance, broker, provider, told>>

-----------------------------------------------------------------------------
(* The endpoints of api/transfer.py that act on an existing transfer *)

\* The statuses in which each handler goes on.
AcceptedIn(o, st, approvable, cancellable) ==
  CASE o = "approve"                -> st = "pending_approval"
    [] o \in {"reject", "complete"} -> st \notin Final
    [] o = "cancel"                 -> st \in cancellable
    [] o = "approved"               -> st \in approvable
    [] OTHER                        -> TRUE

\* Slips: a handler that goes on in one status too many.
AcceptsSigned(o, st)         == AcceptedIn(o, st, Approvable \cup {"signing"}, Cancellable)
AcceptsFinal(o, st)          == AcceptedIn(o, st, Approvable \cup Final, Cancellable)
AcceptsLateCancel(o, st)     == AcceptedIn(o, st, Approvable, Statuses \ Final)
AcceptsCancelOfFailed(o, st) == AcceptedIn(o, st, Approvable, Cancellable \cup {"failed"})

\* The guard each handler evaluates on the row it has loaded; when it fails the
\* caller gets a 4xx (a consumer drops the message) and nothing changes.
Accepts(o, st) == AcceptedIn(o, st, Approvable, Cancellable)

(* The Workflow reports a signed transaction, and a confirmed one, only once
   there is one; the other endpoints can be called at any time. *)
Callable(o, t) ==
  CASE o = "signing"  -> sent[t] > 0
    [] o = "complete" -> fb[t] = "COMPLETED"
    [] OTHER          -> TRUE

Call(s, o, t) ==
  /\ o \in Stimuli /\ Callable(o, t) /\ Accepts(o, status[t])
  /\ Open(s, o, t)
  /\ UNCHANGED <<wallets, rows, add, broker, provider, told>>

(* /approve: a transfer that already has a wallet is left as it is (its
   balance_ready message goes to no queue); else reserve now, or wait. *)
ApproveTransfer(s) ==
  /\ sess[s].op = "approve"
  /\ LET t == sess[s].req IN
       \/ /\ sess[s].src # None
          /\ UNCHANGED <<pending, status, wallet>>
       \/ /\ sess[s].src = None /\ TransferFree(s, t)
          /\ \/ \E w \in Candidates(s, Amount[t]) :
                  /\ RowFree(s, w)
                  /\ pending' = [pending EXCEPT ![w] = @ + Amount[t]]
                  /\ status' = [status EXCEPT ![t] = "pending"]
                  /\ wallet' = [wallet EXCEPT ![t] = w]
             \/ /\ Refused(s, Amount[t])
                /\ status' = [status EXCEPT ![t] = "pending_balance"]
                /\ UNCHANGED <<pending, wallet>>
  /\ Close(s)
  /\ UNCHANGED <<balance, known, kind, older, add, broker, provider, told>>

\* /reject and /cancel give the reservation back only in status "pending".
HoldsReserve(s) == sess[s].seen = "pending" /\ sess[s].src # None

ReleaseIfHeld(s, t) ==
  /\ HoldsReserve(s) => RowFree(s, sess[s].src)
  /\ pending' = IF HoldsReserve(s) THEN Released(sess[s].src, Amount[t]) ELSE pending

RejectTransfer(s) ==
  /\ sess[s].op = "reject"
  /\ LET t == sess[s].req IN
       /\ TransferFree(s, t)
       /\ ReleaseIfHeld(s, t)
       /\ status' = Written(s, t, "rejected")
  /\ Close(s)
  /\ UNCHANGED <<balance, wallet, known, kind, older, add, broker, provider, told>>

(* /cancel: the backend is told before the commit, which may still fail. *)
CancelTransfer(s) ==
  /\ sess[s].op = "cancel"
  /\ LET t == sess[s].req IN
       /\ TransferFree(s, t)
       /\ Tell(t, "cancelled")
       /\ \/ ReleaseIfHeld(s, t) /\ status' = Written(s, t, "cancelled")
          \/ "abort" \in Stimuli /\ UNCHANGED <<pending, status>>
  /\ Close(s)
  /\ UNCHANGED <<balance, wallet, known, kind, older, add, broker, provider>>

UpdateTransferSigning(s) ==
  /\ sess[s].op = "signing"
  /\ LET t == sess[s].req IN
       /\ TransferFree(s, t)
       /\ status' = Written(s, t, "signing")
       /\ known' = [known EXCEPT ![t] = TRUE]
  /\ Close(s)
  /\ UNCHANGED <<wallets, wallet, kind, older, add, broker, provider, told>>

(* /complete: 500 and nothing written when the wallet row does not cover it. *)
CompleteTransfer(s) ==
  /\ sess[s].op = "complete"
  /\ LET t == sess[s].req
         w == sess[s].src
     IN  /\ TransferFree(s, t)
         /\ w # None => RowFree(s, w)
         /\ Completed(w, Amount[t])
         /\ IF w = None \/ CompleteGuard(w, Amount[t])
              THEN status' = Written(s, t, "completed") ELSE UNCHANGED status
  /\ Close(s)
  /\ UNCHANGED <<wallet, known, kind, older, add, broker, provider, told>>

-----------------------------------------------------------------------------
(* The consumers of broker/consumer.py.  A message is acknowledged when its
   callback returns or raises, and comes back when the pod or its connection
   dies first (see Crash and Redeliver). *)

Consume(s, o, queue, t) ==
  /\ t \in queue
  /\ Open(s, o, t)

RejectedBegin(s, t) ==
  /\ Consume(s, "rejected", rejectedQ, t)
  /\ rejectedQ' = rejectedQ \ {t}
  /\ UNCHANGED <<wallets, rows, add, createdQ, approvedQ, provider, told>>

\* Whatever the status of the transfer.
RejectedFinish(s) ==
  /\ sess[s].op = "rejected"
  /\ LET t == sess[s].req
         w == sess[s].src
     IN  /\ TransferFree(s, t)
         /\ w # None => RowFree(s, w)
         /\ pending' = Released(w, Amount[t])
         /\ status' = Written(s, t, "rejected")
         /\ Tell(t, "rejected")
  /\ Close(s)
  /\ UNCHANGED <<balance, wallet, known, kind, older, add, broker, provider>>

ApprovedBegin(s, t) ==
  /\ Accepts("approved", status[t])
  /\ Consume(s, "approved", approvedQ, t)
  /\ approvedQ' = approvedQ \ {t}
  /\ UNCHANGED <<wallets, rows, add, createdQ, rejectedQ, provider, told>>

ApprovedDropped(t) ==
  /\ t \in approvedQ
  /\ ~Accepts("approved", status[t])
  /\ approvedQ' = approvedQ \ {t}
  /\ UNCHANGED <<wallets, rows, sess, add, createdQ, rejectedQ, provider, told>>

Advance(s, o) == sess' = [sess EXCEPT ![s].op = o]

\* SIGNING is committed before the provider is called.
ApprovedSign(s) ==
  /\ sess[s].op = "approved"
  /\ TransferFree(s, sess[s].req)
  /\ status' = [status EXCEPT ![sess[s].req] = "signing"]
  /\ Advance(s, "execute")
  /\ UNCHANGED <<wallets, wallet, known, kind, older, add, broker, provider, told>>

ExecuteTx(s) ==
  /\ sess[s].op = "execute"
  /\ Accept(sess[s].req)
  /\ Advance(s, "executed")
  /\ UNCHANGED <<wallets, rows, add, broker, told>>

ExecuteRefused(s) ==
  /\ "refuse" \in Stimuli
  /\ sess[s].op = "execute"
  /\ Advance(s, "exec_failed")
  /\ UNCHANGED <<wallets, rows, add, broker, provider, told>>

\* The provider has the transaction, the answer is a timeout or unreadable.
ExecuteReplyLost(s) ==
  /\ "lost_reply" \in Stimuli
  /\ sess[s].op = "execute"
  /\ Accept(sess[s].req)
  /\ Advance(s, "exec_failed")
  /\ UNCHANGED <<wallets, rows, add, broker, told>>

ApprovedDone(s) ==
  /\ sess[s].op = "executed"
  /\ LET t == sess[s].req IN
       /\ TransferFree(s, t)
       /\ status' = [status EXCEPT ![t] = "broadcasting"]
       /\ known' = [known EXCEPT ![t] = TRUE]
  /\ Close(s)
  /\ UNCHANGED <<wallets, wallet, kind, older, add, broker, provider, told>>

\* The reservation is kept.
ApprovedFailed(s) ==
  /\ sess[s].op = "exec_failed"
  /\ LET t == sess[s].req IN
       /\ TransferFree(s, t)
       /\ status' = [status EXCEPT ![t] = "failed"]
       /\ Tell(t, "failed")
  /\ Close(s)
  /\ UNCHANGED <<wallets, wallet, known, kind, older, add, broker, provider>>

(* The Workflow takes each transfer.created and answers it once. *)
WorkflowDecides(t) ==
  /\ t \in createdQ
  /\ createdQ' = createdQ \ {t}
  /\ \/ /\ "wf_approve" \in Stimuli
        /\ approvedQ' = approvedQ \cup {t}
        /\ UNCHANGED rejectedQ
     \/ /\ "wf_reject" \in Stimuli
        /\ rejectedQ' = rejectedQ \cup {t}
        /\ UNCHANGED approvedQ
  /\ UNCHANGED <<wallets, rows, sess, add, provider, told>>

-----------------------------------------------------------------------------
(* The pending_balance queue.  POST /queue/process and the sync task load the
   oldest waiting transfers and offer funds to each in turn; neither looks at
   the status of a transfer again. *)

Waiting == {t \in Transfers : status[t] = "pending_balance"}

Oldest(limit) == {t \in Waiting : Cardinality(older[t] \cap Waiting) < limit}

Turn(s, t) == t \in sess[s].todo /\ older[t] \cap sess[s].todo = {}

BeginQueue(s) ==
  /\ "queue" \in Stimuli /\ s \in Workers
  /\ sess[s].op = "idle"
  /\ Oldest(QueueLimit) # {} /\ \A t \in Oldest(QueueLimit) : Alone(s, t)
  /\ sess' = [sess EXCEPT ![s].op = "queue", ![s].todo = Oldest(QueueLimit)]
  /\ UNCHANGED <<wallets, rows, add, broker, provider, told>>

\* Reserved, and published, in the transaction that covers the whole batch.
QueueReserve(s, t) ==
  /\ sess[s].op = "queue" /\ Turn(s, t)
  /\ TransferFree(s, t)
  /\ \E w \in Candidates(s, Amount[t]) :
       /\ RowFree(s, w)
       /\ add' = [add EXCEPT ![s][w] = @ + Amount[t]]
       /\ sess' = [sess EXCEPT ![s].todo = @ \ {t}, ![s].picked[t] = w]
  /\ Publish(t)
  /\ UNCHANGED <<wallets, rows, approvedQ, rejectedQ, provider, told>>

\* Slip: the loop stops at the first transfer without funds.
LeftWaitingAndStop(s, t) ==
  /\ sess[s].op \in {"queue", "sync_queue"} /\ Turn(s, t)
  /\ Refused(s, Amount[t])
  /\ sess' = [sess EXCEPT ![s].todo = {}]
  /\ UNCHANGED <<wallets, rows, add, broker, provider, told>>

LeftWaiting(s, t) ==
  /\ sess[s].op \in {"queue", "sync_queue"} /\ Turn(s, t)
  /\ Refused(s, Amount[t])
  /\ sess' = [sess EXCEPT ![s].todo = @ \ {t}]
  /\ UNCHANGED <<wallets, rows, add, broker, provider, told>>

QueueCommit(s) ==
  /\ sess[s].op = "queue" /\ sess[s].todo = {}
  /\ pending' = [w \in Wallets |-> pending[w] + add[s][w]]
  /\ LET picked == sess[s].picked IN
       /\ status' = [t \in Transfers |->
                       IF picked[t] # None THEN "pending" ELSE status[t]]
       /\ wallet' = [t \in Transfers |->
                       IF picked[t] # None THEN picked[t] ELSE wallet[t]]
  /\ Rollback(s)
  /\ UNCHANGED <<balance, known, kind, older, broker, provider, told>>

(* services/balance_sync.py: one round loads the wallets, asks the provider for
   their balances, writes and commits those that differ from what was loaded,
   then works the queue one transfer and one commit at a time. *)
SyncRead(s) ==
  /\ "sync" \in Stimuli /\ s \in Workers
  /\ sess[s].op = "idle"
  /\ sess' = [sess EXCEPT ![s].op = "sync_read", ![s].bal = balance]
  /\ UNCHANGED <<wallets, rows, add, broker, provider, told>>

\* A wallet the provider does not report, or whose vault could not be read, is
\* left alone.
SyncWrite(s) ==
  /\ sess[s].op = "sync_read"
  /\ \E reported \in [Wallets -> Totals \cup {None}] :
       LET dirty == {w \in Wallets : reported[w] \notin {None, sess[s].bal[w]}} IN
         /\ \A w \in dirty : RowFree(s, w)
         /\ balance' = [w \in Wallets |->
                          IF w \in dirty THEN reported[w] ELSE balance[w]]
  /\ sess' = [sess EXCEPT ![s] = [IdleSession EXCEPT !.op = "sync_select"]]
  /\ UNCHANGED <<pending, rows, add, broker, provider, told>>

SyncSelect(s) ==
  /\ sess[s].op = "sync_select"
  /\ \A t \in Oldest(SyncLimit) : Alone(s, t)
  /\ sess' = [sess EXCEPT ![s].op = "sync_queue", ![s].todo = Oldest(SyncLimit)]
  /\ UNCHANGED <<wallets, rows, add, broker, provider, told>>

SyncReserve(s, t) ==
  /\ sess[s].op = "sync_queue" /\ Turn(s, t)
  /\ TransferFree(s, t)
  /\ \E w \in Candidates(s, Amount[t]) :
       /\ RowFree(s, w)
       /\ pending' = [pending EXCEPT ![w] = @ + Amount[t]]
       /\ wallet' = [wallet EXCEPT ![t] = w]
  /\ status' = [status EXCEPT ![t] = "pending"]
  /\ sess' = [sess EXCEPT ![s].op = "sync_publish", ![s].req = t,
                          ![s].todo = @ \ {t}]
  /\ UNCHANGED <<balance, known, kind, older, add, broker, provider, told>>

SyncPublish(s) ==
  /\ sess[s].op = "sync_publish"
  /\ Publish(sess[s].req)
  /\ sess' = [sess EXCEPT ![s].op = "sync_queue", ![s].req = None]
  /\ UNCHANGED <<wallets, rows, add, approvedQ, rejectedQ, provider, told>>

SyncEnd(s) ==
  /\ sess[s].op = "sync_queue" /\ sess[s].todo = {}
  /\ Close(s)
  /\ UNCHANGED <<wallets, rows, add, broker, provider, told>>

(* POST /wallets/{id}/reset-pending *)
ResetWalletPending(w) ==
  /\ "reset" \in Stimuli
  /\ pending[w] # 0 /\ \A s \in Sessions : add[s][w] = 0
  /\ pending' = [pending EXCEPT ![w] = 0]
  /\ UNCHANGED <<balance, rows, sess, add, broker, provider, told>>

-----------------------------------------------------------------------------
(* Fireblocks and its webhooks *)

ProviderReports(t, e) ==
  /\ \/ fb[t] = SUBMITTED /\ e = "QUEUED"
     \/ fb[t] = "QUEUED" /\ e = "BROADCASTING"
     \/ fb[t] = "BROADCASTING" /\ e = "COMPLETED"
     \/ /\ fb[t] \in {SUBMITTED, "QUEUED", "BROADCASTING"}
        /\ "tx_fails" \in Stimuli /\ e = "FAILED"
  /\ fb' = [fb EXCEPT ![t] = e]
  /\ inbox' = [inbox EXCEPT ![t] = @ \cup {e}]
  /\ UNCHANGED <<wallets, rows, sess, add, broker, sent, told>>

Rank(e) == CASE e = "QUEUED" -> 1 [] e = "BROADCASTING" -> 2 [] OTHER -> 3

(* A webhook is delivered once and in order, unless the stimuli say otherwise:
   a repeated one comes again before the next status does. *)
Delivered(t, e) ==
  /\ e \in inbox[t]
  /\ "reorder" \in Stimuli \/ \A d \in inbox[t] : Rank(e) <= Rank(d)
  /\ \/ inbox' = [inbox EXCEPT ![t] = @ \ {e}]
     \/ "duplicate" \in Stimuli /\ UNCHANGED inbox

(* A webhook names the transfer by the provider's id, or by the externalTxId:
   custody puts one on the transactions it creates, the body of a payout is
   written by the Workflow. *)
Found(t) ==
  /\ Exists(t)
  /\ known[t] \/ kind[t] \in SentKinds \/ "external_id" \in Stimuli

WebhookBegin(s, t, e) ==
  /\ Found(t)
  /\ Open(s, e, t)
  /\ Delivered(t, e)
  /\ UNCHANGED <<wallets, rows, add, broker, sent, fb, told>>

\* A record in the transactions table, and 200.
WebhookUnmatched(t, e) ==
  /\ ~Found(t)
  /\ Delivered(t, e)
  /\ UNCHANGED <<wallets, rows, sess, add, broker, sent, fb, told>>

\* Slip: the provider's word is stored as it comes.
EventStatusRaw(e) == e

EventStatus(e) ==
  CASE e = "QUEUED"       -> "signing"
    [] e = "BROADCASTING" -> "broadcasting"
    [] e = "COMPLETED"    -> "completed"
    [] e = "FAILED"       -> "failed"

\* Slip: the money is taken as spent at BROADCASTING already.
EventBalanceEarly(e, w, amount) ==
  CASE e = "FAILED"                      -> pending' = Released(w, amount) /\ UNCHANGED balance
    [] e \in {"BROADCASTING", "COMPLETED"} -> Completed(w, amount)
    [] OTHER                             -> UNCHANGED wallets

(* What _handle_transfer_failed and _handle_transfer_completed do to the
   wallet, whatever the status of the transfer. *)
EventBalance(e, w, amount) ==
  CASE e = "FAILED"    -> pending' = Released(w, amount) /\ UNCHANGED balance
    [] e = "COMPLETED" -> Completed(w, amount)
    [] OTHER           -> UNCHANGED wallets

\* The backend is told before the commit; when that fails Fireblocks still gets
\* its 200 and does not deliver the event again.
WebhookFinish(s) ==
  /\ sess[s].op \in Events
  /\ LET t == sess[s].req
         w == sess[s].src
         e == sess[s].op
     IN  /\ TransferFree(s, t)
         /\ w # None => RowFree(s, w)
         /\ IF e \in {"COMPLETED", "FAILED"} THEN Tell(t, EventStatus(e)) ELSE UNCHANGED told
         /\ \/ /\ EventBalance(e, w, Amount[t])
               /\ status' = Written(s, t, EventStatus(e))
               /\ known' = [known EXCEPT ![t] = TRUE]
            \/ "abort" \in Stimuli /\ UNCHANGED <<wallets, status, known>>
  /\ Close(s)
  /\ UNCHANGED <<wallet, kind, older, add, broker, provider>>

-----------------------------------------------------------------------------
(* Failures *)

(* The handler of session s raises: what it has not committed is rolled back,
   its message or webhook is not delivered again. *)
Abort(s) ==
  /\ "abort" \in Stimuli
  /\ sess[s].op # "idle"
  /\ Rollback(s)
  /\ UNCHANGED <<wallets, rows, broker, provider, told>>

Requeued(s, queue, ops) == IF sess[s].op \in ops THEN queue \cup {sess[s].req} ELSE queue

(* The pod of session s dies: as Abort, but an unacknowledged message goes back
   to its queue. *)
Crash(s) ==
  /\ "crash" \in Stimuli
  /\ sess[s].op # "idle"
  /\ approvedQ' = Requeued(s, approvedQ, ApprovedOps)
  /\ rejectedQ' = Requeued(s, rejectedQ, {"rejected"})
  /\ Rollback(s)
  /\ UNCHANGED <<wallets, rows, createdQ, provider, told>>

(* Only the connection to the broker dies: the message is delivered again while
   its first callback is still running. *)
Redeliver(s) ==
  /\ "redeliver" \in Stimuli
  /\ sess[s].op \in ApprovedOps \cup {"rejected"}
  /\ approvedQ' = Requeued(s, approvedQ, ApprovedOps)
  /\ rejectedQ' = Requeued(s, rejectedQ, {"rejected"})
  /\ UNCHANGED <<wallets, rows, sess, add, createdQ, provider, told>>

-----------------------------------------------------------------------------
(* What an open session does next, one disjunct per step of a handler. *)
Step(s) ==
  \/ PublishCreated(s)
  \/ CreateCommit(s)
  \/ ApproveTransfer(s)
  \/ RejectTransfer(s)
  \/ CancelTransfer(s)
  \/ UpdateTransferSigning(s)
  \/ CompleteTransfer(s)
  \/ RejectedFinish(s)
  \/ ApprovedSign(s)
  \/ ExecuteTx(s)
  \/ ExecuteRefused(s)
  \/ ExecuteReplyLost(s)
  \/ ApprovedDone(s)
  \/ ApprovedFailed(s)
  \/ \E t \in Transfers : QueueReserve(s, t) \/ LeftWaiting(s, t) \/ SyncReserve(s, t)
  \/ QueueCommit(s)
  \/ SyncWrite(s)
  \/ SyncSelect(s)
  \/ SyncPublish(s)
  \/ SyncEnd(s)
  \/ WebhookFinish(s)

\* What opens a session.
Request(s) ==
  \/ \E t \in Transfers : CreateReserved(s, t) \/ CreateQueued(s, t)
  \/ \E t \in Transfers, k \in SentKinds, w \in Wallets : CreateSend(s, t, k, w)
  \/ \E t \in Transfers, o \in Endpoints : Call(s, o, t)
  \/ \E t \in Transfers : RejectedBegin(s, t) \/ ApprovedBegin(s, t)
  \/ BeginQueue(s)
  \/ SyncRead(s)
  \/ \E t \in Transfers, e \in Events : WebhookBegin(s, t, e)

Failure(s) == Abort(s) \/ Crash(s) \/ Redeliver(s)

\* The parties around the service, and single-statement requests.
Outside ==
  \/ \E t \in Transfers : WorkflowDecides(t) \/ ApprovedDropped(t)
  \/ \E t \in Transfers, e \in Events : ProviderReports(t, e) \/ WebhookUnmatched(t, e)
  \/ \E w \in Wallets : ResetWalletPending(w)

Next ==
  \/ \E s \in Sessions : Step(s) \/ Request(s) \/ Failure(s)
  \/ Outside

Spec == Init /\ [][Next]_vars

(* An open session goes on: its statements return, and PostgreSQL serves those
   that wait for a row in turn.  The sync task starts round after round in a
   session of its own, so the requests a pod serves do not hold it up. *)
Fairness ==
  /\ \A s \in Sessions : WF_vars(Step(s))
  /\ SF_vars(\E s \in Workers : SyncRead(s))

FairSpec == Spec /\ Fairness

(* The others do their part too: the Workflow answers, RabbitMQ and Fireblocks
   deliver, and Fireblocks decides every transaction. *)
Partners(t) ==
  /\ WF_vars(WorkflowDecides(t)) /\ WF_vars(ApprovedDropped(t))
  /\ SF_vars(\E s \in Sessions : ApprovedBegin(s, t))
  /\ SF_vars(\E s \in Sessions : RejectedBegin(s, t))
  /\ WF_vars(\E e \in Events : ProviderReports(t, e))
  /\ SF_vars(\E e \in Events : \E s \in Sessions : WebhookBegin(s, t, e))

ServedSpec == FairSpec /\ \A t \in Transfers : Partners(t)

Ledger == INSTANCE WalletLedger WITH Amounts <- {Amount[t] : t \in Transfers}
=============================================================================
