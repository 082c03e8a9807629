--------------------------- MODULE PayoutsProofs ---------------------------
(***************************************************************************)
(* Theorems about Payouts, for every number of transfers, wallets and      *)
(* sessions, every amount, and every set of stimuli.                       *)
(***************************************************************************)
EXTENDS PayoutsProperties, TLAPS

-----------------------------------------------------------------------------
(* The shape of a session record, after each way a handler changes it. *)

LEMMA TotalsAreNumbers == \A x \in Totals : x \in Int /\ x \in Nat /\ x >= 0
  BY NumbersAssumption

LEMMA AmountsArePositive == \A t \in Transfers : Amount[t] \in Nat /\ Amount[t] > 0
  BY NumbersAssumption

LEMMA IdleIsSession == IdleSession \in Session /\ IdleSession.op = "idle"
  BY DEF IdleSession, Session, Ops, RowStatus

LEMMA SessionReplaced ==
  ASSUME SessionsOK, NEW s \in Sessions, NEW r \in Session,
         r.op \notin Nameless => r.req # None,
         sess' = [sess EXCEPT ![s] = r],
         add' \in [Sessions -> [Wallets -> Nat]]
  PROVE  SessionsOK'
<1>1. sess' \in [Sessions -> Session]
  BY DEF SessionsOK
<1>2. ASSUME NEW z \in Sessions, sess'[z].op \notin Nameless
      PROVE  sess'[z].req # None
  BY <1>2 DEF SessionsOK
<1> QED
  BY <1>1, <1>2 DEF SessionsOK

LEMMA Closed ==
  ASSUME SessionsOK, NEW s \in Sessions, Close(s), add' = add
  PROVE  SessionsOK'
<1> QED
  BY IdleIsSession, SessionReplaced DEF Close, Nameless, SessionsOK

LEMMA RolledBack ==
  ASSUME SessionsOK, NEW s \in Sessions, Rollback(s)
  PROVE  SessionsOK'
<1>1. add' \in [Sessions -> [Wallets -> Nat]]
  BY DEF Rollback, NoAdd, SessionsOK
<1> QED
  BY <1>1, IdleIsSession, SessionReplaced DEF Rollback, Close, Nameless

LEMMA Opened ==
  ASSUME SessionsOK, RowsOK, NEW s \in Sessions, NEW t \in Transfers, NEW o \in Ops,
         Open(s, o, t), add' = add
  PROVE  SessionsOK'
<1> DEFINE r == [IdleSession EXCEPT !.op = o, !.req = t,
                                    !.seen = status[t], !.src = wallet[t]]
<1>1. r \in Session
  BY IdleIsSession DEF Session, RowsOK
<1>2. r.op \notin Nameless => r.req # None
  BY NoneAssumption, IdleIsSession DEF Session
<1> QED
  BY <1>1, <1>2, SessionReplaced DEF Open, SessionsOK

LEMMA Advanced ==
  ASSUME SessionsOK, NEW s \in Sessions, NEW o \in Ops,
         sess[s].op \notin Nameless, Advance(s, o), add' = add
  PROVE  SessionsOK'
<1> DEFINE r == [sess[s] EXCEPT !.op = o]
<1>1. r \in Session /\ r.req = sess[s].req
  BY DEF Session, SessionsOK
<1>2. sess' = [sess EXCEPT ![s] = r]
  BY DEF Advance
<1> QED
  BY <1>1, <1>2, SessionReplaced DEF SessionsOK

LEMMA Working ==
  ASSUME SessionsOK, NEW s \in Sessions, sess[s].op \notin Nameless
  PROVE  /\ sess[s].req \in Transfers
         /\ sess[s].src \in Wallets \cup {None}
         /\ sess[s].seen \in RowStatus
  BY DEF SessionsOK, Session

-----------------------------------------------------------------------------
(* Types *)

LEMMA InitTyped == Init => TypeOK
<1>1. Init => RowsOK
  BY DEF Init, RowsOK, RowStatus, Kinds
<1>2. Init => SessionsOK
  BY IdleIsSession DEF Init, SessionsOK, Nameless, NoAdd
<1>3. Init => OutsideOK
  BY DEF Init, OutsideOK
<1>4. Init => balance \in [Wallets -> Int] /\ pending \in [Wallets -> Int]
  BY TotalsAreNumbers DEF Init
<1> QED
  BY <1>1, <1>2, <1>3, <1>4 DEF TypeOK

LEMMA ReleasedTyped ==
  ASSUME pending \in [Wallets -> Int], NEW w \in Wallets \cup {None}, NEW a \in Nat
  PROVE  Released(w, a) \in [Wallets -> Int]
  BY DEF Released

LEMMA CompletedTyped ==
  ASSUME balance \in [Wallets -> Int], pending \in [Wallets -> Int],
         NEW w \in Wallets \cup {None}, NEW a \in Nat, Completed(w, a)
  PROVE  balance' \in [Wallets -> Int] /\ pending' \in [Wallets -> Int]
  BY DEF Completed, wallets

LEMMA WrittenTyped ==
  ASSUME status \in [Transfers -> RowStatus], NEW s \in Sessions, NEW t \in Transfers,
         NEW new \in RowStatus
  PROVE  Written(s, t, new) \in [Transfers -> RowStatus]
  BY DEF Written

LEMMA NewRowTyped ==
  ASSUME RowsOK, NEW t \in Transfers, NEW k \in Kinds, NEW st \in RowStatus,
         NEW w \in Wallets \cup {None}, NewRow(t, k, st, w),
         known' \in [Transfers -> BOOLEAN]
  PROVE  RowsOK'
  BY DEF RowsOK, NewRow

LEMMA AcceptTyped ==
  ASSUME OutsideOK, NEW t \in Transfers, Accept(t), UNCHANGED <<broker, told>>
  PROVE  OutsideOK'
  BY DEF OutsideOK, Accept, broker

LEMMA PublishTyped ==
  ASSUME OutsideOK, NEW t \in Transfers, Publish(t),
         UNCHANGED <<approvedQ, rejectedQ, provider, told>>
  PROVE  OutsideOK'
  BY DEF OutsideOK, Publish, provider

LEMMA TellTyped ==
  ASSUME OutsideOK, NEW t \in Transfers, NEW what \in Final, Tell(t, what),
         UNCHANGED <<broker, provider>>
  PROVE  OutsideOK'
  BY DEF OutsideOK, Tell, provider, broker

LEMMA OutsideUnchanged ==
  ASSUME OutsideOK, UNCHANGED <<broker, provider, told>>
  PROVE  OutsideOK'
  BY DEF OutsideOK, provider, broker

LEMMA RowsUnchanged == ASSUME RowsOK, UNCHANGED rows PROVE RowsOK'
  BY DEF RowsOK, rows

LEMMA FoundStatuses ==
  /\ Statuses \cup {SUBMITTED, "absent"} = RowStatus
  /\ \A e \in Events : EventStatus(e) \in RowStatus
  /\ {"pending_approval", "pending_balance", "pending", "signing", "broadcasting",
      "completed", "rejected", "failed", "cancelled"} \subseteq RowStatus
  BY DEF RowStatus, Statuses, Events, EventStatus

LEMMA RequestTyped ==
  ASSUME TypeOK, NEW s \in Sessions, Request(s)
  PROVE  TypeOK'
<1> USE DEF TypeOK, wallets
<1>1. ASSUME NEW t \in Transfers, CreateReserved(s, t) PROVE TypeOK'
  <2>1. PICK w \in Wallets : /\ pending' = [pending EXCEPT ![w] = @ + Amount[t]]
                             /\ NewRow(t, "payout", "pending_approval", w)
    BY <1>1, SetsAssumption DEF CreateReserved, Candidates, Best, Fitting
  <2>2. RowsOK'
    BY <1>1, <2>1, NewRowTyped, FoundStatuses DEF CreateReserved, Kinds, RowsOK
  <2>3. pending' \in [Wallets -> Int] /\ balance' \in [Wallets -> Int]
    BY <1>1, <2>1, AmountsArePositive DEF CreateReserved
  <2>4. SessionsOK'
    <3> DEFINE r == [sess[s] EXCEPT !.op = "publish", !.req = t]
    <3>1. r \in Session /\ r.req # None
      BY NoneAssumption DEF Session, SessionsOK, Ops
    <3>2. sess' = [sess EXCEPT ![s] = r] /\ add' = add
      BY <1>1 DEF CreateReserved, SessionsOK
    <3> QED
      BY <3>1, <3>2, SessionReplaced DEF SessionsOK
  <2>5. OutsideOK'
    BY <1>1, OutsideUnchanged DEF CreateReserved
  <2> QED
    BY <2>2, <2>3, <2>4, <2>5
<1>2. ASSUME NEW t \in Transfers, CreateQueued(s, t) PROVE TypeOK'
  <2>1. RowsOK'
    BY <1>2, NewRowTyped, FoundStatuses DEF CreateQueued, Kinds, RowsOK
  <2>2. SessionsOK' /\ OutsideOK'
    BY <1>2, OutsideUnchanged DEF CreateQueued, SessionsOK
  <2> QED
    BY <1>2, <2>1, <2>2 DEF CreateQueued
<1>3. ASSUME NEW t \in Transfers, NEW k \in SentKinds, NEW w \in Wallets,
             CreateSend(s, t, k, w)
      PROVE  TypeOK'
  <2>1. SessionsOK'
    <3> DEFINE r == [sess[s] EXCEPT !.op = k, !.req = t, !.src = w]
    <3>1. r \in Session /\ r.req # None
      BY NoneAssumption DEF Session, SessionsOK, Ops
    <3>2. sess' = [sess EXCEPT ![s] = r]
      BY <1>3 DEF CreateSend, SessionsOK
    <3>3. add' \in [Sessions -> [Wallets -> Nat]]
      BY <1>3, AmountsArePositive DEF CreateSend, SessionsOK
    <3> QED
      BY <3>1, <3>2, <3>3, SessionReplaced
  <2>2. RowsOK' /\ OutsideOK'
    BY <1>3, RowsUnchanged, AcceptTyped DEF CreateSend
  <2> QED
    BY <1>3, <2>1, <2>2 DEF CreateSend
<1>4. ASSUME NEW t \in Transfers, NEW o \in Endpoints, Call(s, o, t) PROVE TypeOK'
  <2>1. SessionsOK'
    BY <1>4, Opened DEF Call, Ops
  <2> QED
    BY <1>4, <2>1, RowsUnchanged, OutsideUnchanged DEF Call
<1>5. ASSUME NEW t \in Transfers, RejectedBegin(s, t) \/ ApprovedBegin(s, t)
      PROVE  TypeOK'
  <2>1. SessionsOK'
    BY <1>5, Opened DEF RejectedBegin, ApprovedBegin, Consume, Ops, ApprovedOps
  <2>2. OutsideOK'
    BY <1>5 DEF RejectedBegin, ApprovedBegin, OutsideOK, provider
  <2> QED
    BY <1>5, <2>1, <2>2, RowsUnchanged DEF RejectedBegin, ApprovedBegin
<1>6. ASSUME BeginQueue(s) \/ SyncRead(s) PROVE TypeOK'
  <2>1. SessionsOK'
    <3>1. CASE BeginQueue(s)
      <4> DEFINE r == [sess[s] EXCEPT !.op = "queue", !.todo = Oldest(QueueLimit)]
      <4>1. r \in Session
        BY DEF Session, SessionsOK, Ops, Oldest, Waiting
      <4> QED
        BY <3>1, <4>1, SessionReplaced DEF BeginQueue, SessionsOK, Nameless
    <3>2. CASE SyncRead(s)
      <4> DEFINE r == [sess[s] EXCEPT !.op = "sync_read", !.bal = balance]
      <4>1. r \in Session
        BY DEF Session, SessionsOK, Ops, SyncOps
      <4> QED
        BY <3>2, <4>1, SessionReplaced DEF SyncRead, SessionsOK, Nameless
    <3> QED
      BY <1>6, <3>1, <3>2
  <2> QED
    BY <1>6, <2>1, RowsUnchanged, OutsideUnchanged DEF BeginQueue, SyncRead
<1>7. ASSUME NEW t \in Transfers, NEW e \in Events, WebhookBegin(s, t, e) PROVE TypeOK'
  <2>1. SessionsOK'
    BY <1>7, Opened DEF WebhookBegin, Ops
  <2>2. OutsideOK'
    BY <1>7 DEF WebhookBegin, Delivered, OutsideOK, broker
  <2> QED
    BY <1>7, <2>1, <2>2, RowsUnchanged DEF WebhookBegin
<1> QED
  BY <1>1, <1>2, <1>3, <1>4, <1>5, <1>6, <1>7 DEF Request

(* The endpoints that act on one transfer. *)
LEMMA EndpointTyped ==
  ASSUME TypeOK, NEW s \in Sessions,
         \/ ApproveTransfer(s) \/ RejectTransfer(s) \/ CancelTransfer(s)
         \/ UpdateTransferSigning(s) \/ CompleteTransfer(s)
  PROVE  TypeOK'
<1> USE DEF TypeOK, wallets
<1>0. /\ sess[s].req \in Transfers /\ sess[s].src \in Wallets \cup {None}
      /\ Amount[sess[s].req] \in Nat
  <2>1. sess[s].op \notin Nameless
    BY DEF ApproveTransfer, RejectTransfer, CancelTransfer, UpdateTransferSigning,
           CompleteTransfer, Nameless
  <2> QED
    BY <2>1, Working, AmountsArePositive
<1>s. SessionsOK'
  BY Closed DEF ApproveTransfer, RejectTransfer, CancelTransfer, UpdateTransferSigning,
                CompleteTransfer
<1>1. CASE ApproveTransfer(s)
  <2>1. OutsideOK' /\ balance' = balance
    BY <1>1, OutsideUnchanged DEF ApproveTransfer
  <2>2. CASE UNCHANGED <<pending, status, wallet>>
    BY <1>1, <2>1, <2>2, <1>s DEF ApproveTransfer, RowsOK
  <2>3. CASE \E w \in Candidates(s, Amount[sess[s].req]) :
               /\ pending' = [pending EXCEPT ![w] = @ + Amount[sess[s].req]]
               /\ status' = [status EXCEPT ![sess[s].req] = "pending"]
               /\ wallet' = [wallet EXCEPT ![sess[s].req] = w]
    <3>1. PICK w \in Wallets :
               /\ pending' = [pending EXCEPT ![w] = @ + Amount[sess[s].req]]
               /\ status' = [status EXCEPT ![sess[s].req] = "pending"]
               /\ wallet' = [wallet EXCEPT ![sess[s].req] = w]
      BY <2>3, SetsAssumption DEF Candidates, Best, Fitting
    <3>2. RowsOK'
      BY <1>1, <3>1, FoundStatuses DEF ApproveTransfer, RowsOK
    <3>3. pending' \in [Wallets -> Int]
      BY <3>1, <1>0
    <3> QED
      BY <3>2, <3>3, <2>1, <1>s
  <2>4. CASE /\ status' = [status EXCEPT ![sess[s].req] = "pending_balance"]
             /\ UNCHANGED <<pending, wallet>>
    BY <1>1, <2>1, <2>4, <1>s, FoundStatuses DEF ApproveTransfer, RowsOK
  <2> QED
    BY <1>1, <2>2, <2>3, <2>4 DEF ApproveTransfer
<1>2. CASE RejectTransfer(s) \/ CancelTransfer(s)
  <2>1. pending' \in [Wallets -> Int]
    BY <1>0, <1>2, ReleasedTyped DEF RejectTransfer, CancelTransfer, ReleaseIfHeld
  <2>2. status' \in [Transfers -> RowStatus]
    BY <1>0, <1>2, WrittenTyped, FoundStatuses DEF RejectTransfer, CancelTransfer, RowsOK
  <2>3. OutsideOK'
    <3>1. CASE RejectTransfer(s)
      BY <3>1, OutsideUnchanged DEF RejectTransfer
    <3>2. CASE CancelTransfer(s)
      BY <1>0, <3>2, TellTyped DEF CancelTransfer, Final
    <3> QED
      BY <1>2, <3>1, <3>2
  <2> QED
    BY <1>2, <2>1, <2>2, <2>3, <1>s DEF RejectTransfer, CancelTransfer, RowsOK
<1>3. CASE UpdateTransferSigning(s)
  <2>1. status' \in [Transfers -> RowStatus]
    BY <1>0, <1>3, WrittenTyped, FoundStatuses DEF UpdateTransferSigning, RowsOK
  <2> QED
    BY <1>3, <2>1, <1>s, OutsideUnchanged DEF UpdateTransferSigning, RowsOK
<1>4. CASE CompleteTransfer(s)
  <2>1. status' \in [Transfers -> RowStatus]
    BY <1>0, <1>4, WrittenTyped, FoundStatuses DEF CompleteTransfer, RowsOK
  <2>2. balance' \in [Wallets -> Int] /\ pending' \in [Wallets -> Int]
    BY <1>0, <1>4, CompletedTyped DEF CompleteTransfer
  <2> QED
    BY <1>4, <2>1, <2>2, <1>s, OutsideUnchanged DEF CompleteTransfer, RowsOK
<1> QED
  BY <1>1, <1>2, <1>3, <1>4

(* The creation paths and the consumers. *)
LEMMA ConsumerTyped ==
  ASSUME TypeOK, NEW s \in Sessions,
         \/ PublishCreated(s) \/ CreateCommit(s) \/ RejectedFinish(s)
         \/ ApprovedSign(s) \/ ExecuteTx(s) \/ ExecuteRefused(s)
         \/ ExecuteReplyLost(s) \/ ApprovedDone(s) \/ ApprovedFailed(s)
  PROVE  TypeOK'
<1> USE DEF TypeOK, wallets
<1>n. sess[s].op \notin Nameless
  BY DEF PublishCreated, CreateCommit, RejectedFinish, ApprovedSign, ExecuteTx,
         ExecuteRefused, ExecuteReplyLost, ApprovedDone, ApprovedFailed, Nameless,
         SentKinds
<1>0. /\ sess[s].req \in Transfers /\ sess[s].src \in Wallets \cup {None}
      /\ Amount[sess[s].req] \in Nat
  BY <1>n, Working, AmountsArePositive
<1>1. CASE PublishCreated(s)
  BY <1>0, <1>1, Closed, PublishTyped, RowsUnchanged DEF PublishCreated
<1>2. CASE CreateCommit(s)
  <2>0. Rollback(s) /\ UNCHANGED <<balance, broker, provider, told>>
    BY <1>2 DEF CreateCommit
  <2>1. SessionsOK' /\ OutsideOK' /\ balance' = balance
    BY <2>0, RolledBack, OutsideUnchanged
  <2>2. CASE UNCHANGED <<pending, rows>>
    BY <2>1, <2>2, RowsUnchanged
  <2>3. CASE /\ pending' = [w \in Wallets |-> pending[w] + add[s][w]]
             /\ NewRow(sess[s].req, sess[s].op, SUBMITTED, sess[s].src)
             /\ known' = [known EXCEPT ![sess[s].req] = TRUE]
    <3>1. pending' \in [Wallets -> Int]
      BY <2>3 DEF SessionsOK
    <3>2. known' \in [Transfers -> BOOLEAN]
      BY <2>3 DEF RowsOK
    <3>3. RowsOK'
      BY <1>0, <1>2, <2>3, <3>2, NewRowTyped, FoundStatuses DEF CreateCommit, Kinds
    <3> QED
      BY <2>1, <3>1, <3>3
  <2> QED
    BY <1>2, <2>2, <2>3 DEF CreateCommit
<1>3. CASE RejectedFinish(s)
  <2>1. pending' \in [Wallets -> Int]
    BY <1>0, <1>3, ReleasedTyped DEF RejectedFinish
  <2>2. status' \in [Transfers -> RowStatus]
    BY <1>0, <1>3, WrittenTyped, FoundStatuses DEF RejectedFinish, RowsOK
  <2>3. SessionsOK' /\ OutsideOK'
    BY <1>0, <1>3, Closed, TellTyped DEF RejectedFinish, Final
  <2> QED
    BY <1>3, <2>1, <2>2, <2>3 DEF RejectedFinish, RowsOK
<1>4. CASE ApprovedSign(s)
  <2>1. SessionsOK' /\ OutsideOK'
    BY <1>n, <1>4, Advanced, OutsideUnchanged DEF ApprovedSign, Ops, ApprovedOps
  <2> QED
    BY <1>0, <1>4, <2>1, FoundStatuses DEF ApprovedSign, RowsOK
<1>5. CASE ExecuteTx(s) \/ ExecuteReplyLost(s)
  <2>1. SessionsOK' /\ OutsideOK'
    BY <1>n, <1>0, <1>5, Advanced, AcceptTyped
       DEF ExecuteTx, ExecuteReplyLost, Ops, ApprovedOps
  <2> QED
    BY <1>5, <2>1, RowsUnchanged DEF ExecuteTx, ExecuteReplyLost
<1>6. CASE ExecuteRefused(s)
  BY <1>n, <1>6, Advanced, OutsideUnchanged, RowsUnchanged
     DEF ExecuteRefused, Ops, ApprovedOps
<1>7. CASE ApprovedDone(s)
  <2>1. SessionsOK' /\ OutsideOK'
    BY <1>7, Closed, OutsideUnchanged DEF ApprovedDone
  <2> QED
    BY <1>0, <1>7, <2>1, FoundStatuses DEF ApprovedDone, RowsOK
<1>8. CASE ApprovedFailed(s)
  <2>1. SessionsOK' /\ OutsideOK'
    BY <1>0, <1>8, Closed, TellTyped DEF ApprovedFailed, Final
  <2> QED
    BY <1>0, <1>8, <2>1, FoundStatuses DEF ApprovedFailed, RowsOK
<1> QED
  BY <1>1, <1>2, <1>3, <1>4, <1>5, <1>6, <1>7, <1>8

(* The pending_balance queue and the sync task. *)
LEMMA QueueTyped ==
  ASSUME TypeOK, NEW s \in Sessions,
         \/ \E t \in Transfers : QueueReserve(s, t) \/ LeftWaiting(s, t) \/ SyncReserve(s, t)
         \/ QueueCommit(s) \/ SyncWrite(s) \/ SyncSelect(s) \/ SyncPublish(s)
         \/ SyncEnd(s)
  PROVE  TypeOK'
<1> USE DEF TypeOK, wallets
<1>1. ASSUME NEW t \in Transfers, QueueReserve(s, t) PROVE TypeOK'
  <2>1. PICK w \in Wallets :
           /\ add' = [add EXCEPT ![s][w] = @ + Amount[t]]
           /\ sess' = [sess EXCEPT ![s].todo = @ \ {t}, ![s].picked[t] = w]
    BY <1>1, SetsAssumption DEF QueueReserve, Candidates, Best, Fitting
  <2>2. SessionsOK'
    <3> DEFINE r == [sess[s] EXCEPT !.todo = @ \ {t}, !.picked[t] = w]
    <3>1. r \in Session
      BY DEF Session, SessionsOK
    <3>2. sess' = [sess EXCEPT ![s] = r]
      BY <2>1 DEF SessionsOK
    <3>3. add' \in [Sessions -> [Wallets -> Nat]]
      BY <2>1, AmountsArePositive DEF SessionsOK
    <3>4. r.op \in Nameless
      <4>1. r.op = sess[s].op
        BY DEF SessionsOK, Session
      <4>2. sess[s].op = "queue"
        BY <1>1 DEF QueueReserve
      <4> QED
        BY <4>1, <4>2 DEF Nameless
    <3> QED
      BY <3>1, <3>2, <3>3, <3>4, SessionReplaced
  <2>3. RowsOK' /\ OutsideOK'
    BY <1>1, RowsUnchanged, PublishTyped DEF QueueReserve
  <2> QED
    BY <1>1, <2>2, <2>3 DEF QueueReserve
<1>2. ASSUME NEW t \in Transfers, LeftWaiting(s, t) PROVE TypeOK'
  <2> DEFINE r == [sess[s] EXCEPT !.todo = @ \ {t}]
  <2>1. r \in Session /\ r.op \in Nameless
    BY <1>2 DEF Session, SessionsOK, LeftWaiting, Nameless
  <2>2. SessionsOK'
    BY <1>2, <2>1, SessionReplaced DEF LeftWaiting, SessionsOK
  <2> QED
    BY <1>2, <2>2, RowsUnchanged, OutsideUnchanged DEF LeftWaiting
<1>3. ASSUME NEW t \in Transfers, SyncReserve(s, t) PROVE TypeOK'
  <2>1. PICK w \in Wallets : /\ pending' = [pending EXCEPT ![w] = @ + Amount[t]]
                             /\ wallet' = [wallet EXCEPT ![t] = w]
    BY <1>3, SetsAssumption DEF SyncReserve, Candidates, Best, Fitting
  <2>2. SessionsOK'
    <3> DEFINE r == [sess[s] EXCEPT !.op = "sync_publish", !.req = t, !.todo = @ \ {t}]
    <3>1. r \in Session /\ r.req # None
      BY NoneAssumption DEF Session, SessionsOK, Ops, SyncOps
    <3>2. sess' = [sess EXCEPT ![s] = r] /\ add' = add
      BY <1>3 DEF SyncReserve, SessionsOK
    <3> QED
      BY <3>1, <3>2, SessionReplaced DEF SessionsOK
  <2>3. RowsOK'
    BY <1>3, <2>1, FoundStatuses DEF SyncReserve, RowsOK
  <2>4. pending' \in [Wallets -> Int]
    BY <2>1, AmountsArePositive
  <2> QED
    BY <1>3, <2>2, <2>3, <2>4, OutsideUnchanged DEF SyncReserve
<1>4. CASE QueueCommit(s)
  <2>1. pending' \in [Wallets -> Int]
    BY <1>4 DEF QueueCommit, SessionsOK
  <2>2. sess[s].picked \in [Transfers -> Wallets \cup {None}]
    BY DEF SessionsOK, Session
  <2>3. RowsOK'
    BY <1>4, <2>2, FoundStatuses DEF QueueCommit, RowsOK
  <2>4. SessionsOK' /\ OutsideOK'
    BY <1>4, RolledBack, OutsideUnchanged DEF QueueCommit
  <2> QED
    BY <1>4, <2>1, <2>3, <2>4 DEF QueueCommit
<1>5. CASE SyncWrite(s)
  <2>1. balance' \in [Wallets -> Int]
    <3>1. PICK reported \in [Wallets -> Totals \cup {None}] :
            balance' = [w \in Wallets |-> IF w \in {v \in Wallets : reported[v] \notin {None, sess[s].bal[v]}}
                                            THEN reported[w] ELSE balance[w]]
      BY <1>5 DEF SyncWrite
    <3> QED
      BY <3>1, TotalsAreNumbers
  <2>2. SessionsOK'
    <3> DEFINE r == [IdleSession EXCEPT !.op = "sync_select"]
    <3>1. r \in Session /\ r.op \in Nameless
      BY IdleIsSession DEF Session, Ops, SyncOps, Nameless
    <3> QED
      BY <1>5, <3>1, SessionReplaced DEF SyncWrite, SessionsOK
  <2> QED
    BY <1>5, <2>1, <2>2, RowsUnchanged, OutsideUnchanged DEF SyncWrite
<1>6. CASE SyncSelect(s)
  <2> DEFINE r == [sess[s] EXCEPT !.op = "sync_queue", !.todo = Oldest(SyncLimit)]
  <2>1. r \in Session /\ r.op \in Nameless
    BY DEF Session, SessionsOK, Ops, SyncOps, Nameless, Oldest, Waiting
  <2>2. SessionsOK'
    BY <1>6, <2>1, SessionReplaced DEF SyncSelect, SessionsOK
  <2> QED
    BY <1>6, <2>2, RowsUnchanged, OutsideUnchanged DEF SyncSelect
<1>7. CASE SyncPublish(s)
  <2>0. sess[s].req \in Transfers
    BY <1>7, Working DEF SyncPublish, Nameless
  <2> DEFINE r == [sess[s] EXCEPT !.op = "sync_queue", !.req = None]
  <2>1. r \in Session /\ r.op \in Nameless
    BY DEF Session, SessionsOK, Ops, SyncOps, Nameless
  <2>2. SessionsOK'
    BY <1>7, <2>1, SessionReplaced DEF SyncPublish, SessionsOK
  <2> QED
    BY <1>7, <2>0, <2>2, RowsUnchanged, PublishTyped DEF SyncPublish
<1>8. CASE SyncEnd(s)
  BY <1>8, Closed, RowsUnchanged, OutsideUnchanged DEF SyncEnd
<1> QED
  BY <1>1, <1>2, <1>3, <1>4, <1>5, <1>6, <1>7, <1>8

(* The webhooks of Fireblocks. *)
LEMMA WebhookTyped ==
  ASSUME TypeOK, NEW s \in Sessions, WebhookFinish(s)
  PROVE  TypeOK'
<1> USE DEF TypeOK, wallets
<1> DEFINE t == sess[s].req
           w == sess[s].src
           e == sess[s].op
<1>1. t \in Transfers /\ w \in Wallets \cup {None} /\ Amount[t] \in Nat /\ e \in Events
  BY Working, AmountsArePositive DEF WebhookFinish, Events, Nameless
<1>2. SessionsOK'
  BY Closed DEF WebhookFinish
<1>3. OutsideOK'
  <2>1. CASE e \in {"COMPLETED", "FAILED"}
    <3>1. Tell(t, EventStatus(e)) /\ UNCHANGED <<broker, provider>>
      BY <2>1 DEF WebhookFinish
    <3>2. EventStatus(e) \in Final
      BY <2>1 DEF EventStatus, Final
    <3> QED
      BY <1>1, <3>1, <3>2, TellTyped
  <2>2. CASE e \notin {"COMPLETED", "FAILED"}
    BY <2>2, OutsideUnchanged DEF WebhookFinish
  <2> QED
    BY <2>1, <2>2
<1>4. CASE UNCHANGED <<wallets, status, known>>
  BY <1>2, <1>3, <1>4 DEF WebhookFinish, RowsOK
<1>5. CASE /\ EventBalance(e, w, Amount[t])
           /\ status' = Written(s, t, EventStatus(e))
           /\ known' = [known EXCEPT ![t] = TRUE]
  <2>1. balance' \in [Wallets -> Int] /\ pending' \in [Wallets -> Int]
    BY <1>1, <1>5, ReleasedTyped, CompletedTyped DEF EventBalance, Events
  <2>2. status' \in [Transfers -> RowStatus]
    BY <1>1, <1>5, WrittenTyped, FoundStatuses DEF RowsOK
  <2>3. RowsOK'
    BY <1>1, <1>5, <2>2 DEF WebhookFinish, RowsOK
  <2> QED
    BY <1>2, <1>3, <2>1, <2>3
<1> QED
  BY <1>4, <1>5 DEF WebhookFinish

LEMMA StepTyped ==
  ASSUME TypeOK, NEW s \in Sessions, Step(s)
  PROVE  TypeOK'
  BY EndpointTyped, ConsumerTyped, QueueTyped, WebhookTyped DEF Step

LEMMA FailureTyped ==
  ASSUME TypeOK, NEW s \in Sessions, Failure(s)
  PROVE  TypeOK'
<1> USE DEF TypeOK, wallets
<1>1. CASE Abort(s)
  BY <1>1, RolledBack, RowsUnchanged, OutsideUnchanged DEF Abort
<1>2. CASE Crash(s) \/ Redeliver(s)
  <2>1. sess[s].op \in ApprovedOps \cup {"rejected"} => sess[s].req \in Transfers
    BY Working DEF ApprovedOps, Nameless
  <2>2. OutsideOK'
    BY <1>2, <2>1 DEF Crash, Redeliver, Requeued, OutsideOK, provider
  <2>3. SessionsOK'
    BY <1>2, RolledBack DEF Crash, Redeliver, SessionsOK
  <2> QED
    BY <1>2, <2>2, <2>3, RowsUnchanged DEF Crash, Redeliver
<1> QED
  BY <1>1, <1>2 DEF Failure

LEMMA OutsideTyped ==
  ASSUME TypeOK, Outside
  PROVE  TypeOK'
<1> USE DEF TypeOK, wallets
<1>1. ASSUME NEW t \in Transfers, WorkflowDecides(t) \/ ApprovedDropped(t)
      PROVE  TypeOK'
  <2>1. OutsideOK'
    BY <1>1 DEF WorkflowDecides, ApprovedDropped, OutsideOK, provider
  <2> QED
    BY <1>1, <2>1, RowsUnchanged DEF WorkflowDecides, ApprovedDropped, SessionsOK
<1>2. ASSUME NEW t \in Transfers, NEW e \in Events,
             ProviderReports(t, e) \/ WebhookUnmatched(t, e)
      PROVE  TypeOK'
  <2>1. OutsideOK'
    BY <1>2 DEF ProviderReports, WebhookUnmatched, Delivered, OutsideOK, broker
  <2> QED
    BY <1>2, <2>1, RowsUnchanged DEF ProviderReports, WebhookUnmatched, SessionsOK
<1>3. ASSUME NEW w \in Wallets, ResetWalletPending(w) PROVE TypeOK'
  BY <1>3, RowsUnchanged, OutsideUnchanged DEF ResetWalletPending, SessionsOK
<1> QED
  BY <1>1, <1>2, <1>3 DEF Outside

LEMMA StutterTyped == ASSUME TypeOK, UNCHANGED vars PROVE TypeOK'
  BY RowsUnchanged, OutsideUnchanged DEF TypeOK, vars, wallets, SessionsOK

(* Every state the service can reach has the types of its models: no handler
   stores a status, a wallet or an amount of another kind, whatever the
   interleaving (models/wallet.py, models/transfer.py, enums/status.py). *)
THEOREM TypeCorrect == Spec => []TypeOK
<1>1. TypeOK /\ [Next]_vars => TypeOK'
  BY StepTyped, RequestTyped, FailureTyped, OutsideTyped, StutterTyped DEF Next
<1> QED
  BY <1>1, InitTyped, PTL DEF Spec

-----------------------------------------------------------------------------
(* The wallets table.  TypeOK, NonNegative and UncommittedCovered are inductive
   together: a granted reservation stays covered because the row is locked until
   its commit, and with covered reservations every commit is a step of
   WalletLedger.  The lemmas of this section are the ways a handler can change
   the columns and the uncommitted reservations. *)

LedgerInv == TypeOK /\ NonNegative /\ UncommittedCovered

LedgerStep == [Ledger!Next]_(Ledger!ledger)

Safe == NonNegative' /\ HeldCovered' /\ LedgerStep

LEMMA Untouched ==
  ASSUME NonNegative, HeldCovered, UNCHANGED <<balance, pending, add>>
  PROVE  Safe
  BY DEF Safe, NonNegative, HeldCovered, LedgerStep, Ledger!ledger

LEMMA Granted ==
  ASSUME LedgerInv, NEW s \in Sessions, NEW w \in Wallets, NEW a \in Nat, a > 0,
         Grants(s, w, a), RowFree(s, w),
         pending' = [pending EXCEPT ![w] = @ + a], UNCHANGED <<balance, add>>
  PROVE  Safe
<1> USE DEF LedgerInv, TypeOK, NonNegative
<1>0. add \in [Sessions -> [Wallets -> Nat]]
  BY DEF SessionsOK
<1>1. pending[w] + a + add[s][w] <= balance[w]
  BY <1>0 DEF Grants, Available
<1>2. HeldCovered'
  BY <1>0, <1>1 DEF UncommittedCovered, HeldCovered, RowFree
<1>3. Ledger!Reserve
  BY <1>0, <1>1 DEF Ledger!Reserve
<1> QED
  BY <1>2, <1>3 DEF Safe, LedgerStep, Ledger!Next

LEMMA Held ==
  ASSUME LedgerInv, NEW s \in Sessions, NEW w \in Wallets, NEW a \in Nat,
         NEW b \in Nat, b <= add[s][w] + a,
         Grants(s, w, a), RowFree(s, w),
         add' = [add EXCEPT ![s][w] = b], UNCHANGED <<balance, pending>>
  PROVE  Safe
<1> USE DEF LedgerInv, TypeOK, NonNegative
<1>0. add \in [Sessions -> [Wallets -> Nat]]
  BY DEF SessionsOK
<1>1. pending[w] + b <= balance[w]
  BY <1>0 DEF Grants, Available
<1>2. HeldCovered'
  BY <1>0, <1>1 DEF UncommittedCovered, HeldCovered, RowFree
<1> QED
  BY <1>2 DEF Safe, LedgerStep, Ledger!ledger

LEMMA Dropped ==
  ASSUME LedgerInv, NEW s \in Sessions, Rollback(s), UNCHANGED <<balance, pending>>
  PROVE  Safe
<1>1. HeldCovered'
  BY DEF LedgerInv, TypeOK, SessionsOK, UncommittedCovered, HeldCovered, Rollback, NoAdd
<1> QED
  BY <1>1 DEF Safe, LedgerInv, NonNegative, LedgerStep, Ledger!ledger

LEMMA Committed ==
  ASSUME LedgerInv, NEW s \in Sessions, Rollback(s), balance' = balance,
         pending' = [w \in Wallets |-> pending[w] + add[s][w]]
  PROVE  Safe
<1> USE DEF LedgerInv, TypeOK, NonNegative
<1>0. add \in [Sessions -> [Wallets -> Nat]]
  BY DEF SessionsOK
<1>1. ASSUME NEW z \in Sessions, NEW w \in Wallets, add'[z][w] > 0
      PROVE  z # s /\ add'[z][w] = add[z][w] /\ add[s][w] = 0
  BY <1>0, <1>1 DEF Rollback, NoAdd, UncommittedCovered, HeldCovered
<1>2. \A z \in Sessions, w \in Wallets : add'[z][w] = 0 \/ add'[z][w] = add[z][w]
  BY <1>0 DEF Rollback, NoAdd
<1>3. HeldCovered'
  BY <1>0, <1>1, <1>2 DEF UncommittedCovered, HeldCovered
<1>4. Ledger!Reserve
  BY <1>0 DEF Ledger!Reserve, UncommittedCovered, HeldCovered
<1> QED
  BY <1>0, <1>3, <1>4 DEF Safe, LedgerStep, Ledger!Next

LEMMA GivenBack ==
  ASSUME LedgerInv, NEW t \in Transfers, NEW w \in Wallets \cup {None},
         pending' = Released(w, Amount[t]), UNCHANGED <<balance, add>>
  PROVE  Safe
<1> USE DEF LedgerInv, TypeOK, NonNegative
<1>1. CASE w # None /\ pending[w] >= Amount[t]
  <2>1. pending' = [pending EXCEPT ![w] = @ - Amount[t]]
    BY <1>1 DEF Released, ReleaseGuard
  <2>2. NonNegative'
    BY <1>1, <2>1, AmountsArePositive
  <2>3. HeldCovered'
    BY <2>1, AmountsArePositive DEF UncommittedCovered, HeldCovered, SessionsOK
  <2>4. \E v \in Wallets, amount \in {Amount[u] : u \in Transfers} :
           Ledger!Release(v, amount)
    BY <1>1, <2>1 DEF Ledger!Release
  <2> QED
    BY <2>2, <2>3, <2>4 DEF Safe, LedgerStep, Ledger!Next
<1>2. CASE ~(w # None /\ pending[w] >= Amount[t])
  BY <1>2, Untouched DEF Released, ReleaseGuard, UncommittedCovered
<1> QED
  BY <1>1, <1>2

LEMMA Spent ==
  ASSUME LedgerInv, NEW t \in Transfers, NEW w \in Wallets \cup {None},
         Completed(w, Amount[t]), add' = add
  PROVE  Safe
<1> USE DEF LedgerInv, TypeOK, NonNegative
<1>1. CASE w # None /\ CompleteGuard(w, Amount[t])
  <2>1. /\ pending[w] >= Amount[t] /\ balance[w] >= Amount[t]
        /\ pending' = [pending EXCEPT ![w] = @ - Amount[t]]
        /\ balance' = [balance EXCEPT ![w] = @ - Amount[t]]
    BY <1>1 DEF Completed, CompleteGuard
  <2>2. NonNegative'
    BY <1>1, <2>1, AmountsArePositive
  <2>3. HeldCovered'
    BY <2>1, AmountsArePositive DEF UncommittedCovered, HeldCovered, SessionsOK
  <2>4. \E v \in Wallets, amount \in {Amount[u] : u \in Transfers} :
           Ledger!Settle(v, amount)
    BY <1>1, <2>1 DEF Ledger!Settle
  <2> QED
    BY <2>2, <2>3, <2>4 DEF Safe, LedgerStep, Ledger!Next
<1>2. CASE ~(w # None /\ CompleteGuard(w, Amount[t]))
  BY <1>2, Untouched DEF Completed, wallets, UncommittedCovered
<1> QED
  BY <1>1, <1>2

LEMMA Refreshed ==
  ASSUME LedgerInv, NEW s \in Sessions, SyncWrite(s)
  PROVE  Safe
<1> USE DEF LedgerInv, TypeOK, NonNegative
<1>1. PICK reported \in [Wallets -> Totals \cup {None}] :
        LET dirty == {w \in Wallets : reported[w] \notin {None, sess[s].bal[w]}} IN
          /\ \A w \in dirty : RowFree(s, w)
          /\ balance' = [w \in Wallets |->
                           IF w \in dirty THEN reported[w] ELSE balance[w]]
  BY DEF SyncWrite
<1>2. UNCHANGED <<pending, add>>
  BY DEF SyncWrite
<1>3. \A w \in Wallets : add[s][w] = 0
  BY DEF SyncWrite, UncommittedCovered, HeldByWriters, SentKinds, SessionsOK
<1>4. \A w \in Wallets :
        \/ balance'[w] = balance[w]
        \/ balance'[w] \in Totals /\ \A z \in Sessions : add[z][w] = 0
  BY <1>1, <1>3 DEF RowFree
<1>5. balance' \in [Wallets -> Nat]
  BY <1>1, <1>4, TotalsAreNumbers
<1>6. HeldCovered'
  BY <1>2, <1>4 DEF UncommittedCovered, HeldCovered, SessionsOK
<1>7. Ledger!Refresh
  BY <1>2, <1>4, <1>5 DEF Ledger!Refresh
<1> QED
  BY <1>2, <1>5, <1>6, <1>7 DEF Safe, LedgerStep, Ledger!Next

LEMMA Forgotten ==
  ASSUME LedgerInv, NEW w \in Wallets, ResetWalletPending(w)
  PROVE  Safe
<1>1. NonNegative' /\ HeldCovered'
  BY DEF LedgerInv, TypeOK, NonNegative, UncommittedCovered, HeldCovered,
         ResetWalletPending, SessionsOK
<1>2. Ledger!Forget(w)
  BY DEF ResetWalletPending, Ledger!Forget
<1> QED
  BY <1>1, <1>2 DEF Safe, LedgerStep, Ledger!Next

(* Who may hold an uncommitted reservation after a step of session s. *)
Writers == {"queue"} \cup SentKinds

LEMMA HoldersAfter ==
  ASSUME LedgerInv, NEW s \in Sessions,
         \A z \in Sessions \ {s} : sess'[z] = sess[z] /\ add'[z] = add[z],
         \/ add'[s] = NoAdd
         \/ sess'[s].op \in Writers
         \/ add'[s] = add[s] /\ sess[s].op \notin Writers
  PROVE  HeldByWriters'
<1>1. \A w \in Wallets : add'[s][w] > 0 => sess'[s].op \in Writers
  BY DEF LedgerInv, UncommittedCovered, HeldByWriters, Writers, NoAdd, TypeOK, SessionsOK
<1>2. \A z \in Sessions \ {s}, w \in Wallets : add'[z][w] > 0 => sess'[z].op \in Writers
  BY DEF LedgerInv, UncommittedCovered, HeldByWriters, Writers
<1> QED
  BY <1>1, <1>2 DEF HeldByWriters, Writers

LEMMA HoldersAfterClose ==
  ASSUME LedgerInv, NEW s \in Sessions,
         \/ Rollback(s)
         \/ Close(s) /\ add' = add /\ sess[s].op \notin Writers
  PROVE  HeldByWriters'
<1>1. \A z \in Sessions \ {s} : sess'[z] = sess[z] /\ add'[z] = add[z]
  BY DEF Rollback, Close, LedgerInv, TypeOK, SessionsOK
<1>2. \/ add'[s] = NoAdd
      \/ add'[s] = add[s] /\ sess[s].op \notin Writers
  BY DEF Rollback, LedgerInv, TypeOK, SessionsOK
<1> QED
  BY <1>1, <1>2, HoldersAfter

LEMMA RequestSafe ==
  ASSUME LedgerInv, NEW s \in Sessions, Request(s)
  PROVE  Safe /\ HeldByWriters'
<1> USE DEF LedgerInv
<1>0. sess[s].op = "idle" /\ sess[s].op \notin Writers
  BY DEF Request, CreateReserved, CreateQueued, CreateSend, Call, RejectedBegin,
         ApprovedBegin, Consume, BeginQueue, SyncRead, WebhookBegin, Open, Writers, SentKinds
<1>1. \A z \in Sessions \ {s} : sess'[z] = sess[z] /\ add'[z] = add[z]
  BY DEF Request, CreateReserved, CreateQueued, CreateSend, Call, RejectedBegin,
         ApprovedBegin, Consume, BeginQueue, SyncRead, WebhookBegin, Open,
         TypeOK, SessionsOK
<1>2. ASSUME NEW t \in Transfers, CreateReserved(s, t) PROVE Safe /\ add' = add
  <2>1. PICK w \in Wallets : /\ Grants(s, w, Amount[t]) /\ RowFree(s, w)
                             /\ pending' = [pending EXCEPT ![w] = @ + Amount[t]]
    BY <1>2, SetsAssumption DEF CreateReserved, Candidates, Best, Fitting
  <2>2. UNCHANGED <<balance, add>>
    BY <1>2 DEF CreateReserved
  <2> QED
    BY <2>1, <2>2, Granted, AmountsArePositive
<1>3. ASSUME NEW t \in Transfers, NEW k \in SentKinds, NEW w \in Wallets,
             CreateSend(s, t, k, w)
      PROVE  Safe /\ sess'[s].op \in Writers
  <2>1. sess'[s].op = k
    BY <1>3 DEF CreateSend, TypeOK, SessionsOK, Session
  <2>2. /\ Grants(s, w, Amount[t]) /\ RowFree(s, w)
        /\ add' = [add EXCEPT ![s][w] = Amount[t]]
        /\ UNCHANGED <<balance, pending>>
    BY <1>3 DEF CreateSend, wallets
  <2>3. Amount[t] <= add[s][w] + Amount[t]
    BY AmountsArePositive DEF TypeOK, SessionsOK
  <2> QED
    BY <2>1, <2>2, <2>3, Held, AmountsArePositive DEF Writers
<1>4. CASE UNCHANGED <<wallets, add>>
  BY <1>0, <1>1, <1>4, Untouched, HoldersAfter DEF wallets, UncommittedCovered
<1>5. \/ \E t \in Transfers : CreateReserved(s, t)
      \/ \E t \in Transfers, k \in SentKinds, w \in Wallets : CreateSend(s, t, k, w)
      \/ UNCHANGED <<wallets, add>>
  BY DEF Request, CreateQueued, Call, RejectedBegin, ApprovedBegin, BeginQueue,
         SyncRead, WebhookBegin
<1> QED
  BY <1>0, <1>1, <1>2, <1>3, <1>4, <1>5, HoldersAfter

LEMMA EndpointSafe ==
  ASSUME LedgerInv, NEW s \in Sessions,
         \/ ApproveTransfer(s) \/ RejectTransfer(s) \/ CancelTransfer(s)
         \/ UpdateTransferSigning(s) \/ CompleteTransfer(s)
  PROVE  Safe /\ HeldByWriters'
<1> USE DEF LedgerInv
<1>0. sess[s].op \notin Nameless \cup Writers
  BY DEF ApproveTransfer, RejectTransfer, CancelTransfer, UpdateTransferSigning,
         CompleteTransfer, Nameless, Writers, SentKinds
<1>1. sess[s].req \in Transfers /\ sess[s].src \in Wallets \cup {None}
  BY <1>0, Working DEF TypeOK
<1>2. Close(s) /\ add' = add
  BY DEF ApproveTransfer, RejectTransfer, CancelTransfer, UpdateTransferSigning,
         CompleteTransfer
<1>3. HeldByWriters'
  BY <1>0, <1>2, HoldersAfterClose
<1>4. CASE ApproveTransfer(s)
  <2>1. CASE pending' = pending
    BY <1>2, <1>3, <1>4, <2>1, Untouched DEF ApproveTransfer, UncommittedCovered
  <2>2. CASE \E w \in Candidates(s, Amount[sess[s].req]) :
               /\ RowFree(s, w)
               /\ pending' = [pending EXCEPT ![w] = @ + Amount[sess[s].req]]
    <3>1. PICK w \in Wallets :
               /\ Grants(s, w, Amount[sess[s].req]) /\ RowFree(s, w)
               /\ pending' = [pending EXCEPT ![w] = @ + Amount[sess[s].req]]
      BY <2>2, SetsAssumption DEF Candidates, Best, Fitting
    <3>2. balance' = balance
      BY <1>4 DEF ApproveTransfer
    <3> QED
      BY <1>1, <1>2, <1>3, <3>1, <3>2, Granted, AmountsArePositive
  <2> QED
    BY <1>4, <2>1, <2>2 DEF ApproveTransfer
<1>5. CASE RejectTransfer(s) \/ CancelTransfer(s)
  <2>1. \/ pending' = pending
        \/ pending' = Released(sess[s].src, Amount[sess[s].req])
    BY <1>5 DEF RejectTransfer, CancelTransfer, ReleaseIfHeld
  <2>2. balance' = balance
    BY <1>5 DEF RejectTransfer, CancelTransfer
  <2> QED
    BY <1>1, <1>2, <1>3, <2>1, <2>2, GivenBack, Untouched DEF UncommittedCovered
<1>6. CASE UpdateTransferSigning(s)
  BY <1>2, <1>3, <1>6, Untouched DEF UpdateTransferSigning, wallets, UncommittedCovered
<1>7. CASE CompleteTransfer(s)
  BY <1>1, <1>2, <1>3, <1>7, Spent DEF CompleteTransfer
<1> QED
  BY <1>3, <1>4, <1>5, <1>6, <1>7

LEMMA ConsumerSafe ==
  ASSUME LedgerInv, NEW s \in Sessions,
         \/ PublishCreated(s) \/ CreateCommit(s) \/ RejectedFinish(s)
         \/ ApprovedSign(s) \/ ExecuteTx(s) \/ ExecuteRefused(s)
         \/ ExecuteReplyLost(s) \/ ApprovedDone(s) \/ ApprovedFailed(s)
  PROVE  Safe /\ HeldByWriters'
<1> USE DEF LedgerInv
<1>1. CASE CreateCommit(s)
  <2>1. Rollback(s) /\ balance' = balance
    BY <1>1 DEF CreateCommit
  <2>2. \/ pending' = pending
        \/ pending' = [w \in Wallets |-> pending[w] + add[s][w]]
    BY <1>1 DEF CreateCommit
  <2> QED
    BY <2>1, <2>2, Dropped, Committed, HoldersAfterClose
<1>2. CASE RejectedFinish(s)
  <2>0. sess[s].op \notin Nameless \cup Writers
    BY <1>2 DEF RejectedFinish, Nameless, Writers, SentKinds
  <2>1. sess[s].req \in Transfers /\ sess[s].src \in Wallets \cup {None}
    BY <2>0, Working DEF TypeOK
  <2>2. /\ pending' = Released(sess[s].src, Amount[sess[s].req])
        /\ Close(s) /\ UNCHANGED <<balance, add>>
    BY <1>2 DEF RejectedFinish
  <2> QED
    BY <2>0, <2>1, <2>2, GivenBack, HoldersAfterClose
<1>3. CASE \/ PublishCreated(s) \/ ApprovedSign(s) \/ ExecuteTx(s) \/ ExecuteRefused(s)
           \/ ExecuteReplyLost(s) \/ ApprovedDone(s) \/ ApprovedFailed(s)
  <2>1. UNCHANGED <<wallets, add>>
    BY <1>3 DEF PublishCreated, ApprovedSign, ExecuteTx, ExecuteRefused,
                ExecuteReplyLost, ApprovedDone, ApprovedFailed
  <2>2. sess[s].op \notin Writers
    BY <1>3 DEF PublishCreated, ApprovedSign, ExecuteTx, ExecuteRefused,
                ExecuteReplyLost, ApprovedDone, ApprovedFailed, Writers, SentKinds
  <2>3. \A z \in Sessions \ {s} : sess'[z] = sess[z]
    BY <1>3 DEF PublishCreated, ApprovedSign, ExecuteTx, ExecuteRefused,
                ExecuteReplyLost, ApprovedDone, ApprovedFailed, Close, Advance,
                TypeOK, SessionsOK
  <2> QED
    BY <2>1, <2>2, <2>3, Untouched, HoldersAfter DEF wallets, UncommittedCovered
<1> QED
  BY <1>1, <1>2, <1>3

LEMMA QueueSafe ==
  ASSUME LedgerInv, NEW s \in Sessions,
         \/ \E t \in Transfers : QueueReserve(s, t) \/ LeftWaiting(s, t) \/ SyncReserve(s, t)
         \/ QueueCommit(s) \/ SyncWrite(s) \/ SyncSelect(s) \/ SyncPublish(s)
         \/ SyncEnd(s)
  PROVE  Safe /\ HeldByWriters'
<1> USE DEF LedgerInv
<1>1. ASSUME NEW t \in Transfers, QueueReserve(s, t) PROVE Safe /\ HeldByWriters'
  <2>1. PICK w \in Wallets : /\ Grants(s, w, Amount[t]) /\ RowFree(s, w)
                             /\ add' = [add EXCEPT ![s][w] = @ + Amount[t]]
    BY <1>1, SetsAssumption DEF QueueReserve, Candidates, Best, Fitting
  <2>2. UNCHANGED <<balance, pending>>
    BY <1>1 DEF QueueReserve, wallets
  <2>3. /\ add' = [add EXCEPT ![s][w] = add[s][w] + Amount[t]]
        /\ add[s][w] + Amount[t] \in Nat
    BY <2>1, AmountsArePositive DEF TypeOK, SessionsOK
  <2>4. Safe
    <3> DEFINE b == add[s][w] + Amount[t]
    <3>1. b \in Nat /\ b <= add[s][w] + Amount[t] /\ add' = [add EXCEPT ![s][w] = b]
      BY <2>3
    <3>2. Amount[t] \in Nat
      BY AmountsArePositive
    <3> HIDE DEF b
    <3> QED
      BY <2>1, <2>2, <3>1, <3>2, Held
  <2>5. sess'[s].op = "queue"
    <3> DEFINE r(v) == [sess[s] EXCEPT !.todo = @ \ {t}, !.picked[t] = v]
    <3>1. PICK v \in Wallets : sess' = [sess EXCEPT ![s].todo = @ \ {t}, ![s].picked[t] = v]
      BY <1>1, SetsAssumption DEF QueueReserve, Candidates, Best, Fitting
    <3>2. sess'[s] = r(v)
      BY <3>1 DEF TypeOK, SessionsOK
    <3>3. r(v).op = sess[s].op
      BY DEF TypeOK, SessionsOK, Session
    <3> QED
      BY <1>1, <3>2, <3>3 DEF QueueReserve
  <2>6. \A z \in Sessions \ {s} : sess'[z] = sess[z] /\ add'[z] = add[z]
    BY <1>1, <2>1 DEF QueueReserve, TypeOK, SessionsOK
  <2> QED
    BY <2>4, <2>5, <2>6, HoldersAfter DEF Writers
<1>2. ASSUME NEW t \in Transfers, LeftWaiting(s, t) PROVE Safe /\ HeldByWriters'
  <2>1. UNCHANGED <<wallets, add>>
    BY <1>2 DEF LeftWaiting
  <2>2. \A z \in Sessions : sess'[z].op = sess[z].op
    BY <1>2 DEF LeftWaiting, TypeOK, SessionsOK, Session
  <2> QED
    BY <2>1, <2>2, Untouched DEF wallets, UncommittedCovered, HeldByWriters
<1>3. ASSUME NEW t \in Transfers, SyncReserve(s, t) PROVE Safe /\ HeldByWriters'
  <2>1. PICK w \in Wallets : /\ Grants(s, w, Amount[t]) /\ RowFree(s, w)
                             /\ pending' = [pending EXCEPT ![w] = @ + Amount[t]]
    BY <1>3, SetsAssumption DEF SyncReserve, Candidates, Best, Fitting
  <2>2. UNCHANGED <<balance, add>> /\ sess[s].op \notin Writers
    BY <1>3 DEF SyncReserve, Writers, SentKinds
  <2>3. \A z \in Sessions \ {s} : sess'[z] = sess[z]
    BY <1>3 DEF SyncReserve, TypeOK, SessionsOK
  <2> QED
    BY <2>1, <2>2, <2>3, Granted, HoldersAfter, AmountsArePositive
<1>4. CASE QueueCommit(s)
  <2>1. /\ Rollback(s) /\ balance' = balance
        /\ pending' = [w \in Wallets |-> pending[w] + add[s][w]]
    BY <1>4 DEF QueueCommit
  <2> QED
    BY <2>1, Committed, HoldersAfterClose
<1>5. CASE SyncWrite(s) \/ SyncSelect(s) \/ SyncPublish(s) \/ SyncEnd(s)
  <2>1. add' = add /\ sess[s].op \notin Writers
    BY <1>5 DEF SyncWrite, SyncSelect, SyncPublish, SyncEnd, Writers, SentKinds
  <2>2. \A z \in Sessions \ {s} : sess'[z] = sess[z]
    BY <1>5 DEF SyncWrite, SyncSelect, SyncPublish, SyncEnd, Close, TypeOK, SessionsOK
  <2>3. HeldByWriters'
    BY <2>1, <2>2, HoldersAfter
  <2>4. SyncWrite(s) \/ UNCHANGED <<balance, pending>>
    BY <1>5 DEF SyncSelect, SyncPublish, SyncEnd, wallets
  <2> QED
    BY <2>1, <2>3, <2>4, Refreshed, Untouched DEF UncommittedCovered
<1> QED
  BY <1>1, <1>2, <1>3, <1>4, <1>5

LEMMA WebhookSafe ==
  ASSUME LedgerInv, NEW s \in Sessions, WebhookFinish(s)
  PROVE  Safe /\ HeldByWriters'
<1> USE DEF LedgerInv
<1> DEFINE t == sess[s].req
           w == sess[s].src
           e == sess[s].op
<1>0. e \notin Nameless \cup Writers
  BY DEF WebhookFinish, Events, Nameless, Writers, SentKinds
<1>1. t \in Transfers /\ w \in Wallets \cup {None}
  BY <1>0, Working DEF TypeOK
<1>2. Close(s) /\ add' = add
  BY DEF WebhookFinish
<1>3. EventBalance(e, w, Amount[t]) \/ UNCHANGED wallets
  BY DEF WebhookFinish
<1>4. \/ pending' = Released(w, Amount[t]) /\ balance' = balance
      \/ Completed(w, Amount[t])
      \/ UNCHANGED <<balance, pending>>
  BY <1>3 DEF EventBalance, wallets, WebhookFinish, Events
<1>5. Safe
  BY <1>1, <1>2, <1>4, GivenBack, Spent, Untouched DEF UncommittedCovered
<1> QED
  BY <1>0, <1>2, <1>5, HoldersAfterClose

LEMMA ElseSafe ==
  ASSUME LedgerInv, Outside \/ \E s \in Sessions : Failure(s)
  PROVE  Safe /\ HeldByWriters'
<1> USE DEF LedgerInv
<1>1. ASSUME NEW s \in Sessions, Abort(s) \/ Crash(s) PROVE Safe /\ HeldByWriters'
  <2>1. Rollback(s) /\ UNCHANGED <<balance, pending>>
    BY <1>1 DEF Abort, Crash, wallets
  <2> QED
    BY <2>1, Dropped, HoldersAfterClose
<1>2. ASSUME NEW w \in Wallets, ResetWalletPending(w) PROVE Safe /\ HeldByWriters'
  <2>1. UNCHANGED <<sess, add>>
    BY <1>2 DEF ResetWalletPending
  <2> QED
    BY <1>2, <2>1, Forgotten DEF UncommittedCovered, HeldByWriters
<1>3. CASE UNCHANGED <<wallets, sess, add>>
  BY <1>3, Untouched DEF wallets, UncommittedCovered, HeldByWriters
<1>4. \/ \E s \in Sessions : Abort(s) \/ Crash(s)
      \/ \E w \in Wallets : ResetWalletPending(w)
      \/ UNCHANGED <<wallets, sess, add>>
  BY DEF Outside, Failure, Redeliver, WorkflowDecides, ApprovedDropped,
         ProviderReports, WebhookUnmatched
<1> QED
  BY <1>1, <1>2, <1>3, <1>4

(* The strengthening is inductive, and every step is one of WalletLedger's. *)
LEMMA NextSafe == LedgerInv /\ [Next]_vars => LedgerInv' /\ LedgerStep
<1> SUFFICES ASSUME LedgerInv, [Next]_vars PROVE LedgerInv' /\ LedgerStep
  OBVIOUS
<1>1. TypeOK'
  BY StepTyped, RequestTyped, FailureTyped, OutsideTyped, StutterTyped
     DEF Next, LedgerInv
<1>2. CASE UNCHANGED vars
  <2>1. Safe
    BY <1>2, Untouched DEF vars, wallets, LedgerInv, UncommittedCovered
  <2>2. HeldByWriters'
    BY <1>2 DEF vars, LedgerInv, UncommittedCovered, HeldByWriters
  <2> QED
    BY <1>1, <2>1, <2>2 DEF LedgerInv, UncommittedCovered, Safe
<1>3. CASE Next
  <2>1. Safe /\ HeldByWriters'
    BY <1>3, RequestSafe, EndpointSafe, ConsumerSafe, QueueSafe, WebhookSafe, ElseSafe
       DEF Next, Step
  <2> QED
    BY <1>1, <2>1 DEF Safe, LedgerInv, UncommittedCovered
<1> QED
  BY <1>2, <1>3

LEMMA InitSafe == Init => LedgerInv /\ Ledger!Init
<1> SUFFICES ASSUME Init PROVE LedgerInv /\ Ledger!Init
  OBVIOUS
<1>1. balance \in [Wallets -> Nat]
  BY TotalsAreNumbers DEF Init
<1> QED
  BY <1>1, InitTyped
     DEF Init, LedgerInv, NonNegative, UncommittedCovered, HeldCovered, HeldByWriters,
         NoAdd, Ledger!Init

LEMMA LedgerInductive == Spec => []LedgerInv
  BY InitSafe, NextSafe, PTL DEF Spec

(* No balance and no pending_amount is ever negative, for any number of
   sessions, duplicates and failures (dao/transfer.py:208-215, 234-246). *)
THEOREM NeverNegative == Spec => []NonNegative
  BY LedgerInductive, PTL DEF LedgerInv

(* What a session has reserved and not committed stays covered, and the row is
   its own until the commit. *)
THEOREM ReservationsCovered == Spec => []UncommittedCovered
  BY LedgerInductive, PTL DEF LedgerInv

(* A reservation that becomes visible is within the balance at that moment:
   several pods, queue runs and the sync task never promise one sum twice
   (dao/transfer.py:47-48, 62, 184). *)
THEOREM NoOverReservation == Spec => ReserveWithinAvailable
<1>1. ASSUME LedgerInv, [Next]_vars
      PROVE  [\A w \in Wallets : pending'[w] > pending[w] => pending'[w] <= balance'[w]]_vars
  <2>1. LedgerInv' /\ LedgerStep
    BY <1>1, NextSafe
  <2>2. \A w \in Wallets : /\ pending[w] \in Int /\ pending'[w] \in Int
                            /\ balance[w] \in Int /\ balance'[w] \in Int
    BY <1>1, <2>1 DEF LedgerInv, TypeOK
  <2>3. ASSUME NEW w \in Wallets, pending'[w] > pending[w]
        PROVE  pending'[w] <= balance'[w]
    <3>1. Ledger!Next
      BY <2>1, <2>2, <2>3 DEF LedgerStep, Ledger!ledger
    <3>2. CASE Ledger!Reserve
      BY <2>3, <3>2 DEF Ledger!Reserve
    <3>3. ASSUME NEW v \in Wallets, NEW a \in {Amount[u] : u \in Transfers},
                 Ledger!Release(v, a) \/ Ledger!Settle(v, a)
          PROVE  FALSE
      <4>1. a \in Nat
        BY AmountsArePositive
      <4>2. pending \in [Wallets -> Int] /\ pending' = [pending EXCEPT ![v] = @ - a]
        BY <1>1, <3>3 DEF LedgerInv, TypeOK, Ledger!Release, Ledger!Settle
      <4> QED
        BY <4>1, <4>2, <2>2, <2>3
    <3>4. ASSUME Ledger!Refresh PROVE FALSE
      BY <2>2, <2>3, <3>4 DEF Ledger!Refresh
    <3>5. ASSUME NEW v \in Wallets, Ledger!Forget(v) PROVE FALSE
      BY <1>1, <2>2, <2>3, <3>5 DEF Ledger!Forget, LedgerInv, TypeOK, NonNegative
    <3> QED
      BY <3>1, <3>2, <3>3, <3>4, <3>5 DEF Ledger!Next
  <2> QED
    BY <2>3
<1> QED
  BY <1>1, LedgerInductive, PTL DEF Spec, ReserveWithinAvailable

(* The wallets table under every handler of app/, with crashes, redeliveries,
   stale sessions and resets, is the ledger of WalletLedger. *)
THEOREM ImplementsLedger == Spec => LedgerSpec
<1>1. Init => Ledger!Init
  BY InitSafe
<1>2. LedgerInv /\ [Next]_vars => [Ledger!Next]_(Ledger!ledger)
  BY NextSafe DEF LedgerStep
<1> QED
  BY <1>1, <1>2, LedgerInductive, PTL DEF Spec, LedgerSpec, Ledger!Spec
=============================================================================
