------------------------ MODULE PayoutsLapsesProofs ------------------------
(***************************************************************************)
(* The theorems about PayoutsLapses.  They assume nothing of the stimuli:  *)
(* overlapping sessions, redelivered messages, several workers, failures   *)
(* and direct transfers are all among the behaviours they speak of.        *)
(***************************************************************************)
EXTENDS PayoutsLapses, PayoutsOnceProofs

(* What a handler has found out by the time its session is open, and what only a
   transaction at Fireblocks can be the cause of. *)
GroundedRecord(r) ==
  /\ r.op \in Nameless => r.req = None
  /\ r.op = "approved" => r.seen \in Approvable
  /\ r.op = "approve" => r.seen = "pending_approval"
  /\ r.op \in {"signing"} \cup Events => sent[r.req] > 0

Grounded ==
  /\ \A s \in Sessions : GroundedRecord(sess[s])
  /\ \A t \in Transfers : inbox[t] # {} \/ fb[t] # "none" => sent[t] > 0

\* Fireblocks forgets no transaction.
Sent == \A t \in Transfers : sent'[t] \in Nat /\ sent'[t] >= sent[t]

-----------------------------------------------------------------------------

LEMMA SentGrows == TypeOK /\ [Next]_vars => Sent
<1> SUFFICES ASSUME TypeOK, [Next]_vars PROVE Sent
  OBVIOUS
<1>1. \A t \in Transfers : sent[t] \in Nat
  BY DEF TypeOK, OutsideOK
<1>2. CASE sent' = sent
  BY <1>1, <1>2 DEF Sent
<1>3. ASSUME NEW t, sent' = [sent EXCEPT ![t] = @ + 1] PROVE Sent
  BY <1>1, <1>3 DEF Sent, TypeOK, OutsideOK
<1>4. ASSUME NEW s \in Sessions, Step(s) PROVE Sent
  BY <1>2, <1>3, <1>4
     DEF Step, PublishCreated, CreateCommit, ApproveTransfer, RejectTransfer, CancelTransfer,
         UpdateTransferSigning, CompleteTransfer, RejectedFinish, ApprovedSign, ExecuteTx,
         ExecuteRefused, ExecuteReplyLost, ApprovedDone, ApprovedFailed, QueueReserve,
         LeftWaiting, SyncReserve, QueueCommit, SyncWrite, SyncSelect, SyncPublish, SyncEnd,
         WebhookFinish, Accept, provider
<1>5. ASSUME NEW s \in Sessions, Request(s) PROVE Sent
  BY <1>2, <1>3, <1>5
     DEF Request, CreateReserved, CreateQueued, CreateSend, Call, RejectedBegin, ApprovedBegin,
         BeginQueue, SyncRead, WebhookBegin, Accept, provider
<1>6. CASE Outside \/ UNCHANGED vars \/ \E s \in Sessions : Failure(s)
  BY <1>2, <1>6
     DEF Failure, Abort, Crash, Redeliver, Outside, WorkflowDecides, ApprovedDropped,
         ProviderReports, WebhookUnmatched, ResetWalletPending, vars, provider
<1> QED
  BY <1>4, <1>5, <1>6 DEF Next

\* The webhooks of a transaction, and their sessions.
LEMMA InboxGrounded ==
  ASSUME TypeOK, Grounded, [Next]_vars, NEW t \in Transfers, inbox'[t] # {} \/ fb'[t] # "none"
  PROVE  sent'[t] > 0
<1>1. sent[t] \in Nat /\ sent'[t] \in Nat /\ sent'[t] >= sent[t] /\ (inbox[t] # {} \/ fb[t] # "none" => sent[t] > 0)
  BY SentGrows DEF TypeOK, OutsideOK, Sent, Grounded
<1>2. CASE inbox' = inbox /\ fb' = fb
  BY <1>1, <1>2
<1>3. ASSUME NEW u \in Transfers, Accept(u) PROVE sent'[t] > 0
  <2>1. sent' = [sent EXCEPT ![u] = @ + 1] /\ inbox' = inbox /\ (u # t => fb'[t] = fb[t])
    BY <1>3 DEF Accept, TypeOK, OutsideOK
  <2>2. CASE u = t
    BY <1>1, <2>1, <2>2 DEF TypeOK, OutsideOK
  <2>3. CASE u # t
    BY <1>1, <2>1, <2>3 DEF TypeOK, OutsideOK
  <2> QED
    BY <2>2, <2>3
<1>4. ASSUME NEW u \in Transfers, NEW e \in Events, ProviderReports(u, e) PROVE sent'[t] > 0
  <2>1. fb[u] # "none" /\ sent' = sent
    BY <1>4 DEF ProviderReports, Events, SUBMITTED
  <2>2. u # t => inbox'[t] = inbox[t] /\ fb'[t] = fb[t]
    BY <1>4 DEF ProviderReports, TypeOK, OutsideOK
  <2> QED
    BY <1>1, <2>1, <2>2
<1>5. ASSUME NEW u \in Transfers, NEW e \in Events, Delivered(u, e), fb' = fb, sent' = sent
      PROVE  sent'[t] > 0
  <2>1. inbox'[t] \subseteq inbox[t]
    BY <1>5 DEF Delivered, TypeOK, OutsideOK
  <2> QED
    BY <1>1, <1>5, <2>1
<1>6. ASSUME NEW s \in Sessions, Step(s) PROVE sent'[t] > 0
  <2>1. ASSUME ExecuteTx(s) \/ ExecuteReplyLost(s) PROVE sent'[t] > 0
    <3>1. PICK u \in Transfers : u = sess[s].req
      BY <2>1, Working DEF TypeOK, ExecuteTx, ExecuteReplyLost, Nameless
    <3> QED
      BY <1>3, <2>1, <3>1 DEF ExecuteTx, ExecuteReplyLost
  <2> QED
    BY <1>2, <1>6, <2>1
       DEF Step, PublishCreated, CreateCommit, ApproveTransfer, RejectTransfer, CancelTransfer,
           UpdateTransferSigning, CompleteTransfer, RejectedFinish, ApprovedSign,
           ExecuteRefused, ApprovedDone, ApprovedFailed, QueueReserve, LeftWaiting,
           SyncReserve, QueueCommit, SyncWrite, SyncSelect, SyncPublish, SyncEnd,
           WebhookFinish, provider
<1>7. ASSUME NEW s \in Sessions, Request(s) PROVE sent'[t] > 0
  BY <1>2, <1>3, <1>5, <1>7
     DEF Request, CreateReserved, CreateQueued, CreateSend, Call, RejectedBegin, ApprovedBegin,
         BeginQueue, SyncRead, WebhookBegin, provider
<1>8. CASE Outside \/ UNCHANGED vars \/ \E s \in Sessions : Failure(s)
  BY <1>2, <1>4, <1>5, <1>8
     DEF Failure, Abort, Crash, Redeliver, Outside, WorkflowDecides, ApprovedDropped,
         WebhookUnmatched, ResetWalletPending, vars, provider
<1> QED
  BY <1>6, <1>7, <1>8 DEF Next

LEMMA StillGrounded ==
  ASSUME TypeOK, Sent, NEW s \in Sessions, GroundedRecord(sess[s]), sess'[s] = sess[s]
  PROVE  GroundedRecord(sess[s])'
<1>1. ASSUME sess[s].op \in {"signing"} \cup Events PROVE sent'[sess[s].req] > 0
  <2>1. sess[s].req \in Transfers
    BY <1>1, Working DEF TypeOK, Nameless, Events
  <2> QED
    BY <1>1, <2>1 DEF GroundedRecord, Sent, TypeOK, OutsideOK
<1> QED
  BY <1>1 DEF GroundedRecord

\* A session begins with what it has just read.
LEMMA OpenedGrounded ==
  ASSUME TypeOK, Sent, NEW s \in Sessions, NEW t \in Transfers,
         NEW o \in {"approved", "rejected"} \cup Endpoints \cup Events, Open(s, o, t),
         o = "approved" => status[t] \in Approvable,
         o = "approve" => status[t] = "pending_approval",
         o \in {"signing"} \cup Events => sent[t] > 0
  PROVE  GroundedRecord(sess[s])'
<1> DEFINE r == [IdleSession EXCEPT !.op = o, !.req = t,
                                    !.seen = status[t], !.src = wallet[t]]
<1>1. r.op = o /\ r.req = t /\ r.seen = status[t]
  BY DEF IdleSession
<1>2. sess'[s] = r
  BY DEF Open, TypeOK, SessionsOK
<1> HIDE DEF r
<1>3. o \notin Nameless
  BY DEF Nameless, Endpoints, Events
<1>4. o \in {"signing"} \cup Events => sent'[t] > 0
  BY DEF Sent, TypeOK, OutsideOK
<1> QED
  BY <1>1, <1>2, <1>3, <1>4 DEF GroundedRecord

LEMMA RequestGrounded ==
  ASSUME TypeOK, Tidy, Grounded, Sent, NEW s \in Sessions, Request(s)
  PROVE  GroundedRecord(sess[s])'
<1>0. TypeOK /\ GroundedRecord(sess[s])
  BY DEF Grounded
<1>1. ASSUME NEW t \in Transfers, CreateQueued(s, t) PROVE GroundedRecord(sess[s])'
  BY <1>0, <1>1, StillGrounded DEF CreateQueued
<1>2. ASSUME sess'[s].op \in {"publish"} \cup SentKinds PROVE GroundedRecord(sess[s])'
  BY <1>2 DEF GroundedRecord, Nameless, SentKinds, Events
<1>3. ASSUME NEW t \in Transfers,
             CreateReserved(s, t) \/ \E k \in SentKinds, w \in Wallets : CreateSend(s, t, k, w)
      PROVE  GroundedRecord(sess[s])'
  <2>1. sess[s] \in Session
    BY DEF TypeOK, SessionsOK
  <2>2. CASE CreateReserved(s, t)
    BY <1>2, <2>1, <2>2 DEF CreateReserved, TypeOK, SessionsOK, Session
  <2>3. ASSUME NEW k \in SentKinds, NEW w \in Wallets, CreateSend(s, t, k, w)
        PROVE  sess'[s].op = k
    BY <2>1, <2>3 DEF CreateSend, TypeOK, SessionsOK, Session
  <2> QED
    BY <1>2, <1>3, <2>2, <2>3
<1>4. ASSUME BeginQueue(s) \/ SyncRead(s) PROVE GroundedRecord(sess[s])'
  <2>1. sess[s] \in Session /\ sess[s].op = "idle"
    BY <1>4 DEF BeginQueue, SyncRead, TypeOK, SessionsOK
  <2>2. sess[s].req = None
    BY <1>0, <2>1 DEF GroundedRecord, Nameless
  <2>3. sess'[s].op \in {"queue", "sync_read"} /\ sess'[s].req = sess[s].req
    BY <1>4, <2>1 DEF BeginQueue, SyncRead, TypeOK, SessionsOK, Session
  <2> QED
    BY <2>2, <2>3 DEF GroundedRecord, Nameless, Events
<1>5. ASSUME NEW t \in Transfers, NEW o \in Endpoints, Call(s, o, t)
      PROVE  GroundedRecord(sess[s])'
  <2>1. /\ o = "approve" => status[t] = "pending_approval"
        /\ o = "signing" => sent[t] > 0
        /\ o # "approved" /\ o \notin Events
    BY <1>5 DEF Call, Accepts, AcceptedIn, Callable, Endpoints, Events
  <2> QED
    BY <1>5, <2>1, OpenedGrounded DEF Call
<1>6. ASSUME NEW t \in Transfers, RejectedBegin(s, t) \/ ApprovedBegin(s, t)
      PROVE  GroundedRecord(sess[s])'
  <2>1. ApprovedBegin(s, t) => status[t] \in Approvable
    BY DEF ApprovedBegin, Accepts, AcceptedIn
  <2> QED
    BY <1>6, <2>1, OpenedGrounded DEF ApprovedBegin, RejectedBegin, Consume, Events
<1>7. ASSUME NEW t \in Transfers, NEW e \in Events, WebhookBegin(s, t, e)
      PROVE  GroundedRecord(sess[s])'
  <2>1. sent[t] > 0 /\ e # "approved" /\ e # "approve"
    BY <1>7 DEF WebhookBegin, Delivered, Grounded, Events
  <2> QED
    BY <1>7, <2>1, OpenedGrounded DEF WebhookBegin
<1> QED
  BY <1>1, <1>3, <1>4, <1>5, <1>6, <1>7 DEF Request

LEMMA StepGrounded ==
  ASSUME TypeOK, Tidy, Grounded, Sent, NEW s \in Sessions, Step(s)
  PROVE  GroundedRecord(sess[s])'
<1>0. sess[s] \in Session /\ GroundedRecord(sess[s])
  BY DEF Grounded, TypeOK, SessionsOK
<1>1. CASE Close(s)
  BY <1>1 DEF Close, IdleSession, GroundedRecord, Nameless, Events, TypeOK, SessionsOK
<1>2. ASSUME sess'[s].op \in {"execute", "executed", "exec_failed", "sync_publish"}
      PROVE  GroundedRecord(sess[s])'
  BY <1>2 DEF GroundedRecord, Nameless, Events
<1>3. CASE ApprovedSign(s) \/ ExecuteTx(s) \/ ExecuteRefused(s) \/ ExecuteReplyLost(s)
  BY <1>0, <1>2, <1>3
     DEF ApprovedSign, ExecuteTx, ExecuteRefused, ExecuteReplyLost, Advance, TypeOK, SessionsOK,
         Session
<1>4. ASSUME NEW t \in Transfers, SyncReserve(s, t) PROVE GroundedRecord(sess[s])'
  BY <1>0, <1>2, <1>4 DEF SyncReserve, TypeOK, SessionsOK, Session
<1>5. ASSUME sess'[s].op \in {"queue", "sync_select", "sync_queue"}, sess'[s].req = None
      PROVE  GroundedRecord(sess[s])'
  BY <1>5 DEF GroundedRecord, Nameless, Events
<1>6. ASSUME NEW t \in Transfers, QueueReserve(s, t) \/ LeftWaiting(s, t)
      PROVE  GroundedRecord(sess[s])'
  <2>1. /\ sess[s].op \in {"queue", "sync_queue"} /\ sess[s].req = None
    BY <1>0, <1>6 DEF QueueReserve, LeftWaiting, GroundedRecord, Nameless
  <2>2. sess'[s].op = sess[s].op /\ sess'[s].req = sess[s].req
    BY <1>0, <1>6 DEF QueueReserve, LeftWaiting, TypeOK, SessionsOK, Session
  <2> QED
    BY <1>5, <2>1, <2>2
<1>7. CASE SyncWrite(s) \/ SyncPublish(s)
  BY <1>0, <1>5, <1>7 DEF SyncWrite, SyncPublish, TypeOK, SessionsOK, Session, IdleSession
<1>8. CASE SyncSelect(s)
  <2>1. sess[s].req = None
    BY <1>0, <1>8 DEF SyncSelect, GroundedRecord, Nameless
  <2>2. sess'[s].op = "sync_queue" /\ sess'[s].req = sess[s].req
    BY <1>0, <1>8 DEF SyncSelect, TypeOK, SessionsOK, Session
  <2> QED
    BY <1>5, <2>1, <2>2
<1> QED
  BY <1>1, <1>3, <1>4, <1>6, <1>7, <1>8
     DEF Step, PublishCreated, CreateCommit, Rollback, ApproveTransfer, RejectTransfer,
         CancelTransfer, UpdateTransferSigning, CompleteTransfer, RejectedFinish,
         ApprovedDone, ApprovedFailed, QueueCommit, SyncEnd, WebhookFinish

LEMMA GroundedNext == TypeOK /\ Tidy /\ Grounded /\ [Next]_vars => Grounded'
<1> SUFFICES ASSUME TypeOK, Tidy, Grounded, [Next]_vars PROVE Grounded'
  OBVIOUS
<1>1. Sent
  BY SentGrows
<1>2. \/ UNCHANGED sess
      \/ \E s \in Sessions : OthersKept(s) /\ GroundedRecord(sess[s])'
  <2>1. ASSUME NEW s \in Sessions, Failure(s)
        PROVE  UNCHANGED sess \/ (OthersKept(s) /\ GroundedRecord(sess[s])')
    <3>1. ASSUME Close(s) PROVE GroundedRecord(sess[s])'
      BY <3>1 DEF Close, IdleSession, GroundedRecord, Nameless, Events, TypeOK, SessionsOK
    <3> QED
      BY <2>1, <3>1, ClosedTidy DEF Failure, Abort, Crash, Redeliver, Rollback
  <2>2. CASE Outside \/ UNCHANGED vars
    BY <2>2 DEF Outside, WorkflowDecides, ApprovedDropped, ProviderReports,
                WebhookUnmatched, ResetWalletPending, vars
  <2> QED
    BY <1>1, <2>1, <2>2, StepGrounded, RequestGrounded, StepTidy, RequestTidy DEF Next
<1>3. ASSUME NEW s \in Sessions PROVE GroundedRecord(sess[s])'
  BY <1>1, <1>2, StillGrounded DEF Grounded, OthersKept
<1>4. \A t \in Transfers : inbox'[t] # {} \/ fb'[t] # "none" => sent'[t] > 0
  BY InboxGrounded
<1> QED
  BY <1>3, <1>4 DEF Grounded

LEMMA GroundedInit == Init => Grounded
  BY DEF Init, Grounded, GroundedRecord, IdleSession, Events

-----------------------------------------------------------------------------
(* What a step of session s can be to transfer t: *)

Executes(s, t) == sess[s].op = "execute" /\ sess[s].req = t

Moves(s, t) == On(s, t) /\ sess'[s] # sess[s]

\* nothing,
Passes(s, t) ==
  status'[t] = status[t] /\ sent'[t] = sent[t] /\ (Executes(s, t)' => Executes(s, t))

\* the creation of a payout,
Creates(s, t) ==
  ~Exists(t) /\ status'[t] \in Approvable /\ sent'[t] = sent[t] /\ ~Executes(s, t)'

\* a reservation, or a place in the queue, for a transfer that waits,
Provides(s, t) ==
  /\ Moves(s, t) /\ Believed(s, t) \in Approvable
  /\ status'[t] \in Approvable /\ sent'[t] = sent[t] /\ ~Executes(s, t)'

\* a status after which no consumer begins,
Proceeds(s, t) ==
  /\ Moves(s, t)
  /\ status'[t] \notin Fresh /\ sent'[t] = sent[t] /\ ~Executes(s, t)'
  /\ status'[t] \in Final \/ sent[t] > 0 \/ Believed(s, t) \notin Final \/ ~Exists(t)

\* the commit of SIGNING,
Begins(s, t) ==
  /\ Signs(s) /\ On(s, t) /\ Believed(s, t) \in Approvable
  /\ status'[t] \notin Fresh /\ sent'[t] = sent[t]

\* the payment,
Pays(s, t) ==
  /\ Executes(s, t) /\ ~Executes(s, t)'
  /\ status'[t] = status[t] /\ sent'[t] = sent[t] + 1

\* or a transaction sent directly.
Sends(s, t) ==
  /\ ~Exists(t) /\ sent[t] = 0
  /\ status'[t] = status[t] /\ sent'[t] = 1 /\ ~Executes(s, t)'

Effect(s, t) ==
  \/ Passes(s, t) \/ Creates(s, t) \/ Provides(s, t) \/ Proceeds(s, t)
  \/ Begins(s, t) \/ Pays(s, t) \/ Sends(s, t)

LEMMA ClosedMoves ==
  ASSUME TypeOK, NEW s \in Sessions, Close(s), NEW t \in Transfers
  PROVE  ~Executes(s, t)' /\ (sess[s].op # "idle" => sess'[s] # sess[s])
  BY DEF Close, IdleSession, Executes, TypeOK, SessionsOK

\* A handler that ends with a status of its own choice.
LEMMA EndingEffect ==
  ASSUME TypeOK, Grounded, NEW s \in Sessions, NEW t \in Transfers,
         \/ RejectTransfer(s) \/ CancelTransfer(s) \/ UpdateTransferSigning(s)
         \/ CompleteTransfer(s) \/ RejectedFinish(s) \/ WebhookFinish(s)
         \/ ApprovedDone(s) \/ ApprovedFailed(s)
  PROVE  Effect(s, t)
<1>1. /\ Close(s) /\ sess[s].op # "idle" /\ sess[s].op \notin Nameless /\ sent' = sent
  BY DEF RejectTransfer, CancelTransfer, UpdateTransferSigning, CompleteTransfer,
         RejectedFinish, WebhookFinish, ApprovedDone, ApprovedFailed, Nameless, Events, provider
<1>2. PICK u \in Transfers : u = sess[s].req
  BY <1>1, Working DEF TypeOK
<1>3. ~Executes(s, t)' /\ sess'[s] # sess[s]
  BY <1>1, ClosedMoves
<1>4. \/ status'[t] = status[t]
      \/ /\ t = u /\ status'[t] \notin Fresh
         /\ status'[t] \in Final \/ sent[t] > 0 \/ Believed(s, t) = "signing"
  <2>1. ASSUME NEW new, status' = Written(s, u, new) \/ status' = [status EXCEPT ![u] = new]
        PROVE  status'[t] = status[t] \/ (t = u /\ status'[t] = new)
    BY <2>1 DEF Written, TypeOK, RowsOK
  <2>2. {"rejected", "cancelled", "completed", "failed", "signing", "broadcasting"} \cap Fresh = {}
        /\ {"rejected", "cancelled", "completed", "failed"} \subseteq Final
    BY DEF Fresh, Approvable, Final
  <2>3. CASE RejectTransfer(s) \/ CancelTransfer(s) \/ CompleteTransfer(s) \/ RejectedFinish(s)
             \/ ApprovedFailed(s)
    <3>1. status' = status \/ \E new \in {"rejected", "cancelled", "completed", "failed"} :
                                status' = Written(s, u, new) \/ status' = [status EXCEPT ![u] = new]
      BY <1>2, <2>3 DEF RejectTransfer, CancelTransfer, CompleteTransfer, RejectedFinish,
                        ApprovedFailed
    <3> QED
      BY <2>1, <2>2, <3>1
  <2>4. CASE ApprovedDone(s)
    <3>1. status' = [status EXCEPT ![u] = "broadcasting"] /\ sess[s].op = "executed"
      BY <1>2, <2>4 DEF ApprovedDone
    <3> QED
      BY <1>2, <2>1, <2>2, <3>1 DEF Believed
  <2>5. CASE UpdateTransferSigning(s) \/ WebhookFinish(s)
    <3>1. sent[u] > 0
      BY <1>2, <2>5 DEF Grounded, GroundedRecord, UpdateTransferSigning, WebhookFinish
    <3>2. status' = status \/ status' = Written(s, u, "signing")
          \/ \E e \in Events : status' = Written(s, u, EventStatus(e))
      BY <1>2, <2>5 DEF UpdateTransferSigning, WebhookFinish
    <3>3. \A e \in Events : EventStatus(e) \in {"completed", "failed", "signing", "broadcasting"}
      BY DEF Events, EventStatus
    <3> QED
      BY <2>1, <2>2, <3>1, <3>2, <3>3
  <2> QED
    BY <2>3, <2>4, <2>5
<1>5. CASE status'[t] = status[t]
  BY <1>1, <1>3, <1>5 DEF Effect, Passes
<1>6. CASE t = u /\ status'[t] \notin Fresh
             /\ (status'[t] \in Final \/ sent[t] > 0 \/ Believed(s, t) = "signing")
  <2>1. Proceeds(s, t)
    BY <1>1, <1>2, <1>3, <1>6 DEF Proceeds, Moves, On, Final
  <2> QED
    BY <2>1 DEF Effect
<1> QED
  BY <1>4, <1>5, <1>6

\* A handler that gives a waiting transfer a wallet, or leaves it waiting.
LEMMA ProvidingEffect ==
  ASSUME TypeOK, Grounded, NEW s \in Sessions, NEW t \in Transfers,
         ApproveTransfer(s) \/ QueueCommit(s) \/ \E u \in Transfers : SyncReserve(s, u)
  PROVE  Effect(s, t)
<1>0. sess[s] \in Session /\ GroundedRecord(sess[s]) /\ status[t] \in RowStatus
  BY DEF Grounded, TypeOK, SessionsOK, RowsOK
<1>1. {"pending", "pending_balance", "pending_approval"} \subseteq Approvable
  BY DEF Approvable
<1>2. CASE ApproveTransfer(s)
  <2>1. sess[s].req \in Transfers /\ Close(s) /\ sess[s].op = "approve" /\ sent' = sent
    BY <1>2, Working DEF ApproveTransfer, TypeOK, Nameless, provider
  <2>2. ~Executes(s, t)' /\ sess'[s] # sess[s]
    BY <2>1, ClosedMoves
  <2>3. status'[t] = status[t]
        \/ (t = sess[s].req /\ status'[t] \in {"pending", "pending_balance"})
    BY <1>2, <2>1 DEF ApproveTransfer, TypeOK, RowsOK
  <2>4. t = sess[s].req => Believed(s, t) = "pending_approval"
    BY <1>0, <2>1 DEF GroundedRecord, Believed
  <2>5. CASE status'[t] = status[t]
    BY <2>1, <2>2, <2>5 DEF Effect, Passes
  <2>6. CASE t = sess[s].req /\ status'[t] \in {"pending", "pending_balance"}
    <3>1. Provides(s, t)
      BY <1>1, <2>1, <2>2, <2>4, <2>6 DEF Provides, Moves, On
    <3> QED
      BY <3>1 DEF Effect
  <2> QED
    BY <2>3, <2>5, <2>6
<1>3. CASE QueueCommit(s)
  <2>1. Close(s) /\ sess[s].op = "queue" /\ sent' = sent /\ sess[s].req = None
    BY <1>0, <1>3 DEF QueueCommit, Rollback, GroundedRecord, Nameless, provider
  <2>2. ~Executes(s, t)' /\ sess'[s] # sess[s]
    BY <2>1, ClosedMoves
  <2>3. status'[t] = IF sess[s].picked[t] # None THEN "pending" ELSE status[t]
    BY <1>3 DEF QueueCommit
  <2>4. Believed(s, t) = "pending_balance"
    BY <2>1, NoneAssumption DEF Believed
  <2>5. CASE sess[s].picked[t] = None
    BY <2>1, <2>2, <2>3, <2>5 DEF Effect, Passes
  <2>6. CASE sess[s].picked[t] # None
    <3>1. Provides(s, t)
      BY <1>1, <2>1, <2>2, <2>3, <2>4, <2>6 DEF Provides, Moves, On
    <3> QED
      BY <3>1 DEF Effect
  <2> QED
    BY <2>5, <2>6
<1>4. ASSUME NEW u \in Transfers, SyncReserve(s, u) PROVE Effect(s, t)
  <2>1. /\ sess[s].op = "sync_queue" /\ sent' = sent /\ sess[s].req = None
        /\ u \in sess[s].todo /\ status' = [status EXCEPT ![u] = "pending"]
    BY <1>0, <1>4 DEF SyncReserve, GroundedRecord, Nameless, Turn, provider
  <2>2. sess'[s].op = "sync_publish"
    BY <1>0, <1>4 DEF SyncReserve, TypeOK, SessionsOK, Session
  <2>3. ~Executes(s, t)' /\ sess'[s] # sess[s]
    BY <2>1, <2>2 DEF Executes
  <2>4. Believed(s, t) = "pending_balance"
    BY <2>1, NoneAssumption DEF Believed
  <2>5. CASE t # u
    <3>1. status'[t] = status[t]
      BY <2>1, <2>5 DEF TypeOK, RowsOK
    <3> QED
      BY <2>1, <2>3, <3>1 DEF Effect, Passes
  <2>6. CASE t = u
    <3>1. status'[t] = "pending"
      BY <2>1, <2>6 DEF TypeOK, RowsOK
    <3>2. Provides(s, t)
      BY <1>1, <2>1, <2>3, <2>4, <2>6, <3>1 DEF Provides, Moves, On
    <3> QED
      BY <3>2 DEF Effect
  <2> QED
    BY <2>5, <2>6
<1> QED
  BY <1>2, <1>3, <1>4

\* The consumer of transfer.approved, up to the provider's answer.
LEMMA PayingEffect ==
  ASSUME TypeOK, Grounded, NEW s \in Sessions, NEW t \in Transfers,
         ApprovedSign(s) \/ ExecuteTx(s) \/ ExecuteRefused(s) \/ ExecuteReplyLost(s)
  PROVE  Effect(s, t)
<1>0. sess[s] \in Session /\ GroundedRecord(sess[s])
  BY DEF Grounded, TypeOK, SessionsOK
<1>1. PICK u \in Transfers : u = sess[s].req
  BY Working DEF TypeOK, ApprovedSign, ExecuteTx, ExecuteRefused, ExecuteReplyLost, Nameless
<1>2. CASE ApprovedSign(s)
  <2>1. /\ sess[s].op = "approved" /\ Advance(s, "execute") /\ sent' = sent
        /\ status' = [status EXCEPT ![u] = "signing"]
    BY <1>1, <1>2 DEF ApprovedSign, provider
  <2>2. sess'[s].op = "execute" /\ sess'[s].req = u
    BY <1>0, <1>1, <2>1 DEF Advance, TypeOK, SessionsOK, Session
  <2>3. CASE t # u
    BY <2>1, <2>2, <2>3 DEF Effect, Passes, Executes, TypeOK, RowsOK
  <2>4. CASE t = u
    <3>1. Believed(s, t) \in Approvable
      BY <1>0, <1>1, <2>1, <2>4 DEF Believed, GroundedRecord
    <3>2. status'[t] \notin Fresh
      BY <2>1, <2>4 DEF TypeOK, RowsOK, Fresh, Approvable
    <3>3. Begins(s, t)
      BY <1>1, <2>1, <2>2, <2>4, <3>1, <3>2 DEF Begins, Signs, On
    <3> QED
      BY <3>3 DEF Effect
  <2> QED
    BY <2>3, <2>4
<1>3. CASE ExecuteTx(s) \/ ExecuteReplyLost(s)
  <2>1. /\ sess[s].op = "execute" /\ sent' = [sent EXCEPT ![u] = @ + 1] /\ status' = status
        /\ Advance(s, "executed") \/ Advance(s, "exec_failed")
    BY <1>1, <1>3 DEF ExecuteTx, ExecuteReplyLost, Accept, rows
  <2>2. sess'[s].op # "execute"
    BY <1>0, <2>1 DEF Advance, TypeOK, SessionsOK, Session
  <2>3. CASE t # u
    BY <2>1, <2>2, <2>3 DEF Effect, Passes, Executes, TypeOK, OutsideOK
  <2>4. CASE t = u
    BY <1>1, <2>1, <2>2, <2>4 DEF Effect, Pays, Executes, TypeOK, OutsideOK
  <2> QED
    BY <2>3, <2>4
<1>4. CASE ExecuteRefused(s)
  <2>1. status' = status /\ sent' = sent /\ Advance(s, "exec_failed")
    BY <1>4 DEF ExecuteRefused, rows, provider
  <2>2. sess'[s].op # "execute"
    BY <1>0, <2>1 DEF Advance, TypeOK, SessionsOK, Session
  <2> QED
    BY <2>1, <2>2 DEF Effect, Passes, Executes
<1> QED
  BY <1>2, <1>3, <1>4

\* What is said about a transfer in no other step.
LEMMA PassingEffect ==
  ASSUME TypeOK, NEW s \in Sessions, NEW t \in Transfers,
         status' = status, sent' = sent,
         sess'[s].op # "execute" \/ sess'[s] = sess[s]
  PROVE  Effect(s, t)
  BY DEF Effect, Passes, Executes

LEMMA StepEffect ==
  ASSUME TypeOK, Grounded, NEW s \in Sessions, NEW t \in Transfers, Step(s)
  PROVE  Effect(s, t)
<1>0. sess[s] \in Session
  BY DEF TypeOK, SessionsOK
<1>1. CASE CreateCommit(s)
  <2>1. sess[s].req \in Transfers /\ Close(s) /\ sess[s].op # "idle" /\ sent' = sent
    BY <1>1, Working DEF CreateCommit, Rollback, SentKinds, Nameless, TypeOK, provider
  <2>2. ~Executes(s, t)' /\ sess'[s] # sess[s]
    BY <2>1, ClosedMoves
  <2>3. \/ status'[t] = status[t]
        \/ t = sess[s].req /\ ~Exists(t) /\ status'[t] = SUBMITTED
    BY <1>1, <2>1 DEF CreateCommit, NewRow, rows, TypeOK, RowsOK
  <2>4. SUBMITTED \notin Fresh
    BY DEF SUBMITTED, Fresh, Approvable
  <2>5. CASE status'[t] = status[t]
    BY <2>1, <2>2, <2>5 DEF Effect, Passes
  <2>6. CASE t = sess[s].req /\ ~Exists(t) /\ status'[t] = SUBMITTED
    BY <2>1, <2>2, <2>4, <2>6 DEF Effect, Proceeds, Moves, On
  <2> QED
    BY <2>3, <2>5, <2>6
<1>2. CASE PublishCreated(s) \/ SyncEnd(s)
  <2>1. sess'[s] = IdleSession /\ status' = status /\ sent' = sent
    BY <1>2 DEF PublishCreated, SyncEnd, Close, rows, provider, TypeOK, SessionsOK
  <2> QED
    BY <2>1, PassingEffect DEF IdleSession
<1>3. CASE SyncWrite(s) \/ SyncSelect(s) \/ SyncPublish(s)
  <2>1. status' = status /\ sent' = sent
    BY <1>3 DEF SyncWrite, SyncSelect, SyncPublish, rows, provider
  <2>2. sess'[s].op \in {"sync_select", "sync_queue"}
    BY <1>0, <1>3 DEF SyncWrite, SyncSelect, SyncPublish, TypeOK, SessionsOK, Session, IdleSession
  <2> QED
    BY <2>1, <2>2, PassingEffect
<1>4. ASSUME NEW u \in Transfers, QueueReserve(s, u) \/ LeftWaiting(s, u) PROVE Effect(s, t)
  <2>1. status' = status /\ sent' = sent
    BY <1>4 DEF QueueReserve, LeftWaiting, rows, provider
  <2>2. sess'[s].op \in {"queue", "sync_queue"}
    BY <1>0, <1>4 DEF QueueReserve, LeftWaiting, TypeOK, SessionsOK, Session
  <2> QED
    BY <2>1, <2>2, PassingEffect
<1> QED
  BY <1>1, <1>2, <1>3, <1>4, EndingEffect, ProvidingEffect, PayingEffect DEF Step

LEMMA RequestEffect ==
  ASSUME TypeOK, NEW s \in Sessions, NEW t \in Transfers, Request(s)
  PROVE  Effect(s, t)
<1>0. sess[s] \in Session
  BY DEF TypeOK, SessionsOK
<1>1. ASSUME NEW u \in Transfers, CreateReserved(s, u) \/ CreateQueued(s, u) PROVE Effect(s, t)
  <2>1. PICK st \in {"pending_approval", "pending_balance"} :
           status' = [status EXCEPT ![u] = st]
    BY <1>1 DEF CreateReserved, CreateQueued, NewRow
  <2>2. ~Exists(u) /\ sent' = sent /\ ~Executes(s, t)'
    BY <1>0, <1>1 DEF CreateReserved, CreateQueued, provider, Executes, TypeOK, SessionsOK, Session
  <2>3. CASE t = u
    BY <2>1, <2>2, <2>3 DEF Effect, Creates, TypeOK, RowsOK, Approvable
  <2>4. CASE t # u
    BY <2>1, <2>2, <2>4 DEF Effect, Passes, TypeOK, RowsOK
  <2> QED
    BY <2>3, <2>4
<1>2. ASSUME NEW u \in Transfers, NEW k \in SentKinds, NEW w \in Wallets, CreateSend(s, u, k, w)
      PROVE  Effect(s, t)
  <2>1. /\ ~Exists(u) /\ sent[u] = 0 /\ status' = status
        /\ sent' = [sent EXCEPT ![u] = @ + 1]
    BY <1>2 DEF CreateSend, Accept, rows
  <2>2. sess'[s].op = k /\ k # "execute"
    BY <1>0, <1>2 DEF CreateSend, SentKinds, TypeOK, SessionsOK, Session
  <2>3. CASE t = u
    BY <2>1, <2>2, <2>3 DEF Effect, Sends, Executes, TypeOK, OutsideOK
  <2>4. CASE t # u
    BY <2>1, <2>2, <2>4 DEF Effect, Passes, Executes, TypeOK, OutsideOK
  <2> QED
    BY <2>3, <2>4
<1>3. CASE BeginQueue(s) \/ SyncRead(s)
  <2>1. status' = status /\ sent' = sent
    BY <1>3 DEF BeginQueue, SyncRead, rows, provider
  <2>2. sess'[s].op \in {"queue", "sync_read"}
    BY <1>0, <1>3 DEF BeginQueue, SyncRead, TypeOK, SessionsOK, Session
  <2> QED
    BY <2>1, <2>2, PassingEffect
<1>4. ASSUME NEW o \in Endpoints \cup {"rejected", "approved"} \cup Events,
             NEW u \in Transfers, Open(s, o, u), status' = status, sent' = sent
      PROVE  Effect(s, t)
  <2>1. sess'[s].op = o
    BY <1>4 DEF Open, TypeOK, SessionsOK, IdleSession
  <2>2. o # "execute"
    BY DEF Endpoints, Events
  <2> QED
    BY <1>4, <2>1, <2>2, PassingEffect
<1> QED
  BY <1>1, <1>2, <1>3, <1>4
     DEF Request, Call, RejectedBegin, ApprovedBegin, Consume, WebhookBegin, rows, provider

\* One session acts, or none of this is touched.
LEMMA NextEffect ==
  ASSUME TypeOK, Tidy, Grounded, [Next]_vars
  PROVE  \/ UNCHANGED <<sess, status, sent>>
         \/ \E s \in Sessions : OthersKept(s) /\ \A t \in Transfers : Effect(s, t)
<1>1. ASSUME NEW s \in Sessions, Failure(s), ~UNCHANGED <<sess, status, sent>>
      PROVE  OthersKept(s) /\ \A t \in Transfers : Effect(s, t)
  <2>1. Close(s) /\ status' = status /\ sent' = sent
    BY <1>1 DEF Failure, Abort, Crash, Redeliver, Rollback, rows, provider
  <2>2. sess'[s].op = "idle"
    BY <2>1 DEF Close, IdleSession, TypeOK, SessionsOK
  <2> QED
    BY <2>1, <2>2, ClosedTidy, PassingEffect
<1>2. Outside \/ UNCHANGED vars => UNCHANGED <<sess, status, sent>>
  BY DEF Outside, WorkflowDecides, ApprovedDropped, ProviderReports, WebhookUnmatched,
         ResetWalletPending, vars, rows, provider
<1> QED
  BY <1>1, <1>2, StepEffect, RequestEffect, StepTidy, RequestTidy DEF Next

-----------------------------------------------------------------------------
(* One payment *)

Unlapsed(t) == lapses[t] \cap {"overtaken", "orphaned"} = {}

\* A transfer has no transaction as long as a consumer can still begin with it, or
\* one that has begun has not called Fireblocks.
PaidOnce(t) ==
  /\ sent[t] <= 1
  /\ status[t] \in Approvable => sent[t] = 0
  /\ \A s \in Sessions : Executes(s, t) => sent[t] = 0 /\ status[t] \notin Fresh
  /\ \A s, z \in Sessions : Executes(s, t) /\ Executes(z, t) => s = z

\* What a step with a new lapse of t looks like, and one without.
LEMMA NoLapse ==
  ASSUME NEW t \in Transfers, lapses \in [Transfers -> SUBSET {"overtaken", "orphaned", "half_told"}],
         lapses' = [u \in Transfers |-> lapses[u] \cup NewLapses(u)]
  PROVE  /\ Unlapsed(t)' => Unlapsed(t) /\ ~Overtaken(t) /\ ~Orphaned(t)
         /\ lapses'[t] = {} => lapses[t] = {} /\ ~Overtaken(t) /\ ~Orphaned(t) /\ ~HalfTold(t)
<1>1. lapses'[t] = lapses[t] \cup NewLapses(t)
  OBVIOUS
<1>2. /\ Overtaken(t) => "overtaken" \in NewLapses(t)
      /\ Orphaned(t) => "orphaned" \in NewLapses(t)
      /\ HalfTold(t) => "half_told" \in NewLapses(t)
  BY DEF NewLapses
<1> QED
  BY <1>1, <1>2 DEF Unlapsed

LEMMA PaidOnceNext ==
  ASSUME TypeOK, Tidy, Grounded, [Next]_vars, NEW t \in Transfers,
         PaidOnce(t), ~Overtaken(t), ~Orphaned(t)
  PROVE  PaidOnce(t)'
<1>0. sent[t] \in Nat
  BY DEF TypeOK, OutsideOK
<1>1. CASE UNCHANGED <<sess, status, sent>>
  BY <1>1 DEF PaidOnce, Executes
<1>2. ASSUME NEW s \in Sessions, OthersKept(s), Effect(s, t) PROVE PaidOnce(t)'
  <2>0. \A z \in Sessions \ {s} : Executes(z, t)' <=> Executes(z, t)
    BY <1>2 DEF OthersKept, Executes
  <2>1. CASE Passes(s, t)
    BY <2>0, <2>1 DEF Passes, PaidOnce
  <2>2. CASE Creates(s, t)
    <3>1. sent[t] = 0
      BY <1>0, <2>2 DEF Creates, Orphaned
    <3>2. \A z \in Sessions : ~Executes(z, t)
      BY <2>2 DEF Creates, Exists, PaidOnce, Fresh
    <3> QED
      BY <2>0, <2>2, <3>1, <3>2 DEF Creates, PaidOnce
  <2>3. CASE Provides(s, t)
    <3>1. status'[t] # status[t] => Believed(s, t) = status[t]
      BY <2>3 DEF Provides, Moves, Overtaken, Changes
    <3>2. status[t] \in Approvable
      BY <2>3, <3>1 DEF Provides
    <3>3. sent[t] = 0 /\ \A z \in Sessions : ~Executes(z, t)
      BY <3>2 DEF PaidOnce, Fresh
    <3> QED
      BY <2>0, <2>3, <3>3 DEF Provides, PaidOnce
  <2>4. CASE Proceeds(s, t)
    BY <2>0, <2>4 DEF Proceeds, PaidOnce, Fresh
  <2>5. CASE Begins(s, t)
    <3>1. sess'[s] # sess[s]
      BY <2>5 DEF Begins, Signs
    <3>2. status[t] \in Approvable
      BY <2>5, <3>1 DEF Begins, Overtaken
    <3>3. sent[t] = 0 /\ \A z \in Sessions : ~Executes(z, t)
      BY <3>2 DEF PaidOnce, Fresh
    <3> QED
      BY <2>0, <2>5, <3>3 DEF Begins, PaidOnce, Fresh
  <2>6. CASE Pays(s, t)
    <3>1. sent[t] = 0 /\ status[t] \notin Fresh /\ \A z \in Sessions \ {s} : ~Executes(z, t)
      BY <2>6 DEF Pays, PaidOnce
    <3> QED
      BY <2>0, <2>6, <3>1 DEF Pays, PaidOnce, Fresh
  <2>7. CASE Sends(s, t)
    <3>1. status[t] \in Fresh /\ status[t] \notin Approvable
      BY <2>7 DEF Sends, Exists, Fresh, Approvable
    <3>2. \A z \in Sessions : ~Executes(z, t)
      BY <3>1 DEF PaidOnce
    <3> QED
      BY <2>0, <2>7, <3>1, <3>2 DEF Sends, PaidOnce
  <2> QED
    BY <1>2, <2>1, <2>2, <2>3, <2>4, <2>5, <2>6, <2>7 DEF Effect
<1> QED
  BY <1>1, <1>2, NextEffect

-----------------------------------------------------------------------------
(* No payment after a refusal *)

\* Only a transaction reopens what the backend was told is over.
Settled(t) == told[t] # {} /\ sent[t] = 0 => status[t] \in Final

LEMMA SettledNext ==
  ASSUME TypeOK, Tidy, Grounded, [Next]_vars, NEW t \in Transfers,
         Settled(t), ~Overtaken(t), ~HalfTold(t)
  PROVE  Settled(t)'
<1>0. sent[t] \in Nat /\ sent'[t] \in Nat /\ sent'[t] >= sent[t]
  BY SentGrows DEF TypeOK, OutsideOK, Sent
<1> SUFFICES ASSUME told'[t] # {}, sent'[t] = 0 PROVE status'[t] \in Final
  BY DEF Settled
<1>1. CASE told'[t] # told[t]
  BY <1>1 DEF HalfTold
<1>2. CASE told'[t] = told[t]
  <2>1. sent[t] = 0 /\ status[t] \in Final
    BY <1>0, <1>2 DEF Settled
  <2>2. Final \cap Fresh = {} /\ Exists(t)
    BY <2>1 DEF Final, Fresh, Approvable, Exists
  <2>3. CASE status'[t] = status[t]
    BY <2>1, <2>3
  <2>4. ASSUME NEW s \in Sessions, Effect(s, t), status'[t] # status[t]
        PROVE  status'[t] \in Final
    <3>1. Moves(s, t) => Believed(s, t) = status[t]
      BY <2>4 DEF Moves, Overtaken, Changes
    <3>2. Signs(s) /\ On(s, t) => Believed(s, t) = status[t]
      BY DEF Signs, Overtaken
    <3>3. ~Provides(s, t) /\ ~Begins(s, t)
      BY <2>1, <2>2, <3>1, <3>2 DEF Provides, Begins, Fresh
    <3>4. ~Passes(s, t) /\ ~Creates(s, t) /\ ~Pays(s, t) /\ ~Sends(s, t)
      BY <2>2, <2>4 DEF Passes, Creates, Pays, Sends
    <3>5. Proceeds(s, t)
      BY <2>4, <3>3, <3>4 DEF Effect
    <3>6. ~(sent[t] > 0) /\ ~(Believed(s, t) \notin Final)
      BY <2>1, <3>1, <3>5 DEF Proceeds
    <3> QED
      BY <2>2, <3>5, <3>6 DEF Proceeds
  <2> QED
    BY <2>3, <2>4, NextEffect
<1> QED
  BY <1>1, <1>2

\* A payment of what the backend was told is over is a lapse.
LEMMA LatePayment ==
  ASSUME TypeOK, Tidy, Grounded, [Next]_vars, NEW t \in Transfers,
         PaidOnce(t), Settled(t), sent'[t] > sent[t], told[t] # {}
  PROVE  Overtaken(t)
<1>1. PICK s \in Sessions : Effect(s, t)
  BY NextEffect DEF TypeOK, OutsideOK
<1>2. sent'[t] # sent[t]
  BY DEF TypeOK, OutsideOK
<1>3. Pays(s, t) \/ Sends(s, t)
  BY <1>1, <1>2 DEF Effect, Passes, Creates, Provides, Proceeds, Begins
<1>4. sent[t] = 0
  BY <1>3 DEF Pays, Sends, PaidOnce
<1>5. status[t] \in Final
  BY <1>4 DEF Settled
<1>6. Pays(s, t)
  BY <1>3, <1>5 DEF Sends, Exists, Final
<1>7. Executes(s, t) /\ sess'[s] # sess[s]
  BY <1>6 DEF Pays, Executes
<1>8. On(s, t) /\ Believed(s, t) = "signing"
  BY <1>7 DEF Executes, On, Believed
<1> QED
  BY <1>2, <1>5, <1>7, <1>8 DEF Overtaken, Changes, Final

-----------------------------------------------------------------------------
(* The theorems *)

LapsesOK == lapses \in [Transfers -> SUBSET {"overtaken", "orphaned", "half_told"}]

LapseInv ==
  /\ TypeOK /\ Tidy /\ Grounded /\ LapsesOK
  /\ \A t \in Transfers : Unlapsed(t) => PaidOnce(t)
  /\ \A t \in Transfers : lapses[t] = {} => Settled(t)

\* It starts true.
LEMMA LapseInvInit == LapseInit => LapseInv
<1> SUFFICES ASSUME LapseInit PROVE LapseInv
  OBVIOUS
<1>1. TypeOK /\ Tidy /\ Grounded
  BY InitTyped, TidyInit, GroundedInit DEF LapseInit
<1>2. ASSUME NEW t \in Transfers PROVE LapsesOK /\ PaidOnce(t) /\ Settled(t)
  BY DEF LapseInit, Init, IdleSession, LapsesOK, PaidOnce, Settled, Executes
<1>3. LapsesOK
  BY DEF LapseInit, LapsesOK
<1> QED
  BY <1>1, <1>2, <1>3 DEF LapseInv

\* Every step keeps it.
LEMMA LapseInvNext == LapseInv /\ [LapseNext]_lapseVars => LapseInv'
<1> SUFFICES ASSUME LapseInv, [LapseNext]_lapseVars PROVE LapseInv'
  OBVIOUS
<1>1. [Next]_vars
  BY DEF LapseNext, lapseVars
<1>2. TypeOK' /\ Tidy' /\ Grounded'
  BY <1>1, TidyNext, GroundedNext, StepTyped, RequestTyped, FailureTyped, OutsideTyped,
     StutterTyped DEF LapseInv, Next
<1>3. CASE LapseNext
  <2>1. lapses' = [t \in Transfers |-> lapses[t] \cup NewLapses(t)]
    BY <1>3 DEF LapseNext
  <2>2. LapsesOK'
    BY <2>1 DEF LapseInv, LapsesOK, NewLapses
  <2>3. ASSUME NEW t \in Transfers, Unlapsed(t)' PROVE PaidOnce(t)'
    BY <1>1, <2>1, <2>3, NoLapse, PaidOnceNext DEF LapseInv, LapsesOK
  <2>4. ASSUME NEW t \in Transfers, lapses'[t] = {} PROVE Settled(t)'
    BY <1>1, <2>1, <2>4, NoLapse, SettledNext DEF LapseInv, LapsesOK
  <2> QED
    BY <1>2, <2>2, <2>3, <2>4 DEF LapseInv
<1>4. CASE UNCHANGED lapseVars
  <2>1. UNCHANGED <<status, sess, sent, told, lapses>>
    BY <1>4 DEF lapseVars, vars, rows, provider
  <2>2. LapsesOK' /\ \A t \in Transfers : (Unlapsed(t)' <=> Unlapsed(t))
    BY <2>1 DEF LapseInv, LapsesOK, Unlapsed
  <2>3. \A t \in Transfers : (PaidOnce(t)' <=> PaidOnce(t)) /\ (Settled(t)' <=> Settled(t))
    BY <2>1 DEF PaidOnce, Settled, Executes
  <2> QED
    BY <1>2, <2>1, <2>2, <2>3 DEF LapseInv
<1> QED
  BY <1>3, <1>4

LEMMA LapseInvAlways == LapseSpec => []LapseInv
  BY LapseInvInit, LapseInvNext, PTL DEF LapseSpec

(* Whatever the stimuli, the workers and the order of events: a transfer becomes
   two transactions at Fireblocks only after a session acted on a row that had
   changed since it was loaded, or a payout was created over a direct transaction
   without a row (broker/consumer.py:257-297, dao/transfer.py:477-494). *)
THEOREM DoublePaymentTakesLapse == LapseSpec => []PaidTwiceOnlyAfterLapse
<1>1. LapseInv => PaidTwiceOnlyAfterLapse
  BY DEF LapseInv, TypeOK, OutsideOK, PaidOnce, Unlapsed, PaidTwiceOnlyAfterLapse
<1> QED
  BY <1>1, LapseInvAlways, PTL

(* A payout the backend was told is over is sent to Fireblocks only after such a
   lapse, or after a verdict that was told and not committed (dao/transfer.py:553-554
   before api/transfer.py:865, broker/consumer.py:257-297). *)
THEOREM LatePaymentTakesLapse == LapseSpec => RefusedPaidOnlyAfterLapse
<1> DEFINE A == \A t \in Transfers :
                  sent'[t] > sent[t] /\ told[t] # {} => lapses'[t] # {}
<1>1. LapseInv /\ [LapseNext]_lapseVars => [A]_lapseVars
  <2> SUFFICES ASSUME LapseInv, LapseNext, NEW t \in Transfers,
                      sent'[t] > sent[t], told[t] # {}, lapses'[t] = {}
               PROVE  FALSE
    BY Zenon
  <2>1. [Next]_vars /\ lapses' = [u \in Transfers |-> lapses[u] \cup NewLapses(u)]
    BY DEF LapseNext
  <2>2. lapses[t] = {} /\ ~Overtaken(t)
    BY <2>1, NoLapse DEF LapseInv, LapsesOK
  <2>3. PaidOnce(t) /\ Settled(t)
    BY <2>2 DEF LapseInv, Unlapsed
  <2> QED
    BY <2>1, <2>2, <2>3, LatePayment DEF LapseInv
<1>2. [A]_lapseVars <=>
        [\A t \in Transfers :
           sent'[t] > sent[t] /\ told[t] # {} => lapses'[t] # {}]_lapseVars
  OBVIOUS
<1> HIDE DEF A
<1> QED
  BY <1>1, <1>2, LapseInvAlways, PTL DEF LapseSpec, RefusedPaidOnlyAfterLapse
=============================================================================
