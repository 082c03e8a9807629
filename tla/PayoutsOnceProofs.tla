------------------------- MODULE PayoutsOnceProofs -------------------------
(***************************************************************************)
(* Theorems about Payouts that hold under some stimuli only: the stimuli   *)
(* they exclude are the assumptions of each theorem, and the README says   *)
(* what happens with them.                                                 *)
(***************************************************************************)
EXTENDS PayoutsProofs

(* What holds of the record of session s, whatever the stimuli: it has the
   operations the stimuli allow, transfers to do only while a queue is worked,
   and a transfer it has taken from that list is not on the list any more.  An
   approval has found a wallet: a transfer is created pending_approval together
   with its reservation. *)
TidyRecord(s, r) ==
  /\ r.todo # {} => r.op \in {"queue", "sync_queue", "sync_publish"}
  /\ r.op = "sync_publish" => r.req \notin r.todo
  /\ r.op \in SyncOps => s \in Workers
  /\ r.op = "sync_read" => "sync" \in Stimuli
  /\ r.op = "queue" => "queue" \in Stimuli
  /\ r.op \in SentKinds => r.op \in Stimuli
  /\ r.op = "approve" => r.src # None

Tidy ==
  /\ \A s \in Sessions : TidyRecord(s, sess[s])
  /\ \A t \in Transfers : status[t] = "pending_approval" => wallet[t] # None

(* How session record r carries transfer t towards Fireblocks. *)
Carriers == {"publish", "sync_publish"} \cup ApprovedOps

CarryOf(r, t) ==
  IF t \in r.todo THEN "todo"
  ELSE IF r.op \in Carriers /\ r.req = t THEN r.op
  ELSE "none"

Carry(s, t) == CarryOf(sess[s], t)

Fresh == Approvable \cup {"absent"}
AtProvider == {"execute", "executed", "exec_failed"}

(* A transfer is on its way in one place: a session, transfer.created or
   transfer.approved.  While it waits in the database it is in none of them, or
   on the list of the worker; once it is signed its status lets no consumer
   begin again. *)
InOnePlace(t) ==
  /\ \A s, z \in Sessions : Carry(s, t) # "none" /\ Carry(z, t) # "none" => s = z
  /\ \A s \in Sessions :
       Carry(s, t) # "none" => t \notin createdQ /\ t \notin approvedQ
  /\ ~(t \in createdQ /\ t \in approvedQ)

NotStarted(t) ==
  /\ status[t] = "absent" =>
       /\ t \notin createdQ /\ t \notin approvedQ /\ sent[t] = 0
       /\ \A s \in Sessions : Carry(s, t) = "none"
  /\ status[t] = "pending_balance" =>
       /\ t \notin createdQ /\ t \notin approvedQ
       /\ \A s \in Sessions : Carry(s, t) \in {"none", "todo"}

NotAgain(t) ==
  /\ \A s \in Sessions : Carry(s, t) \in AtProvider => status[t] \notin Fresh
  /\ sent[t] <= 1
  /\ sent[t] > 0 =>
       /\ status[t] \notin Fresh /\ t \notin createdQ
       /\ \A s \in Sessions : Carry(s, t) \in {"none", "executed", "exec_failed"}

Once(t) == InOnePlace(t) /\ NotStarted(t) /\ NotAgain(t)

OnceInv == TypeOK /\ Tidy /\ \A t \in Transfers : Once(t)

-----------------------------------------------------------------------------
(* What the steps do to the record of a session. *)

OthersKept(s) == \A z \in Sessions \ {s} : sess'[z] = sess[z]

(* A step of session s takes transfer t from one way of carrying it to another,
   and touches no other. *)
Moved(s, t, from, to) ==
  /\ Carry(s, t) = from /\ Carry(s, t)' = to
  /\ \A u \in Transfers \ {t} : Carry(s, u)' = Carry(s, u)
  /\ \A z \in Sessions \ {s}, u \in Transfers : Carry(z, u)' = Carry(z, u)

\* Nobody carries more than before.
NoneAdded ==
  \A z \in Sessions, u \in Transfers : Carry(z, u)' \in {Carry(z, u), "none"}

LEMMA Recorded ==
  ASSUME TypeOK, NEW s \in Sessions, NEW r \in Session, sess' = [sess EXCEPT ![s] = r]
  PROVE  /\ sess'[s] = r /\ OthersKept(s)
         /\ \A u \in Transfers : Carry(s, u)' = CarryOf(r, u)
         /\ \A z \in Sessions \ {s}, u \in Transfers : Carry(z, u)' = Carry(z, u)
<1>1. sess'[s] = r /\ OthersKept(s)
  BY DEF TypeOK, SessionsOK, OthersKept
<1> QED
  BY <1>1 DEF Carry, CarryOf, OthersKept

\* The record of a session that has ended.
LEMMA IdleIsTidy ==
  ASSUME NEW s \in Sessions
  PROVE  /\ TidyRecord(s, IdleSession)
         /\ \A u \in Transfers : CarryOf(IdleSession, u) = "none"
  BY DEF IdleSession, TidyRecord, CarryOf, Carriers, ApprovedOps, SyncOps, SentKinds

LEMMA ClosedTidy ==
  ASSUME TypeOK, NEW s \in Sessions, Close(s)
  PROVE  /\ TidyRecord(s, sess'[s]) /\ OthersKept(s) /\ NoneAdded
         /\ \A u \in Transfers : Carry(s, u)' = "none"
<1>1. /\ sess'[s] = IdleSession /\ OthersKept(s)
      /\ \A u \in Transfers : Carry(s, u)' = CarryOf(IdleSession, u)
      /\ \A z \in Sessions \ {s}, u \in Transfers : Carry(z, u)' = Carry(z, u)
  BY IdleIsSession, Recorded DEF Close
<1> QED
  BY <1>1, IdleIsTidy DEF NoneAdded

\* A session that is about to begin carries nothing.
LEMMA IdleCarriesNothing ==
  ASSUME TypeOK, Tidy, NEW s \in Sessions,
         sess[s].op \in {"idle", "sync_read", "sync_select"}
  PROVE  sess[s].todo = {} /\ \A u \in Transfers : Carry(s, u) = "none"
<1>1. sess[s].todo = {}
  BY DEF Tidy, TidyRecord
<1> QED
  BY <1>1 DEF Carry, CarryOf, Carriers, ApprovedOps

LEMMA OpenedTidy ==
  ASSUME TypeOK, Tidy, NEW s \in Sessions, NEW t \in Transfers,
         NEW o \in {"approved", "rejected"} \cup Endpoints \cup Events,
         Open(s, o, t), o = "approve" => wallet[t] # None
  PROVE  /\ TidyRecord(s, sess'[s]) /\ OthersKept(s)
         /\ o # "approved" => NoneAdded
         /\ o = "approved" => Moved(s, t, "none", "approved")
<1> DEFINE r == [IdleSession EXCEPT !.op = o, !.req = t,
                                    !.seen = status[t], !.src = wallet[t]]
<1>1. /\ r \in Session /\ r.op = o /\ r.req = t /\ r.src = wallet[t] /\ r.todo = {}
  BY IdleIsSession
     DEF Session, TypeOK, RowsOK, Ops, ApprovedOps, IdleSession
<1>2. sess' = [sess EXCEPT ![s] = r]
  BY DEF Open
<1> HIDE DEF r
<1>3. /\ sess'[s] = r /\ OthersKept(s)
      /\ \A u \in Transfers : Carry(s, u)' = CarryOf(r, u)
      /\ \A z \in Sessions \ {s}, u \in Transfers : Carry(z, u)' = Carry(z, u)
  BY <1>1, <1>2, Recorded
<1>4. TidyRecord(s, r)
  BY <1>1 DEF TidyRecord, SyncOps, SentKinds, Endpoints, Events
<1>5. \A u \in Transfers : CarryOf(r, u) = IF o = "approved" /\ u = t THEN o ELSE "none"
  BY <1>1 DEF CarryOf, Carriers, ApprovedOps, Endpoints, Events
<1>6. \A u \in Transfers : Carry(s, u) = "none"
  BY IdleCarriesNothing DEF Open
<1> QED
  BY <1>3, <1>4, <1>5, <1>6 DEF NoneAdded, Moved

LEMMA AdvancedTidy ==
  ASSUME TypeOK, Tidy, NEW s \in Sessions, NEW t \in Transfers, sess[s].req = t,
         NEW from \in ApprovedOps, NEW to \in ApprovedOps, sess[s].op = from,
         Advance(s, to)
  PROVE  TidyRecord(s, sess'[s]) /\ OthersKept(s) /\ Moved(s, t, from, to)
<1> DEFINE r == [sess[s] EXCEPT !.op = to]
<1>1. /\ r \in Session /\ r.op = to /\ r.req = t /\ r.todo = sess[s].todo
  BY DEF Session, TypeOK, SessionsOK, Ops
<1>2. sess' = [sess EXCEPT ![s] = r]
  BY DEF Advance
<1> HIDE DEF r
<1>3. /\ sess'[s] = r /\ OthersKept(s)
      /\ \A u \in Transfers : Carry(s, u)' = CarryOf(r, u)
      /\ \A z \in Sessions \ {s}, u \in Transfers : Carry(z, u)' = Carry(z, u)
  BY <1>1, <1>2, Recorded
<1>4. sess[s].todo = {}
  BY DEF Tidy, TidyRecord, ApprovedOps
<1>5. TidyRecord(s, r)
  BY <1>1, <1>4 DEF TidyRecord, SyncOps, SentKinds, ApprovedOps
<1>6. CarryOf(r, t) = to /\ \A u \in Transfers \ {t} : CarryOf(r, u) = "none"
  BY <1>1, <1>4 DEF CarryOf, Carriers
<1>7. Carry(s, t) = from /\ \A u \in Transfers \ {t} : Carry(s, u) = "none"
  BY <1>4 DEF CarryOf, Carry, Carriers
<1>8. Moved(s, t, from, to)
  BY <1>3, <1>6, <1>7 DEF Moved
<1> QED
  BY <1>3, <1>5, <1>8

LEMMA CreateReservedTidy ==
  ASSUME TypeOK, Tidy, NEW s \in Sessions, NEW t \in Transfers, CreateReserved(s, t)
  PROVE  /\ TidyRecord(s, sess'[s]) /\ OthersKept(s)
         /\ Moved(s, t, "none", "publish")
<1> DEFINE r == [sess[s] EXCEPT !.op = "publish", !.req = t]
<1>1. /\ r \in Session /\ r.op = "publish" /\ r.req = t /\ r.todo = sess[s].todo
  BY DEF Session, TypeOK, SessionsOK, Ops
<1>2. sess' = [sess EXCEPT ![s] = r]
  BY DEF CreateReserved, TypeOK, SessionsOK
<1> HIDE DEF r
<1>3. /\ sess'[s] = r /\ OthersKept(s)
      /\ \A u \in Transfers : Carry(s, u)' = CarryOf(r, u)
      /\ \A z \in Sessions \ {s}, u \in Transfers : Carry(z, u)' = Carry(z, u)
  BY <1>1, <1>2, Recorded
<1>4. sess[s].todo = {} /\ \A u \in Transfers : Carry(s, u) = "none"
  BY IdleCarriesNothing DEF CreateReserved
<1>5. TidyRecord(s, r)
  BY <1>1, <1>4 DEF TidyRecord, SyncOps, SentKinds
<1>6. \A u \in Transfers : CarryOf(r, u) = IF u = t THEN "publish" ELSE "none"
  BY <1>1, <1>4 DEF CarryOf, Carriers
<1> QED
  BY <1>3, <1>4, <1>5, <1>6 DEF Moved

LEMMA CreateSendTidy ==
  ASSUME TypeOK, Tidy, NEW s \in Sessions, NEW t \in Transfers, NEW k \in SentKinds,
         NEW w \in Wallets, CreateSend(s, t, k, w)
  PROVE  TidyRecord(s, sess'[s]) /\ OthersKept(s) /\ NoneAdded
<1> DEFINE r == [sess[s] EXCEPT !.op = k, !.req = t, !.src = w]
<1>1. /\ r \in Session /\ r.op = k /\ r.req = t /\ r.todo = sess[s].todo
  BY DEF Session, TypeOK, SessionsOK, Ops
<1>2. sess' = [sess EXCEPT ![s] = r]
  BY DEF CreateSend, TypeOK, SessionsOK
<1> HIDE DEF r
<1>3. /\ sess'[s] = r /\ OthersKept(s)
      /\ \A u \in Transfers : Carry(s, u)' = CarryOf(r, u)
      /\ \A z \in Sessions \ {s}, u \in Transfers : Carry(z, u)' = Carry(z, u)
  BY <1>1, <1>2, Recorded
<1>4. sess[s].todo = {} /\ \A u \in Transfers : Carry(s, u) = "none"
  BY IdleCarriesNothing DEF CreateSend
<1>5. k \in Stimuli
  BY DEF CreateSend
<1>6. TidyRecord(s, r)
  BY <1>1, <1>4, <1>5 DEF TidyRecord, SyncOps, SentKinds
<1>7. \A u \in Transfers : CarryOf(r, u) = "none"
  BY <1>1, <1>4 DEF CarryOf, Carriers, ApprovedOps, SentKinds
<1> QED
  BY <1>3, <1>4, <1>6, <1>7 DEF NoneAdded

LEMMA SyncReadTidy ==
  ASSUME TypeOK, Tidy, NEW s \in Sessions, SyncRead(s)
  PROVE  TidyRecord(s, sess'[s]) /\ OthersKept(s) /\ NoneAdded
<1> DEFINE r == [sess[s] EXCEPT !.op = "sync_read", !.bal = balance]
<1>1. /\ r \in Session /\ r.op = "sync_read" /\ r.todo = sess[s].todo
  BY DEF Session, TypeOK, SessionsOK, Ops, SyncOps
<1>2. sess' = [sess EXCEPT ![s] = r]
  BY DEF SyncRead, TypeOK, SessionsOK
<1> HIDE DEF r
<1>3. /\ sess'[s] = r /\ OthersKept(s)
      /\ \A u \in Transfers : Carry(s, u)' = CarryOf(r, u)
      /\ \A z \in Sessions \ {s}, u \in Transfers : Carry(z, u)' = Carry(z, u)
  BY <1>1, <1>2, Recorded
<1>4. s \in Workers /\ "sync" \in Stimuli /\ sess[s].todo = {}
  BY IdleCarriesNothing DEF SyncRead
<1>5. TidyRecord(s, r)
  BY <1>1, <1>4 DEF TidyRecord, SyncOps, SentKinds
<1>6. \A u \in Transfers : CarryOf(r, u) = "none"
  BY <1>1, <1>4 DEF CarryOf, Carry, Carriers, ApprovedOps
<1> QED
  BY <1>3, <1>4, <1>5, <1>6 DEF NoneAdded, Moved

LEMMA SyncWriteTidy ==
  ASSUME TypeOK, Tidy, NEW s \in Sessions, SyncWrite(s)
  PROVE  TidyRecord(s, sess'[s]) /\ OthersKept(s) /\ NoneAdded
<1> DEFINE r == [IdleSession EXCEPT !.op = "sync_select"]
<1>1. /\ r \in Session /\ r.op = "sync_select" /\ r.todo = {}
  BY IdleIsSession DEF Session, Ops, SyncOps, IdleSession
<1>2. sess' = [sess EXCEPT ![s] = r]
  BY DEF SyncWrite
<1> HIDE DEF r
<1>3. /\ sess'[s] = r /\ OthersKept(s)
      /\ \A u \in Transfers : Carry(s, u)' = CarryOf(r, u)
      /\ \A z \in Sessions \ {s}, u \in Transfers : Carry(z, u)' = Carry(z, u)
  BY <1>1, <1>2, Recorded
<1>4. s \in Workers
  BY DEF SyncWrite, Tidy, TidyRecord, SyncOps
<1>5. TidyRecord(s, r)
  BY <1>1, <1>4 DEF TidyRecord, SyncOps, SentKinds
<1>6. \A u \in Transfers : CarryOf(r, u) = "none"
  BY <1>1, <1>4 DEF CarryOf, Carry, Carriers, ApprovedOps
<1> QED
  BY <1>3, <1>4, <1>5, <1>6 DEF NoneAdded, Moved

\* The list of the worker: all transfers on it wait.
LEMMA SyncSelectTidy ==
  ASSUME TypeOK, Tidy, NEW s \in Sessions, SyncSelect(s)
  PROVE  /\ TidyRecord(s, sess'[s]) /\ OthersKept(s)
         /\ \A u \in Transfers :
              /\ Carry(s, u) = "none"
              /\ Carry(s, u)' # "none" =>
                   Carry(s, u)' = "todo" /\ status[u] = "pending_balance"
         /\ \A z \in Sessions \ {s}, u \in Transfers : Carry(z, u)' = Carry(z, u)
<1> DEFINE r == [sess[s] EXCEPT !.op = "sync_queue", !.todo = Oldest(SyncLimit)]
<1>1. /\ r \in Session /\ r.op = "sync_queue" /\ r.todo \subseteq Waiting
  BY DEF Session, TypeOK, SessionsOK, Ops, SyncOps, Oldest, Waiting
<1>2. sess' = [sess EXCEPT ![s] = r]
  BY DEF SyncSelect, TypeOK, SessionsOK
<1> HIDE DEF r
<1>3. /\ sess'[s] = r /\ OthersKept(s)
      /\ \A u \in Transfers : Carry(s, u)' = CarryOf(r, u)
      /\ \A z \in Sessions \ {s}, u \in Transfers : Carry(z, u)' = Carry(z, u)
  BY <1>1, <1>2, Recorded
<1>4. s \in Workers /\ \A u \in Transfers : Carry(s, u) = "none"
  BY IdleCarriesNothing DEF SyncSelect, Tidy, TidyRecord, SyncOps
<1>5. TidyRecord(s, r)
  BY <1>1, <1>4 DEF TidyRecord, SyncOps, SentKinds
<1>6. \A u \in Transfers : CarryOf(r, u) # "none" =>
                                CarryOf(r, u) = "todo" /\ status[u] = "pending_balance"
  BY <1>1 DEF CarryOf, Carriers, ApprovedOps, Waiting
<1> QED
  BY <1>3, <1>4, <1>5, <1>6 DEF NoneAdded, Moved

LEMMA BeginQueueTidy ==
  ASSUME TypeOK, Tidy, NEW s \in Sessions, BeginQueue(s)
  PROVE  TidyRecord(s, sess'[s]) /\ OthersKept(s)
<1> DEFINE r == [sess[s] EXCEPT !.op = "queue", !.todo = Oldest(QueueLimit)]
<1>1. /\ r \in Session /\ r.op = "queue"
  BY DEF Session, TypeOK, SessionsOK, Ops, Oldest, Waiting
<1>2. sess' = [sess EXCEPT ![s] = r]
  BY DEF BeginQueue, TypeOK, SessionsOK
<1> HIDE DEF r
<1>3. /\ sess'[s] = r /\ OthersKept(s)
      /\ \A u \in Transfers : Carry(s, u)' = CarryOf(r, u)
      /\ \A z \in Sessions \ {s}, u \in Transfers : Carry(z, u)' = Carry(z, u)
  BY <1>1, <1>2, Recorded
<1>4. "queue" \in Stimuli
  BY DEF BeginQueue
<1>5. TidyRecord(s, r)
  BY <1>1, <1>4 DEF TidyRecord, SyncOps, SentKinds
<1> QED
  BY <1>3, <1>5

LEMMA LeftWaitingTidy ==
  ASSUME TypeOK, Tidy, NEW s \in Sessions, NEW t \in Transfers, LeftWaiting(s, t)
  PROVE  TidyRecord(s, sess'[s]) /\ OthersKept(s) /\ NoneAdded
<1> DEFINE r == [sess[s] EXCEPT !.todo = @ \ {t}]
<1>1. /\ r \in Session /\ r.op = sess[s].op /\ r.todo = sess[s].todo \ {t}
  BY DEF Session, TypeOK, SessionsOK
<1>2. sess' = [sess EXCEPT ![s] = r]
  BY DEF LeftWaiting, TypeOK, SessionsOK
<1> HIDE DEF r
<1>3. /\ sess'[s] = r /\ OthersKept(s)
      /\ \A u \in Transfers : Carry(s, u)' = CarryOf(r, u)
      /\ \A z \in Sessions \ {s}, u \in Transfers : Carry(z, u)' = Carry(z, u)
  BY <1>1, <1>2, Recorded
<1>4. TidyRecord(s, sess[s]) /\ sess[s].op \in {"queue", "sync_queue"}
  BY DEF LeftWaiting, Tidy
<1>5. TidyRecord(s, r)
  BY <1>1, <1>4 DEF TidyRecord, SyncOps, SentKinds
<1>6. \A u \in Transfers : CarryOf(r, u) \in {Carry(s, u), "none"}
  BY <1>1, <1>4 DEF CarryOf, Carry, Carriers, ApprovedOps
<1> QED
  BY <1>3, <1>4, <1>5, <1>6 DEF NoneAdded, Moved

LEMMA SyncReserveTidy ==
  ASSUME TypeOK, Tidy, NEW s \in Sessions, NEW t \in Transfers, SyncReserve(s, t)
  PROVE  /\ TidyRecord(s, sess'[s]) /\ OthersKept(s)
         /\ Moved(s, t, "todo", "sync_publish")
<1> DEFINE r == [sess[s] EXCEPT !.op = "sync_publish", !.req = t, !.todo = @ \ {t}]
<1>1. /\ r \in Session /\ r.op = "sync_publish" /\ r.req = t
      /\ r.todo = sess[s].todo \ {t}
  BY DEF Session, TypeOK, SessionsOK, Ops, SyncOps
<1>2. sess' = [sess EXCEPT ![s] = r]
  BY DEF SyncReserve, TypeOK, SessionsOK
<1> HIDE DEF r
<1>3. /\ sess'[s] = r /\ OthersKept(s)
      /\ \A u \in Transfers : Carry(s, u)' = CarryOf(r, u)
      /\ \A z \in Sessions \ {s}, u \in Transfers : Carry(z, u)' = Carry(z, u)
  BY <1>1, <1>2, Recorded
<1>4. TidyRecord(s, sess[s]) /\ sess[s].op = "sync_queue" /\ t \in sess[s].todo
  BY DEF SyncReserve, Tidy, Turn
<1>5. TidyRecord(s, r)
  BY <1>1, <1>4 DEF TidyRecord, SyncOps, SentKinds
<1>6. /\ Carry(s, t) = "todo" /\ CarryOf(r, t) = "sync_publish"
      /\ \A u \in Transfers \ {t} : CarryOf(r, u) = Carry(s, u)
  BY <1>1, <1>4 DEF CarryOf, Carry, Carriers, ApprovedOps
<1> QED
  BY <1>3, <1>4, <1>5, <1>6 DEF NoneAdded, Moved

LEMMA SyncPublishTidy ==
  ASSUME TypeOK, Tidy, NEW s \in Sessions, NEW t \in Transfers, SyncPublish(s), t = sess[s].req
  PROVE  /\ TidyRecord(s, sess'[s]) /\ OthersKept(s)
         /\ Moved(s, t, "sync_publish", "none")
<1> DEFINE r == [sess[s] EXCEPT !.op = "sync_queue", !.req = None]
<1>1. /\ r \in Session /\ r.op = "sync_queue" /\ r.req = None
      /\ r.todo = sess[s].todo
  BY DEF Session, TypeOK, SessionsOK, Ops, SyncOps
<1>2. sess' = [sess EXCEPT ![s] = r]
  BY DEF SyncPublish, TypeOK, SessionsOK
<1> HIDE DEF r
<1>3. /\ sess'[s] = r /\ OthersKept(s)
      /\ \A u \in Transfers : Carry(s, u)' = CarryOf(r, u)
      /\ \A z \in Sessions \ {s}, u \in Transfers : Carry(z, u)' = Carry(z, u)
  BY <1>1, <1>2, Recorded
<1>4. /\ TidyRecord(s, sess[s]) /\ sess[s].op = "sync_publish"
      /\ t \notin sess[s].todo
  BY DEF SyncPublish, Tidy, TidyRecord
<1>5. TidyRecord(s, r)
  BY <1>1, <1>4 DEF TidyRecord, SyncOps, SentKinds
<1>6. /\ Carry(s, t) = "sync_publish" /\ CarryOf(r, t) = "none"
      /\ \A u \in Transfers \ {t} : CarryOf(r, u) = Carry(s, u)
  BY <1>1, <1>4 DEF CarryOf, Carry, Carriers, ApprovedOps
<1> QED
  BY <1>3, <1>4, <1>5, <1>6 DEF NoneAdded, Moved

LEMMA QueueReserveTidy ==
  ASSUME TypeOK, Tidy, NEW s \in Sessions, NEW t \in Transfers, QueueReserve(s, t)
  PROVE  TidyRecord(s, sess'[s]) /\ OthersKept(s)
<1>1. PICK w \in Wallets :
         sess' = [sess EXCEPT ![s].todo = @ \ {t}, ![s].picked[t] = w]
  BY SetsAssumption DEF QueueReserve, Candidates, Best, Fitting
<1> DEFINE r == [sess[s] EXCEPT !.todo = @ \ {t}, !.picked[t] = w]
<1>2. r \in Session /\ sess' = [sess EXCEPT ![s] = r]
  BY <1>1 DEF Session, TypeOK, SessionsOK
<1>3. r.op = sess[s].op
  BY DEF Session, TypeOK, SessionsOK
<1>4. sess[s].op = "queue" /\ "queue" \in Stimuli
  BY DEF QueueReserve, Tidy, TidyRecord
<1> HIDE DEF r
<1>5. TidyRecord(s, r)
  BY <1>3, <1>4 DEF TidyRecord, SyncOps, SentKinds
<1> QED
  BY <1>2, <1>5, Recorded

-----------------------------------------------------------------------------
(* Tidy is an invariant, whatever the stimuli. *)

\* The row of a transfer keeps its status, or gets one no consumer begins in.
MovesOn(t) == status'[t] = status[t] \/ status'[t] \notin Fresh

LEMMA WrittenMovesOn ==
  ASSUME TypeOK, NEW s \in Sessions, NEW t \in Transfers, NEW new, new \notin Fresh,
         status' = Written(s, t, new)
  PROVE  \A u \in Transfers : MovesOn(u)
  BY DEF Written, MovesOn, TypeOK, RowsOK

LEMMA EndpointMovesOn ==
  ASSUME TypeOK, NEW s \in Sessions,
         \/ RejectTransfer(s) \/ CancelTransfer(s) \/ UpdateTransferSigning(s)
         \/ CompleteTransfer(s) \/ RejectedFinish(s) \/ WebhookFinish(s)
  PROVE  (\A u \in Transfers : MovesOn(u)) /\ wallet' = wallet
<1>1. sess[s].req \in Transfers /\ wallet' = wallet
  <2>1. sess[s].op \notin Nameless
    BY DEF RejectTransfer, CancelTransfer, UpdateTransferSigning, CompleteTransfer,
           RejectedFinish, WebhookFinish, Nameless, Events
  <2> QED
    BY <2>1, Working
       DEF TypeOK, RejectTransfer, CancelTransfer, UpdateTransferSigning,
           CompleteTransfer, RejectedFinish, WebhookFinish
<1>2. PICK t \in Transfers : t = sess[s].req
  BY <1>1
<1>3. \/ status' = status
      \/ \E new \in {"rejected", "cancelled", "signing", "completed"} :
           status' = Written(s, t, new)
      \/ \E e \in Events : status' = Written(s, t, EventStatus(e))
  BY <1>2 DEF RejectTransfer, CancelTransfer, UpdateTransferSigning, CompleteTransfer,
              RejectedFinish, WebhookFinish
<1>4. /\ {"rejected", "cancelled", "signing", "completed"} \cap Fresh = {}
      /\ \A e \in Events : EventStatus(e) \notin Fresh
  BY DEF Fresh, Approvable, Events, EventStatus
<1>5. CASE status' = status
  BY <1>1, <1>5 DEF MovesOn
<1> QED
  BY <1>1, <1>3, <1>4, <1>5, WrittenMovesOn

LEMMA ConsumerMovesOn ==
  ASSUME TypeOK, NEW s \in Sessions,
         ApprovedSign(s) \/ ApprovedDone(s) \/ ApprovedFailed(s)
  PROVE  (\A u \in Transfers : MovesOn(u)) /\ wallet' = wallet
  BY DEF ApprovedSign, ApprovedDone, ApprovedFailed, MovesOn, TypeOK, RowsOK, Fresh,
         Approvable

\* What a transfer's row says after a step keeps the last part of Tidy.
ApprovalReserved(t) == status[t] = "pending_approval" => wallet[t] # None

LEMMA RowsKept ==
  ASSUME Tidy, NEW t \in Transfers,
         status'[t] = "pending_approval" => status[t] = status'[t] /\ wallet'[t] = wallet[t]
  PROVE  ApprovalReserved(t)'
  BY DEF Tidy, ApprovalReserved

LEMMA RequestRows ==
  ASSUME TypeOK, Tidy, NEW s \in Sessions, Request(s), NEW u \in Transfers
  PROVE  ApprovalReserved(u)'
<1>1. ASSUME NEW t \in Transfers, CreateReserved(s, t) PROVE ApprovalReserved(u)'
  <2>1. PICK w \in Wallets : NewRow(t, "payout", "pending_approval", w)
    BY <1>1, SetsAssumption DEF CreateReserved, Candidates, Best, Fitting
  <2>2. /\ status' = [status EXCEPT ![t] = "pending_approval"]
        /\ wallet' = [wallet EXCEPT ![t] = w] /\ w # None
    BY <2>1, NoneAssumption DEF NewRow
  <2>3. \/ status'[u] = status[u] /\ wallet'[u] = wallet[u]
        \/ wallet'[u] = w
    BY <2>2 DEF TypeOK, RowsOK
  <2> QED
    BY <2>2, <2>3 DEF ApprovalReserved, Tidy
<1>2. ASSUME NEW t \in Transfers, CreateQueued(s, t) PROVE ApprovalReserved(u)'
  <2>1. /\ status' = [status EXCEPT ![t] = "pending_balance"]
        /\ wallet' = [wallet EXCEPT ![t] = None]
    BY <1>2 DEF CreateQueued, NewRow
  <2>2. \/ status'[u] = status[u] /\ wallet'[u] = wallet[u]
        \/ status'[u] = "pending_balance"
    BY <2>1 DEF TypeOK, RowsOK
  <2> QED
    BY <2>2, RowsKept
<1>3. CASE UNCHANGED <<status, wallet>>
  BY <1>3, RowsKept
<1> QED
  BY <1>1, <1>2, <1>3
     DEF Request, CreateSend, Call, RejectedBegin, ApprovedBegin, BeginQueue, SyncRead,
         WebhookBegin, rows

LEMMA StepRows ==
  ASSUME TypeOK, Tidy, NEW s \in Sessions, Step(s), NEW u \in Transfers
  PROVE  ApprovalReserved(u)'
<1>0. "pending_approval" \in Fresh
  BY DEF Fresh, Approvable
<1>1. CASE \/ RejectTransfer(s) \/ CancelTransfer(s) \/ UpdateTransferSigning(s)
           \/ CompleteTransfer(s) \/ RejectedFinish(s) \/ WebhookFinish(s)
           \/ ApprovedSign(s) \/ ApprovedDone(s) \/ ApprovedFailed(s)
  BY <1>0, <1>1, EndpointMovesOn, ConsumerMovesOn, RowsKept DEF MovesOn
<1>2. CASE ApproveTransfer(s)
  <2>1. sess[s].req \in Transfers
    BY <1>2, Working DEF ApproveTransfer, TypeOK, Nameless
  <2>2. \/ UNCHANGED <<status, wallet>>
        \/ \E w \in Wallets : /\ status' = [status EXCEPT ![sess[s].req] = "pending"]
                              /\ wallet' = [wallet EXCEPT ![sess[s].req] = w]
        \/ /\ status' = [status EXCEPT ![sess[s].req] = "pending_balance"]
           /\ UNCHANGED wallet
    BY <1>2, SetsAssumption DEF ApproveTransfer, Candidates, Best, Fitting
  <2>3. \/ status'[u] = status[u] /\ wallet'[u] = wallet[u]
        \/ status'[u] \in {"pending", "pending_balance"}
    BY <2>1, <2>2 DEF TypeOK, RowsOK
  <2> QED
    BY <2>3, RowsKept
<1>3. CASE CreateCommit(s)
  <2>1. sess[s].req \in Transfers
    BY <1>3, Working DEF CreateCommit, TypeOK, Nameless, SentKinds
  <2>2. \/ UNCHANGED <<status, wallet>>
        \/ /\ status' = [status EXCEPT ![sess[s].req] = SUBMITTED]
           /\ wallet' = [wallet EXCEPT ![sess[s].req] = sess[s].src]
    BY <1>3 DEF CreateCommit, NewRow, rows
  <2>3. \/ status'[u] = status[u] /\ wallet'[u] = wallet[u]
        \/ status'[u] = SUBMITTED
    BY <2>1, <2>2 DEF TypeOK, RowsOK
  <2> QED
    BY <2>3, RowsKept DEF SUBMITTED
<1>4. CASE QueueCommit(s)
  <2>1. \/ status'[u] = status[u] /\ wallet'[u] = wallet[u]
        \/ status'[u] = "pending"
    BY <1>4 DEF QueueCommit
  <2> QED
    BY <2>1, RowsKept
<1>5. ASSUME NEW t \in Transfers, SyncReserve(s, t) PROVE ApprovalReserved(u)'
  <2>1. \E w \in Wallets : /\ status' = [status EXCEPT ![t] = "pending"]
                           /\ wallet' = [wallet EXCEPT ![t] = w]
    BY <1>5, SetsAssumption DEF SyncReserve, Candidates, Best, Fitting
  <2>2. \/ status'[u] = status[u] /\ wallet'[u] = wallet[u]
        \/ status'[u] = "pending"
    BY <2>1 DEF TypeOK, RowsOK
  <2> QED
    BY <2>2, RowsKept
<1>6. CASE UNCHANGED <<status, wallet>>
  BY <1>6, RowsKept
<1> QED
  BY <1>1, <1>2, <1>3, <1>4, <1>5, <1>6
     DEF Step, PublishCreated, ExecuteTx, ExecuteRefused, ExecuteReplyLost,
         QueueReserve, LeftWaiting, SyncWrite, SyncSelect, SyncPublish, SyncEnd, rows

LEMMA RequestTidy ==
  ASSUME TypeOK, Tidy, NEW s \in Sessions, Request(s)
  PROVE  TidyRecord(s, sess'[s]) /\ OthersKept(s)
<1>1. ASSUME NEW t \in Transfers, CreateQueued(s, t)
      PROVE  TidyRecord(s, sess'[s]) /\ OthersKept(s)
  BY <1>1 DEF CreateQueued, OthersKept, Tidy
<1>2. ASSUME NEW t \in Transfers, NEW o \in Endpoints, Call(s, o, t)
      PROVE  TidyRecord(s, sess'[s]) /\ OthersKept(s)
  <2>1. o = "approve" => wallet[t] # None
    BY <1>2 DEF Call, Accepts, AcceptedIn, Tidy
  <2> QED
    BY <1>2, <2>1, OpenedTidy DEF Call
<1>3. ASSUME NEW t \in Transfers, RejectedBegin(s, t) \/ ApprovedBegin(s, t)
      PROVE  TidyRecord(s, sess'[s]) /\ OthersKept(s)
  BY <1>3, OpenedTidy DEF RejectedBegin, ApprovedBegin, Consume
<1>4. ASSUME NEW t \in Transfers, NEW e \in Events, WebhookBegin(s, t, e)
      PROVE  TidyRecord(s, sess'[s]) /\ OthersKept(s)
  BY <1>4, OpenedTidy DEF WebhookBegin, Events
<1> QED
  BY <1>1, <1>2, <1>3, <1>4, CreateReservedTidy, CreateSendTidy, BeginQueueTidy,
     SyncReadTidy DEF Request

LEMMA AdvanceTidy ==
  ASSUME TypeOK, Tidy, NEW s \in Sessions,
         \/ ApprovedSign(s) \/ ExecuteTx(s) \/ ExecuteRefused(s) \/ ExecuteReplyLost(s)
  PROVE  TidyRecord(s, sess'[s]) /\ OthersKept(s)
<1>1. /\ sess[s].op \in ApprovedOps
      /\ \E to \in ApprovedOps : Advance(s, to)
  BY DEF ApprovedSign, ExecuteTx, ExecuteRefused, ExecuteReplyLost, ApprovedOps
<1>2. PICK t \in Transfers : t = sess[s].req
  BY <1>1, Working DEF TypeOK, ApprovedOps, Nameless
<1> QED
  BY <1>1, <1>2, AdvancedTidy

LEMMA StepTidy ==
  ASSUME TypeOK, Tidy, NEW s \in Sessions, Step(s)
  PROVE  TidyRecord(s, sess'[s]) /\ OthersKept(s)
<1>1. CASE Close(s)
  BY <1>1, ClosedTidy
<1>2. CASE SyncPublish(s)
  <2>1. PICK t \in Transfers : t = sess[s].req
    BY <1>2, Working DEF SyncPublish, TypeOK, Nameless
  <2> QED
    BY <1>2, <2>1, SyncPublishTidy
<1>3. CASE ApprovedSign(s) \/ ExecuteTx(s) \/ ExecuteRefused(s) \/ ExecuteReplyLost(s)
  BY <1>3, AdvanceTidy
<1>4. CASE \/ \E t \in Transfers :
                QueueReserve(s, t) \/ LeftWaiting(s, t) \/ SyncReserve(s, t)
           \/ SyncWrite(s) \/ SyncSelect(s)
  BY <1>4, QueueReserveTidy, LeftWaitingTidy, SyncReserveTidy, SyncWriteTidy,
     SyncSelectTidy
<1> QED
  BY <1>1, <1>2, <1>3, <1>4
     DEF Step, PublishCreated, CreateCommit, Rollback, ApproveTransfer, RejectTransfer,
         CancelTransfer, UpdateTransferSigning, CompleteTransfer, RejectedFinish,
         ApprovedDone, ApprovedFailed, QueueCommit, SyncEnd, WebhookFinish

LEMMA TidyNext == TypeOK /\ Tidy /\ [Next]_vars => Tidy'
<1> SUFFICES ASSUME TypeOK, Tidy, [Next]_vars PROVE Tidy'
  OBVIOUS
<1>1. \/ UNCHANGED sess
      \/ \E s \in Sessions : TidyRecord(s, sess'[s]) /\ OthersKept(s)
  <2>1. ASSUME NEW s \in Sessions, Failure(s)
        PROVE  UNCHANGED sess \/ (TidyRecord(s, sess'[s]) /\ OthersKept(s))
    BY <2>1, ClosedTidy DEF Failure, Abort, Crash, Redeliver, Rollback
  <2>2. CASE Outside \/ UNCHANGED vars
    BY <2>2 DEF Outside, WorkflowDecides, ApprovedDropped, ProviderReports,
                WebhookUnmatched, ResetWalletPending, vars
  <2> QED
    BY <2>1, <2>2, RequestTidy, StepTidy DEF Next
<1>2. \A s \in Sessions : TidyRecord(s, sess'[s])
  BY <1>1 DEF Tidy, OthersKept
<1>3. ASSUME NEW t \in Transfers PROVE ApprovalReserved(t)'
  <2>1. CASE UNCHANGED <<status, wallet>>
    BY <2>1, RowsKept
  <2> QED
    BY <2>1, RequestRows, StepRows
       DEF Next, Failure, Abort, Crash, Redeliver, Outside, WorkflowDecides,
           ApprovedDropped, ProviderReports, WebhookUnmatched, ResetWalletPending,
           vars, rows
<1> QED
  BY <1>2, <1>3 DEF Tidy, TidyRecord, ApprovalReserved

LEMMA TidyInit == Init => Tidy
<1> SUFFICES ASSUME Init PROVE Tidy
  OBVIOUS
<1>1. \A s \in Sessions : TidyRecord(s, sess[s])
  BY IdleIsTidy DEF Init
<1> QED
  BY <1>1 DEF Init, Tidy

LEMMA TidyAlways == Spec => [](TypeOK /\ Tidy)
<1>1. TypeOK /\ Tidy /\ [Next]_vars => TypeOK' /\ Tidy'
  BY TidyNext, StepTyped, RequestTyped, FailureTyped, OutsideTyped, StutterTyped DEF Next
<1> QED
  BY <1>1, InitTyped, TidyInit, PTL DEF Spec

-----------------------------------------------------------------------------
(* A wallet is solvent while nothing overwrites balances. *)

\* Apart from the sync task only a confirmed payment changes a balance.
LEMMA BalanceSteps ==
  ASSUME TypeOK, [Next]_vars, \A s \in Sessions : ~SyncWrite(s)
  PROVE  \/ balance' = balance
         \/ \E w \in Wallets \cup {None}, t \in Transfers : Completed(w, Amount[t])
<1>1. ASSUME NEW s \in Sessions, CompleteTransfer(s)
      PROVE  \E w \in Wallets \cup {None}, t \in Transfers : Completed(w, Amount[t])
  <2>1. sess[s].req \in Transfers /\ sess[s].src \in Wallets \cup {None}
    BY <1>1, Working DEF CompleteTransfer, TypeOK, Nameless
  <2> QED
    BY <1>1, <2>1 DEF CompleteTransfer
<1>2. ASSUME NEW s \in Sessions, WebhookFinish(s)
      PROVE  \/ balance' = balance
             \/ \E w \in Wallets \cup {None}, t \in Transfers : Completed(w, Amount[t])
  <2>1. sess[s].req \in Transfers /\ sess[s].src \in Wallets \cup {None}
    BY <1>2, Working DEF WebhookFinish, TypeOK, Nameless, Events
  <2>2. \/ EventBalance(sess[s].op, sess[s].src, Amount[sess[s].req])
        \/ UNCHANGED wallets
    BY <1>2 DEF WebhookFinish
  <2>3. \/ balance' = balance
        \/ Completed(sess[s].src, Amount[sess[s].req])
    BY <1>2, <2>2 DEF EventBalance, WebhookFinish, Events, wallets
  <2> QED
    BY <2>1, <2>3
<1>3. ASSUME NEW s \in Sessions, Step(s), ~CompleteTransfer(s), ~WebhookFinish(s)
      PROVE  balance' = balance
  BY <1>3
     DEF Step, PublishCreated, CreateCommit, ApproveTransfer, RejectTransfer,
         CancelTransfer, UpdateTransferSigning, RejectedFinish, ApprovedSign, ExecuteTx,
         ExecuteRefused, ExecuteReplyLost, ApprovedDone, ApprovedFailed, QueueReserve,
         LeftWaiting, SyncReserve, QueueCommit, SyncSelect, SyncPublish, SyncEnd, wallets
<1>4. ASSUME NEW s \in Sessions, Request(s) \/ Failure(s) PROVE balance' = balance
  BY <1>4
     DEF Request, CreateReserved, CreateQueued, CreateSend, Call, RejectedBegin,
         ApprovedBegin, BeginQueue, SyncRead, WebhookBegin, Failure, Abort, Crash,
         Redeliver, wallets
<1>5. CASE Outside \/ UNCHANGED vars
  BY <1>5
     DEF Outside, WorkflowDecides, ApprovedDropped, ProviderReports, WebhookUnmatched,
         ResetWalletPending, wallets, vars
<1> QED
  BY <1>1, <1>2, <1>3, <1>4, <1>5 DEF Next

LEMMA SolventNext ==
  ASSUME "sync" \notin Stimuli, LedgerInv, Tidy, Solvent, [Next]_vars
  PROVE  Solvent'
<1>1. \A s \in Sessions : ~SyncWrite(s)
  BY DEF SyncWrite, Tidy, TidyRecord
<1>2. \A w \in Wallets : balance[w] \in Int /\ pending[w] \in Int
  BY DEF LedgerInv, TypeOK
<1>3. LedgerInv' /\ LedgerStep
  BY NextSafe
<1>4. ASSUME NEW v \in Wallets \cup {None}, NEW t \in Transfers, Completed(v, Amount[t])
      PROVE  Solvent'
  <2>1. \A w \in Wallets :
          \/ pending'[w] = pending[w] /\ balance'[w] = balance[w]
          \/ /\ pending'[w] = pending[w] - Amount[t]
             /\ balance'[w] = balance[w] - Amount[t]
    BY <1>4 DEF Completed, wallets, LedgerInv, TypeOK
  <2> QED
    BY <1>2, <2>1, AmountsArePositive DEF Solvent
<1>5. CASE balance' = balance
  <2>1. CASE Ledger!Reserve
    BY <1>2, <2>1 DEF Ledger!Reserve, Solvent
  <2>2. ASSUME NEW v \in Wallets, NEW a \in {Amount[u] : u \in Transfers},
               Ledger!Release(v, a) \/ Ledger!Settle(v, a)
        PROVE  Solvent'
    <3>1. a \in Nat
      BY AmountsArePositive
    <3>2. pending' = [pending EXCEPT ![v] = @ - a]
      BY <2>2 DEF Ledger!Release, Ledger!Settle
    <3>3. \A w \in Wallets : pending'[w] = pending[w] \/ pending'[w] = pending[w] - a
      BY <3>2 DEF LedgerInv, TypeOK
    <3> QED
      BY <1>2, <1>5, <3>1, <3>3 DEF Solvent
  <2>3. ASSUME NEW v \in Wallets, Ledger!Forget(v) PROVE Solvent'
    <3>1. \A w \in Wallets : pending'[w] = pending[w] \/ pending'[w] = 0
      BY <2>3 DEF Ledger!Forget, LedgerInv, TypeOK
    <3> QED
      BY <1>2, <1>5, <3>1 DEF Solvent, LedgerInv, NonNegative
  <2>4. CASE UNCHANGED pending
    BY <1>5, <2>4 DEF Solvent
  <2> QED
    BY <1>3, <2>1, <2>2, <2>3, <2>4
       DEF LedgerStep, Ledger!Next, Ledger!Refresh, Ledger!ledger
<1> QED
  BY <1>1, <1>4, <1>5, BalanceSteps DEF LedgerInv

(* While the sync task does not take over lower totals from the provider, no
   handler, duplicate or failure promises more than there is on a wallet: what
   the API answers as available is never negative (dao/transfer.py:47-48, 184,
   208-215, 234-246). *)
THEOREM StaysSolvent ==
  ASSUME "sync" \notin Stimuli
  PROVE  Spec => []Solvent
<1>1. Init => Solvent
  BY TotalsAreNumbers DEF Init, Solvent
<1>2. LedgerInv /\ Tidy /\ Solvent /\ [Next]_vars => Solvent'
  BY SolventNext
<1> QED
  BY <1>1, <1>2, LedgerInductive, TidyAlways, PTL DEF Spec

-----------------------------------------------------------------------------
(* One transfer is at most one transaction. *)

\* One worker, no explicit source, and no message comes again while its callback
\* still runs.
OneAtATime ==
  /\ \A s, z \in Workers : s = z
  /\ {"queue", "redeliver"} \cap Stimuli = {}
  /\ SentKinds \cap Stimuli = {}

\* Less is carried, and the status only moves on: nothing can begin again.
LEMMA Fewer ==
  ASSUME NEW t \in Transfers, Once(t), MovesOn(t), sent'[t] = sent[t],
         \A z \in Sessions : Carry(z, t)' \in {Carry(z, t), "none"},
         t \in createdQ' => t \in createdQ, t \in approvedQ' => t \in approvedQ
  PROVE  Once(t)'
<1>1. InOnePlace(t)'
  BY DEF Once, InOnePlace
<1>2. NotStarted(t)'
  BY DEF Once, NotStarted, MovesOn, Fresh, Approvable
<1>3. NotAgain(t)'
  BY DEF Once, NotAgain, MovesOn, AtProvider
<1> QED
  BY <1>1, <1>2, <1>3 DEF Once

LEMMA FewerRest ==
  ASSUME NEW t \in Transfers, \A u \in Transfers \ {t} : Once(u), TypeOK,
         NEW s \in Sessions, NEW from, NEW to, Moved(s, t, from, to),
         \A u \in Transfers \ {t} :
           /\ MovesOn(u) /\ sent'[u] = sent[u]
           /\ u \in createdQ' => u \in createdQ
           /\ u \in approvedQ' => u \in approvedQ
  PROVE  \A u \in Transfers \ {t} : Once(u)'
<1>1. \A u \in Transfers \ {t}, z \in Sessions : Carry(z, u)' = Carry(z, u)
  BY DEF Moved
<1> QED
  BY <1>1, Fewer

\* Whoever carries a transfer is alone with it, and it has a row.
LEMMA Unique ==
  ASSUME NEW t \in Transfers, Once(t), NEW s \in Sessions, Carry(s, t) # "none"
  PROVE  /\ \A z \in Sessions \ {s} : Carry(z, t) = "none"
         /\ t \notin createdQ /\ t \notin approvedQ /\ status[t] # "absent"
         /\ Carry(s, t) # "todo" => status[t] # "pending_balance"
  BY DEF Once, InOnePlace, NotStarted

LEMMA OnceCreated ==
  ASSUME TypeOK, Tidy, \A u \in Transfers : Once(u), NEW s \in Sessions,
         NEW t \in Transfers, CreateReserved(s, t) \/ CreateQueued(s, t)
  PROVE  \A u \in Transfers : Once(u)'
<1>1. /\ status[t] = "absent" /\ sent[t] = 0 /\ t \notin createdQ /\ t \notin approvedQ
      /\ \A z \in Sessions : Carry(z, t) = "none"
  BY DEF CreateReserved, CreateQueued, Exists, Once, NotStarted
<1>2. UNCHANGED <<createdQ, approvedQ, sent>>
  BY DEF CreateReserved, CreateQueued, broker, provider
<1>3. CASE CreateReserved(s, t)
  <2>1. /\ status'[t] = "pending_approval"
        /\ \A u \in Transfers \ {t} : status'[u] = status[u]
    BY <1>3, SetsAssumption
       DEF CreateReserved, NewRow, TypeOK, RowsOK, Candidates, Best, Fitting
  <2>2. Moved(s, t, "none", "publish")
    BY <1>3, CreateReservedTidy
  <2>3. Once(t)'
    <3>1. /\ Carry(s, t)' = "publish"
          /\ \A z \in Sessions \ {s} : Carry(z, t)' = "none"
      BY <1>1, <2>2 DEF Moved
    <3> QED
      BY <1>1, <1>2, <2>1, <3>1
         DEF Once, InOnePlace, NotStarted, NotAgain, AtProvider
  <2>4. \A u \in Transfers \ {t} : Once(u)'
    BY <1>2, <2>1, <2>2, FewerRest DEF MovesOn
  <2> QED
    BY <2>3, <2>4
<1>4. CASE CreateQueued(s, t)
  <2>1. /\ status'[t] = "pending_balance"
        /\ \A u \in Transfers \ {t} : status'[u] = status[u]
    BY <1>4 DEF CreateQueued, NewRow, TypeOK, RowsOK
  <2>2. \A z \in Sessions, u \in Transfers : Carry(z, u)' = Carry(z, u)
    BY <1>4 DEF CreateQueued, Carry, CarryOf
  <2>3. Once(t)'
    BY <1>1, <1>2, <2>1, <2>2 DEF Once, InOnePlace, NotStarted, NotAgain, AtProvider
  <2>4. \A u \in Transfers \ {t} : Once(u)'
    BY <1>2, <2>1, <2>2, Fewer DEF MovesOn
  <2> QED
    BY <2>3, <2>4
<1> QED
  BY <1>3, <1>4

\* transfer.created is published by a session that carried the transfer.
LEMMA OncePublished ==
  ASSUME TypeOK, Tidy, \A u \in Transfers : Once(u), NEW s \in Sessions,
         PublishCreated(s) \/ SyncPublish(s)
  PROVE  \A u \in Transfers : Once(u)'
<1>1. PICK t \in Transfers : t = sess[s].req
  BY Working DEF PublishCreated, SyncPublish, TypeOK, Nameless
<1>2. /\ UNCHANGED <<status, sent, approvedQ>>
      /\ createdQ' \subseteq createdQ \cup {t}
  BY <1>1 DEF PublishCreated, SyncPublish, Publish, rows, provider
<1>3. /\ Carry(s, t) \in {"publish", "sync_publish"} /\ Carry(s, t)' = "none"
      /\ NoneAdded
  <2>1. CASE PublishCreated(s)
    <3>1. sess[s].todo = {} /\ sess[s].op = "publish"
      BY <2>1 DEF PublishCreated, Tidy, TidyRecord
    <3>2. Carry(s, t) = "publish"
      BY <1>1, <3>1 DEF Carry, CarryOf, Carriers
    <3> QED
      BY <2>1, <3>2, ClosedTidy DEF PublishCreated
  <2>2. CASE SyncPublish(s)
    <3>1. Moved(s, t, "sync_publish", "none")
      BY <1>1, <2>2, SyncPublishTidy
    <3>2. \A z \in Sessions, u \in Transfers : Carry(z, u)' \in {Carry(z, u), "none"}
      BY <3>1 DEF Moved
    <3> QED
      BY <3>1, <3>2 DEF Moved, NoneAdded
  <2> QED
    BY <2>1, <2>2
<1>4. Once(t)'
  <2>1. /\ \A z \in Sessions \ {s} : Carry(z, t) = "none"
        /\ t \notin approvedQ /\ status[t] \notin {"absent", "pending_balance"}
    BY <1>3, Unique
  <2>2. \A z \in Sessions : Carry(z, t)' = "none"
    BY <1>3, <2>1 DEF NoneAdded
  <2>3. sent[t] = 0
    BY <1>3 DEF Once, NotAgain, TypeOK, OutsideOK
  <2> QED
    BY <1>2, <2>1, <2>2, <2>3 DEF Once, InOnePlace, NotStarted, NotAgain, AtProvider
<1>5. \A u \in Transfers \ {t} : Once(u)'
  BY <1>2, <1>3, Fewer DEF MovesOn, NoneAdded
<1> QED
  BY <1>4, <1>5

LEMMA OnceDecided ==
  ASSUME TypeOK, \A u \in Transfers : Once(u), NEW t \in Transfers, WorkflowDecides(t)
  PROVE  \A u \in Transfers : Once(u)'
<1>1. /\ UNCHANGED <<status, sent>> /\ t \in createdQ
      /\ createdQ' = createdQ \ {t} /\ approvedQ' \subseteq approvedQ \cup {t}
      /\ \A z \in Sessions, u \in Transfers : Carry(z, u)' = Carry(z, u)
  BY DEF WorkflowDecides, rows, provider, Carry, CarryOf
<1>2. /\ \A z \in Sessions : Carry(z, t) = "none"
      /\ status[t] \notin {"absent", "pending_balance"} /\ sent[t] = 0
  BY <1>1 DEF Once, InOnePlace, NotStarted, NotAgain, TypeOK, OutsideOK
<1>3. Once(t)'
  BY <1>1, <1>2 DEF Once, InOnePlace, NotStarted, NotAgain, AtProvider
<1>4. \A u \in Transfers \ {t} : Once(u)'
  BY <1>1, Fewer DEF MovesOn
<1> QED
  BY <1>3, <1>4

LEMMA OnceBegun ==
  ASSUME TypeOK, Tidy, \A u \in Transfers : Once(u), NEW s \in Sessions,
         NEW t \in Transfers, ApprovedBegin(s, t)
  PROVE  \A u \in Transfers : Once(u)'
<1>1. /\ UNCHANGED <<status, sent, createdQ>> /\ status[t] \in Approvable
      /\ t \in approvedQ /\ approvedQ' = approvedQ \ {t}
  BY DEF ApprovedBegin, Consume, Accepts, AcceptedIn, rows, provider
<1>2. Moved(s, t, "none", "approved")
  BY OpenedTidy DEF ApprovedBegin, Consume
<1>3. /\ \A z \in Sessions : Carry(z, t) = "none"
      /\ t \notin createdQ /\ sent[t] = 0
      /\ status[t] \notin {"absent", "pending_balance"}
  BY <1>1 DEF Once, InOnePlace, NotStarted, NotAgain, Fresh, TypeOK, OutsideOK
<1>4. Once(t)'
  <2>1. /\ Carry(s, t)' = "approved"
        /\ \A z \in Sessions \ {s} : Carry(z, t)' = "none"
    BY <1>2, <1>3 DEF Moved
  <2> QED
    BY <1>1, <1>3, <2>1 DEF Once, InOnePlace, NotStarted, NotAgain, AtProvider
<1>5. \A u \in Transfers \ {t} : Once(u)'
  BY <1>1, <1>2, FewerRest DEF MovesOn
<1> QED
  BY <1>4, <1>5

\* From SIGNING on, the status keeps every other approval out.
LEMMA OnceExecuted ==
  ASSUME TypeOK, Tidy, \A u \in Transfers : Once(u), NEW s \in Sessions,
         \/ ApprovedSign(s) \/ ExecuteTx(s) \/ ExecuteRefused(s) \/ ExecuteReplyLost(s)
  PROVE  \A u \in Transfers : Once(u)'
<1>1. PICK t \in Transfers : t = sess[s].req
  BY Working DEF ApprovedSign, ExecuteTx, ExecuteRefused, ExecuteReplyLost, TypeOK,
                 Nameless
<1>2. UNCHANGED <<createdQ, approvedQ>>
  BY DEF ApprovedSign, ExecuteTx, ExecuteRefused, ExecuteReplyLost, broker
<1>3. \A u \in Transfers \ {t} : status'[u] = status[u] /\ sent'[u] = sent[u]
  BY <1>1 DEF ApprovedSign, ExecuteTx, ExecuteRefused, ExecuteReplyLost, Accept, rows,
              provider, TypeOK, RowsOK, OutsideOK
<1>4. CASE ApprovedSign(s)
  <2>1. Moved(s, t, "approved", "execute")
    BY <1>1, <1>4, AdvancedTidy DEF ApprovedSign, ApprovedOps
  <2>2. status'[t] = "signing" /\ sent' = sent
    BY <1>1, <1>4 DEF ApprovedSign, provider, TypeOK, RowsOK
  <2>3. /\ \A z \in Sessions \ {s} : Carry(z, t)' = "none"
        /\ Carry(s, t) = "approved" /\ Carry(s, t)' = "execute"
        /\ t \notin createdQ /\ t \notin approvedQ
    BY <2>1, Unique DEF Moved
  <2>4. sent[t] = 0
    BY <2>3 DEF Once, NotAgain, TypeOK, OutsideOK
  <2>5. Once(t)'
    BY <1>2, <2>2, <2>3, <2>4
       DEF Once, InOnePlace, NotStarted, NotAgain, AtProvider, Fresh, Approvable
  <2> QED
    BY <1>2, <1>3, <2>1, <2>5, FewerRest DEF MovesOn
<1>5. CASE ExecuteTx(s) \/ ExecuteRefused(s) \/ ExecuteReplyLost(s)
  <2>1. PICK to \in {"executed", "exec_failed"} : Moved(s, t, "execute", to)
    BY <1>1, <1>5, AdvancedTidy
       DEF ExecuteTx, ExecuteRefused, ExecuteReplyLost, ApprovedOps
  <2>2. status' = status /\ (sent'[t] = sent[t] \/ sent'[t] = sent[t] + 1)
    BY <1>1, <1>5 DEF ExecuteTx, ExecuteRefused, ExecuteReplyLost, Accept, rows,
                      provider, TypeOK, OutsideOK
  <2>3. /\ \A z \in Sessions \ {s} : Carry(z, t)' = "none"
        /\ Carry(s, t) = "execute" /\ Carry(s, t)' = to
        /\ t \notin createdQ /\ t \notin approvedQ
    BY <2>1, Unique DEF Moved
  <2>4. sent[t] = 0 /\ status[t] \notin Fresh
    BY <2>3 DEF Once, NotAgain, TypeOK, OutsideOK, AtProvider
  <2>5. Once(t)'
    BY <1>2, <2>2, <2>3, <2>4
       DEF Once, InOnePlace, NotStarted, NotAgain, AtProvider, Fresh, Approvable
  <2> QED
    BY <1>2, <1>3, <2>1, <2>2, <2>5, FewerRest DEF MovesOn
<1> QED
  BY <1>4, <1>5

LEMMA OnceSelected ==
  ASSUME OneAtATime, TypeOK, Tidy, \A u \in Transfers : Once(u), NEW s \in Sessions,
         SyncSelect(s)
  PROVE  \A u \in Transfers : Once(u)'
<1>1. UNCHANGED <<status, sent, createdQ, approvedQ>>
  BY DEF SyncSelect, rows, provider, broker
<1>2. s \in Workers
  BY DEF SyncSelect, Tidy, TidyRecord, SyncOps
<1>3. \A z \in Sessions \ {s}, u \in Transfers : Carry(z, u) # "todo"
  <2> SUFFICES ASSUME NEW z \in Sessions \ {s}, NEW u \in Transfers, Carry(z, u) = "todo"
               PROVE  FALSE
    OBVIOUS
  <2>1. u \in sess[z].todo
    BY DEF Carry, CarryOf, Carriers, ApprovedOps
  <2>2. sess[z].op \in SyncOps
    BY <2>1 DEF Tidy, TidyRecord, OneAtATime, SyncOps
  <2>3. z \in Workers
    BY <2>2 DEF Tidy, TidyRecord
  <2> QED
    BY <1>2, <2>3 DEF OneAtATime
<1>4. ASSUME NEW u \in Transfers PROVE Once(u)'
  <2>1. /\ Carry(s, u)' \in {"none", "todo"}
        /\ Carry(s, u)' # "none" => status[u] = "pending_balance"
        /\ \A z \in Sessions \ {s} : Carry(z, u)' = Carry(z, u)
    BY SyncSelectTidy
  <2>2. CASE Carry(s, u)' = "none"
    BY <1>1, <2>1, <2>2, Fewer DEF MovesOn
  <2>3. CASE Carry(s, u)' = "todo" /\ status[u] = "pending_balance"
    <3>1. /\ \A z \in Sessions \ {s} : Carry(z, u)' = "none"
          /\ u \notin createdQ /\ u \notin approvedQ
      BY <1>3, <2>1, <2>3 DEF Once, NotStarted
    <3>2. sent[u] = 0
      BY <2>3 DEF Once, NotAgain, Fresh, Approvable, TypeOK, OutsideOK
    <3> QED
      BY <1>1, <2>3, <3>1, <3>2
         DEF Once, InOnePlace, NotStarted, NotAgain, AtProvider
  <2> QED
    BY <2>1, <2>2, <2>3
<1> QED
  BY <1>4

LEMMA OnceReserved ==
  ASSUME TypeOK, Tidy, \A u \in Transfers : Once(u), NEW s \in Sessions,
         NEW t \in Transfers, SyncReserve(s, t)
  PROVE  \A u \in Transfers : Once(u)'
<1>1. /\ UNCHANGED <<sent, createdQ, approvedQ>> /\ status'[t] = "pending"
      /\ \A u \in Transfers \ {t} : status'[u] = status[u]
  BY DEF SyncReserve, provider, broker, TypeOK, RowsOK
<1>2. Moved(s, t, "todo", "sync_publish")
  BY SyncReserveTidy
<1>3. /\ \A z \in Sessions \ {s} : Carry(z, t)' = "none"
      /\ Carry(s, t) = "todo" /\ Carry(s, t)' = "sync_publish"
      /\ t \notin createdQ /\ t \notin approvedQ
  BY <1>2, Unique DEF Moved
<1>4. sent[t] = 0
  BY <1>3 DEF Once, NotAgain, TypeOK, OutsideOK
<1>5. Once(t)'
  BY <1>1, <1>3, <1>4 DEF Once, InOnePlace, NotStarted, NotAgain, AtProvider
<1>6. \A u \in Transfers \ {t} : Once(u)'
  BY <1>1, <1>2, FewerRest DEF MovesOn
<1> QED
  BY <1>5, <1>6

\* An approval that dies with its pod is on transfer.approved again.
LEMMA OnceFailed ==
  ASSUME TypeOK, Tidy, \A u \in Transfers : Once(u), NEW s \in Sessions,
         Abort(s) \/ Crash(s)
  PROVE  \A u \in Transfers : Once(u)'
<1>1. UNCHANGED <<status, sent, createdQ>> /\ Close(s)
  BY DEF Abort, Crash, Rollback, rows, provider, broker
<1>2. NoneAdded /\ \A u \in Transfers : Carry(s, u)' = "none"
  BY <1>1, ClosedTidy
<1>3. CASE approvedQ' \subseteq approvedQ
  BY <1>1, <1>2, <1>3, Fewer DEF MovesOn, NoneAdded
<1>4. CASE /\ sess[s].op \in ApprovedOps
           /\ approvedQ' = approvedQ \cup {sess[s].req}
  <2>1. PICK t \in Transfers : t = sess[s].req
    BY <1>4, Working DEF TypeOK, ApprovedOps, Nameless
  <2>2. Carry(s, t) \in ApprovedOps
    <3>1. sess[s].todo = {}
      BY <1>4 DEF Tidy, TidyRecord, ApprovedOps
    <3> QED
      BY <1>4, <2>1, <3>1 DEF Carry, CarryOf, Carriers
  <2>3. /\ \A z \in Sessions \ {s} : Carry(z, t) = "none"
        /\ t \notin createdQ /\ status[t] \notin {"absent", "pending_balance"}
    BY <2>2, Unique DEF ApprovedOps
  <2>4. \A z \in Sessions : Carry(z, t)' = "none"
    BY <1>2, <2>3 DEF NoneAdded
  <2>5. Once(t)'
    BY <1>1, <2>3, <2>4 DEF Once, InOnePlace, NotStarted, NotAgain, AtProvider
  <2>6. \A u \in Transfers \ {t} : Once(u)'
    BY <1>1, <1>2, <1>4, <2>1, Fewer DEF MovesOn, NoneAdded
  <2> QED
    BY <2>5, <2>6
<1> QED
  BY <1>3, <1>4 DEF Abort, Crash, Requeued, broker

\* Every other step of a session leaves less to carry.
LEMMA OnceEnded ==
  ASSUME TypeOK, Tidy, \A u \in Transfers : Once(u), NEW s \in Sessions,
         \/ ApproveTransfer(s) \/ RejectTransfer(s) \/ CancelTransfer(s)
         \/ UpdateTransferSigning(s) \/ CompleteTransfer(s) \/ RejectedFinish(s)
         \/ ApprovedDone(s) \/ ApprovedFailed(s) \/ WebhookFinish(s) \/ SyncEnd(s)
         \/ SyncWrite(s) \/ (\E t \in Transfers : LeftWaiting(s, t))
  PROVE  \A u \in Transfers : Once(u)'
<1>1. UNCHANGED <<sent, createdQ, approvedQ>>
  BY DEF ApproveTransfer, RejectTransfer, CancelTransfer, UpdateTransferSigning,
         CompleteTransfer, RejectedFinish, ApprovedDone, ApprovedFailed, WebhookFinish,
         SyncEnd, SyncWrite, LeftWaiting, provider, broker
<1>2. NoneAdded
  <2>1. \/ Close(s) \/ SyncWrite(s) \/ \E t \in Transfers : LeftWaiting(s, t)
    BY DEF ApproveTransfer, RejectTransfer, CancelTransfer, UpdateTransferSigning,
           CompleteTransfer, RejectedFinish, ApprovedDone, ApprovedFailed,
           WebhookFinish, SyncEnd
  <2> QED
    BY <2>1, ClosedTidy, SyncWriteTidy, LeftWaitingTidy
<1>3. \A u \in Transfers : MovesOn(u)
  <2>1. CASE ApproveTransfer(s)
    <3>1. sess[s].src # None
      BY <2>1 DEF ApproveTransfer, Tidy, TidyRecord
    <3> QED
      BY <2>1, <3>1 DEF ApproveTransfer, MovesOn
  <2>2. CASE status' = status
    BY <2>2 DEF MovesOn
  <2> QED
    BY <2>1, <2>2, EndpointMovesOn, ConsumerMovesOn
       DEF SyncEnd, SyncWrite, LeftWaiting, rows
<1> QED
  BY <1>1, <1>2, <1>3, Fewer DEF NoneAdded

LEMMA OnceNext ==
  ASSUME OneAtATime, OnceInv, [Next]_vars
  PROVE  \A u \in Transfers : Once(u)'
<1> USE DEF OnceInv
<1>1. ASSUME NEW s \in Sessions, Step(s) PROVE \A u \in Transfers : Once(u)'
  <2>1. ~CreateCommit(s) /\ ~QueueCommit(s) /\ \A t \in Transfers : ~QueueReserve(s, t)
    BY DEF CreateCommit, QueueCommit, QueueReserve, Tidy, TidyRecord, OneAtATime
  <2> QED
    BY <1>1, <2>1, OncePublished, OnceExecuted, OnceSelected, OnceReserved, OnceEnded
       DEF Step
<1>2. ASSUME NEW s \in Sessions, Request(s) PROVE \A u \in Transfers : Once(u)'
  <2>1. /\ ~BeginQueue(s)
        /\ \A t \in Transfers, k \in SentKinds, w \in Wallets : ~CreateSend(s, t, k, w)
    BY DEF BeginQueue, CreateSend, OneAtATime
  <2>2. ASSUME NEW t \in Transfers, RejectedBegin(s, t) PROVE NoneAdded
    BY <2>2, OpenedTidy DEF RejectedBegin, Consume
  <2>3. ASSUME NEW t \in Transfers, NEW o \in Endpoints, Call(s, o, t) PROVE NoneAdded
    <3>1. o = "approve" => wallet[t] # None
      BY <2>3 DEF Call, Accepts, AcceptedIn, Tidy
    <3> QED
      BY <2>3, <3>1, OpenedTidy DEF Call, Endpoints
  <2>4. ASSUME NEW t \in Transfers, NEW e \in Events, WebhookBegin(s, t, e)
        PROVE  NoneAdded
    BY <2>4, OpenedTidy DEF WebhookBegin, Events
  <2>5. CASE \/ SyncRead(s)
             \/ \E t \in Transfers : RejectedBegin(s, t)
             \/ \E t \in Transfers, o \in Endpoints : Call(s, o, t)
             \/ \E t \in Transfers, e \in Events : WebhookBegin(s, t, e)
    <3>1. NoneAdded
      BY <2>2, <2>3, <2>4, <2>5, SyncReadTidy
    <3>2. UNCHANGED <<status, sent, createdQ, approvedQ>>
      BY <2>5 DEF SyncRead, RejectedBegin, Call, WebhookBegin, rows, provider, broker
    <3> QED
      BY <3>1, <3>2, Fewer DEF NoneAdded, MovesOn
  <2> QED
    BY <1>2, <2>1, <2>5, OnceCreated, OnceBegun DEF Request
<1>3. ASSUME NEW s \in Sessions, Failure(s) PROVE \A u \in Transfers : Once(u)'
  <2>1. ~Redeliver(s)
    BY DEF Redeliver, OneAtATime
  <2> QED
    BY <1>3, <2>1, OnceFailed DEF Failure
<1>4. CASE Outside \/ UNCHANGED vars
  <2>1. CASE \E t \in Transfers : WorkflowDecides(t)
    BY <2>1, OnceDecided
  <2>2. CASE /\ UNCHANGED <<status, sent, createdQ, sess>>
             /\ approvedQ' \subseteq approvedQ
    <3>1. \A z \in Sessions, u \in Transfers : Carry(z, u)' = Carry(z, u)
      BY <2>2 DEF Carry, CarryOf
    <3> QED
      BY <2>2, <3>1, Fewer DEF MovesOn
  <2>3. \/ \E t \in Transfers : WorkflowDecides(t)
        \/ /\ UNCHANGED <<status, sent, createdQ, sess>>
           /\ approvedQ' \subseteq approvedQ
    BY <1>4 DEF Outside, ApprovedDropped, ProviderReports, WebhookUnmatched,
                ResetWalletPending, vars, rows, provider, broker
  <2> QED
    BY <2>1, <2>2, <2>3
<1> QED
  BY <1>1, <1>2, <1>3, <1>4 DEF Next

(* With one queue worker, and no message delivered again while its callback
   still runs, a transfer becomes at most one transaction at Fireblocks,
   whatever crashes, overlapping calls, lost answers and cancellations there are
   (broker/consumer.py:257-268). *)
THEOREM PaidAtMostOnce ==
  ASSUME OneAtATime
  PROVE  Spec => []AtMostOneProviderTx
<1>1. Init => \A t \in Transfers : Once(t)
  <2> SUFFICES ASSUME Init PROVE \A t \in Transfers : Once(t)
    OBVIOUS
  <2>1. \A s \in Sessions, t \in Transfers : Carry(s, t) = "none"
    BY IdleIsTidy DEF Init, Carry
  <2> QED
    BY <2>1 DEF Init, Once, InOnePlace, NotStarted, NotAgain, AtProvider
<1>2. OnceInv /\ [Next]_vars => \A t \in Transfers : Once(t)'
  BY OnceNext
<1>3. (\A t \in Transfers : Once(t)) => AtMostOneProviderTx
  BY DEF Once, NotAgain, AtMostOneProviderTx
<1> DEFINE O == \A t \in Transfers : Once(t)
<1>4. Init => O
  BY <1>1
<1>5. TypeOK /\ Tidy /\ O /\ [Next]_vars => O'
  BY <1>2 DEF OnceInv
<1>6. O => AtMostOneProviderTx
  BY <1>3
<1> HIDE DEF O
<1> QED
  BY <1>4, <1>5, <1>6, TidyAlways, PTL DEF Spec
=============================================================================
