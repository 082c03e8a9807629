--------------------------- MODULE DepositsProofs ---------------------------
(***************************************************************************)
(* Theorems about Deposits, for every number of transactions, wallets,     *)
(* waiting transfers and sessions, every amount and every set of stimuli.  *)
(***************************************************************************)
EXTENDS DepositsProperties, SumProofs

LEMMA Constants ==
  /\ Hot \subseteq Wallets /\ Synced \subseteq Wallets
  /\ \A x \in Txs : Amount[x] \in Nat /\ Amount[x] > 0
  /\ \A x \in Txs : Source[x] \in Wallets \cup {None} /\ Dest[x] \in Wallets \cup {None}
  /\ \A i \in DOMAIN Arrival : Arrival[i] \in Waiting
  /\ \A p \in Waiting : Need[p] \in Nat
  /\ Start \in [Wallets -> Nat]
  /\ \A x \in Txs, st \in Statuses : Copies[x][st] \subseteq Nat
BY DepositsAssumption DEF DepositsAssumption, Waiting

-----------------------------------------------------------------------------
(* The shape of a session after each step *)

LEMMA IdleIsSession == IdleSession \in Session
  BY DEF IdleSession, Session, Ops

LEMMA OldestTyped == Oldest \subseteq DOMAIN Arrival
  BY DEF Oldest, Unplaced

LEMMA WriteTyped ==
  ASSUME NEW w, NEW v \in Nat PROVE Write(w, v) \in Nat \cup {None}
  BY DEF Write

LEMMA OverwrittenTyped ==
  ASSUME TypeOK, NEW s \in Sessions, NEW x \in Txs
  PROVE  Overwritten(s, x) \in [Wallets -> Nat \cup {None}]
<1>1. sess[s].put \in [Wallets -> Nat \cup {None}]
  BY DEF TypeOK, Session
<1>2. Amount[x] \in Nat
  BY Constants
<1> DEFINE v == Write(Dest[x], Amount[x])
<1>3. v \in Nat \cup {None}
  BY <1>2, WriteTyped
<1>4. [sess[s].put EXCEPT ![Dest[x]] = v] \in [Wallets -> Nat \cup {None}]
  BY <1>1, <1>3
<1> QED
  BY <1>1, <1>4 DEF Overwritten

LEMMA LoweredTyped ==
  ASSUME TypeOK, NEW x \in Txs PROVE Lowered(x) \in Nat \cup {None}
<1>1. CASE Source[x] = None
  BY <1>1 DEF Lowered
<1>2. CASE Source[x] # None
  <2>1. Source[x] \in Wallets /\ Amount[x] \in Nat
    BY <1>2, Constants
  <2>2. balance[Source[x]] \in Nat
    BY <2>1 DEF TypeOK
  <2> DEFINE v == IF balance[Source[x]] < Amount[x] THEN 0 ELSE balance[Source[x]] - Amount[x]
  <2>3. v \in Nat
    BY <2>1, <2>2
  <2>4. Lowered(x) = Write(Source[x], v)
    BY <1>2 DEF Lowered
  <2> QED
    BY <2>3, <2>4, WriteTyped
<1> QED
  BY <1>1, <1>2

LEMMA FlushedTyped ==
  ASSUME TypeOK, NEW s \in Sessions
  PROVE  Flushed(s) \in [Wallets -> Nat \cup {None}]
<1>1. sess[s].put \in [Wallets -> Nat \cup {None}] /\ sess[s].late \in Nat \cup {None}
  BY DEF TypeOK, Session
<1> QED
  BY <1>1 DEF Flushed

LEMMA SessionTyped ==
  ASSUME TypeOK, NEW s \in Sessions PROVE sess[s] \in Session
  BY DEF TypeOK

-----------------------------------------------------------------------------
(* The invariant.  That a reservation is within the committed balance is decided
   when the session reserves and shown when it commits: in between it holds the row
   of the wallet, and whatever it flushes there itself is what it decided on. *)

HeldBy(r, w) == r.put[w] # None \/ r.add[w] # 0

InHand(r, w) == IF r.put[w] = None THEN balance[w] ELSE r.put[w]

(* No move is taken from a wallet that payouts are reserved on. *)
MovesSpareHot == \A x \in Txs : Kind[x] = "move" => Source[x] \notin Hot

Backed(r, w) ==
  MovesSpareHot /\ r.add[w] > 0 =>
    pending[w] + r.add[w] <= InHand(r, w) /\ (w \in Hot \/ r.late = None)

Resting == {"idle", "record", "sync_fetch", "sync_queue"}
Working == {"record", "queue", "notify", "commit"}

Shape(r) ==
  /\ r.op \in Resting => r.late = None /\ \A w \in Wallets : ~HeldBy(r, w)
  /\ r.op \in Working => r.tx \in Txs
  /\ r.op \in Working \ {"commit"} => r.st \in Statuses
  /\ r.late # None => r.tx \in Txs /\ Kind[r.tx] = "move" /\ Source[r.tx] \in Wallets

RestOK ==
  /\ truth \in [Wallets -> Nat]
  /\ fb \in [Txs -> Statuses \cup {"none"}] /\ inbox \in [Txs -> [Statuses -> Nat]]
  /\ record \in [Txs -> Statuses \cup {None}] /\ place \in [Waiting -> Wallets \cup {None}]
  /\ told \in [Txs -> SUBSET Statuses] /\ unsent \in [Txs -> SUBSET Statuses]
  /\ moved \subseteq Txs /\ aborted \subseteq Txs

LedgerOK == balance \in [Wallets -> Nat] /\ pending \in [Wallets -> Nat]

Alone == \A s, z \in Sessions, w \in Wallets :
           s # z => ~(HeldBy(sess[s], w) /\ HeldBy(sess[z], w))

IInv ==
  /\ RestOK /\ LedgerOK /\ sess \in [Sessions -> Session]
  /\ \A s \in Sessions : Shape(sess[s])
  /\ \A s \in Sessions, w \in Wallets : Backed(sess[s], w)
  /\ Alone

LEMMA Types == IInv => TypeOK
  BY DEF IInv, RestOK, LedgerOK, TypeOK

LEMMA FreeRow ==
  ASSUME NEW s \in Sessions, NEW w \in Wallets
  PROVE  RowFree(s, w) <=> \A z \in Sessions \ {s} : ~HeldBy(sess[z], w)
BY DEF RowFree, HeldBy

(* Only a session changes, and what it holds now was free to be taken. *)
LEMMA Turns ==
  ASSUME IInv, RestOK', UNCHANGED <<balance, pending>>,
         NEW s \in Sessions, NEW r \in Session, sess' = [sess EXCEPT ![s] = r],
         Shape(r), \A w \in Wallets : Backed(r, w),
         \A w \in Wallets : HeldBy(r, w) => RowFree(s, w)
  PROVE  IInv'
<1>1. LedgerOK' /\ sess' \in [Sessions -> Session]
  BY DEF IInv, LedgerOK
<1>2. sess'[s] = r /\ \A z \in Sessions : z # s => sess'[z] = sess[z]
  BY DEF IInv
<1>3. \A z \in Sessions : Shape(sess'[z])
  BY <1>2 DEF IInv
<1>4. \A z \in Sessions, w \in Wallets : Backed(sess'[z], w)
  BY <1>2 DEF IInv
<1>5. \A z \in Sessions, w \in Wallets : Backed(sess[z], w)'
  BY <1>4 DEF Backed, InHand
<1>6. Alone'
  BY <1>2, FreeRow DEF IInv, Alone
<1> QED
  BY <1>1, <1>3, <1>5, <1>6 DEF IInv, Shape, HeldBy, Backed, InHand

(* Rows that no other session holds are written, and the session holds none. *)
LEMMA Stores ==
  ASSUME IInv, RestOK', LedgerOK',
         NEW s \in Sessions, NEW r \in Session, sess' = [sess EXCEPT ![s] = r],
         Shape(r), \A w \in Wallets : ~HeldBy(r, w),
         \A w \in Wallets : balance'[w] # balance[w] \/ pending'[w] # pending[w] =>
                              RowFree(s, w)
  PROVE  IInv'
<1>1. sess' \in [Sessions -> Session]
  BY DEF IInv
<1>2. sess'[s] = r /\ \A z \in Sessions : z # s => sess'[z] = sess[z]
  BY DEF IInv
<1>3. \A z \in Sessions : Shape(sess'[z])
  BY <1>2 DEF IInv
<1>4. ASSUME NEW z \in Sessions, NEW w \in Wallets
      PROVE  Backed(sess[z], w)'
  <2>1. CASE z = s
    <3>1. r.add[w] = 0
      BY DEF HeldBy
    <3> QED
      BY <1>2, <2>1, <3>1 DEF Backed
  <2>2. CASE z # s /\ HeldBy(sess[z], w)
    <3>1. balance'[w] = balance[w] /\ pending'[w] = pending[w]
      BY <2>2, FreeRow
    <3> QED
      BY <1>2, <2>2, <3>1 DEF IInv, Backed, InHand
  <2>3. CASE z # s /\ ~HeldBy(sess[z], w)
    <3>1. sess'[z].add[w] = 0
      BY <1>2, <2>3 DEF HeldBy
    <3> QED
      BY <3>1 DEF Backed
  <2> QED
    BY <2>1, <2>2, <2>3
<1>5. Alone'
  BY <1>2 DEF IInv, Alone
<1> QED
  BY <1>1, <1>3, <1>4, <1>5 DEF IInv, Shape, HeldBy, Backed, InHand

-----------------------------------------------------------------------------
(* Fireblocks and its events *)

LEMMA EmitTyped ==
  ASSUME RestOK, NEW x \in Txs, NEW st \in Statuses, Emit(x, st)
  PROVE  /\ fb' \in [Txs -> Statuses \cup {"none"}]
         /\ inbox' \in [Txs -> [Statuses -> Nat]]
<1>1. \A n \in Copies[x][st] : n \in Nat
  BY Constants
<1> QED
  BY <1>1 DEF Emit, RestOK

LEMMA TakenTyped ==
  ASSUME RestOK, NEW x \in Txs, NEW st \in Statuses, Taken(x, st)
  PROVE  inbox' \in [Txs -> [Statuses -> Nat]] /\ UNCHANGED <<truth, fb>>
<1>1. inbox[x][st] \in Nat /\ inbox[x] \in [Statuses -> Nat]
  BY DEF RestOK
<1>2. [inbox[x] EXCEPT ![st] = @ - 1] \in [Statuses -> Nat]
  BY <1>1 DEF Taken
<1>3. inbox' = [inbox EXCEPT ![x] = [inbox[x] EXCEPT ![st] = @ - 1]]
  BY DEF Taken, RestOK
<1> QED
  BY <1>2, <1>3 DEF Taken, RestOK

LEMMA Untouched ==
  ASSUME IInv, RestOK', UNCHANGED <<balance, pending, sess>> PROVE IInv'
BY DEF IInv, LedgerOK, Shape, HeldBy, Backed, InHand, Alone

LEMMA ProviderKeeps ==
  ASSUME IInv, NEW x \in Txs, Provider(x) PROVE IInv'
<1>1. RestOK
  BY DEF IInv
<1>2. CASE ProviderStarts(x)
  <2>1. RestOK'
    BY <1>1, <1>2, EmitTyped DEF ProviderStarts, tables, outside, RestOK, Statuses
  <2> QED
    BY <1>2, <2>1, Untouched DEF ProviderStarts, tables
<1>3. CASE ProviderCompletes(x)
  <2>1. ASSUME NEW w \in Wallets PROVE truth[w] + Paid(x, w) \in Int
    BY <1>1, Constants DEF RestOK, Paid
  <2>2. truth' \in [Wallets -> Nat]
    BY <1>3, <2>1 DEF ProviderCompletes
  <2>3. RestOK'
    BY <1>1, <1>3, <2>2, EmitTyped DEF ProviderCompletes, tables, outside, RestOK, Statuses
  <2> QED
    BY <1>3, <2>3, Untouched DEF ProviderCompletes, tables
<1>4. CASE ProviderFails(x)
  <2>1. RestOK'
    BY <1>1, <1>4, EmitTyped DEF ProviderFails, tables, outside, RestOK, Statuses
  <2> QED
    BY <1>4, <2>1, Untouched DEF ProviderFails, tables
<1> QED
  BY <1>2, <1>3, <1>4 DEF Provider

LEMMA MoveIgnoredKeeps ==
  ASSUME IInv, NEW x \in Txs, NEW st \in Statuses, MoveIgnored(x, st) PROVE IInv'
<1>1. RestOK
  BY DEF IInv
<1>2. RestOK'
  BY <1>1, TakenTyped DEF MoveIgnored, tables, outside, RestOK
<1> QED
  BY <1>2, Untouched DEF MoveIgnored, tables

-----------------------------------------------------------------------------
(* Deposits *)

LEMMA IdleHolds ==
  /\ Shape(IdleSession) /\ \A w \in Wallets : ~HeldBy(IdleSession, w)
BY DEF IdleSession, Shape, HeldBy, Working

LEMMA HoldsNothing ==
  ASSUME NEW r \in Session, \A w \in Wallets : ~HeldBy(r, w)
  PROVE  \A w \in Wallets : Backed(r, w)
BY DEF HeldBy, Backed, Session

\* A session that closes without storing anything.
LEMMA ClosedKeeps ==
  ASSUME IInv, RestOK', UNCHANGED <<balance, pending>>, NEW s \in Sessions, Close(s)
  PROVE  IInv'
BY IdleIsSession, IdleHolds, HoldsNothing, Turns DEF Close

LEMMA RecordBeginKeeps ==
  ASSUME IInv, NEW s \in Sessions, NEW x \in Txs, NEW st \in Statuses, RecordBegin(s, x, st)
  PROVE  IInv'
<1> DEFINE r == [IdleSession EXCEPT !.op = "record", !.tx = x, !.st = st, !.found = record[x]]
<1>1. RestOK
  BY DEF IInv
<1>2. RestOK'
  BY <1>1, TakenTyped DEF RecordBegin, tables, outside, RestOK
<1>3. r \in Session
  BY <1>1 DEF IdleSession, Session, Ops, RestOK
<1>4. Shape(r) /\ \A w \in Wallets : ~HeldBy(r, w)
  BY DEF IdleSession, Shape, HeldBy
<1>5. sess' = [sess EXCEPT ![s] = r] /\ UNCHANGED <<balance, pending>>
  BY DEF RecordBegin, tables
<1> QED
  BY <1>2, <1>3, <1>4, <1>5, HoldsNothing, Turns

\* The record is written, and the balance with it.
LEMMA GoesKeeps ==
  ASSUME IInv, RestOK', UNCHANGED <<balance, pending>>,
         NEW s \in Sessions, sess[s].op = "record",
         NEW put \in [Wallets -> Nat \cup {None}], CanFlush(s, put),
         NEW o \in {"queue", "notify", "commit"}, NEW todo \in SUBSET DOMAIN Arrival,
         Goes(s, o, put, todo)
  PROVE  IInv'
<1> DEFINE r == [sess[s] EXCEPT !.op = o, !.put = put, !.todo = todo]
<1>1. sess[s] \in Session /\ Shape(sess[s])
  BY DEF IInv
<1>2. r \in Session
  BY <1>1 DEF Session, Ops
<1>3. sess[s].late = None /\ sess[s].tx \in Txs /\ sess[s].st \in Statuses
      /\ \A w \in Wallets : ~HeldBy(sess[s], w)
  BY <1>1 DEF Shape, Resting, Working
<1>4. r.late = None /\ r.tx \in Txs /\ r.st \in Statuses /\ r.op = o /\ r.put = put /\ r.add = sess[s].add
  BY <1>1, <1>3 DEF Session
<1>5. Shape(r)
  BY <1>4 DEF Shape, Resting
<1>6. \A w \in Wallets : r.add[w] = 0
  BY <1>3, <1>4 DEF HeldBy
<1>7. \A w \in Wallets : Backed(r, w)
  BY <1>6 DEF Backed
<1>8. \A w \in Wallets : HeldBy(r, w) => RowFree(s, w)
  BY <1>4, <1>6 DEF HeldBy, CanFlush
<1>9. sess' = [sess EXCEPT ![s] = r]
  BY DEF Goes, IInv, Session
<1> QED
  BY <1>2, <1>5, <1>7, <1>8, <1>9, Turns

LEMMA RecordTx ==
  ASSUME IInv, NEW s \in Sessions, sess[s].op \in Working
  PROVE  /\ sess[s].tx \in Txs /\ sess[s].st \in Statuses \cup {None}
         /\ sess[s] \in Session
BY DEF IInv, Shape, Session

LEMMA RecordInsertKeeps ==
  ASSUME IInv, NEW s \in Sessions, RecordInsert(s) PROVE IInv'
<1>1. sess[s].tx \in Txs
  BY RecordTx DEF RecordInsert, Working
<1>2. Overwritten(s, sess[s].tx) \in [Wallets -> Nat \cup {None}]
  BY <1>1, Types, OverwrittenTyped
<1>3. RestOK'
  BY DEF RecordInsert, provider, tables, outside, IInv, RestOK
<1> QED
  BY <1>2, <1>3, GoesKeeps DEF RecordInsert, tables

LEMMA RecordConflictKeeps ==
  ASSUME IInv, NEW s \in Sessions, RecordConflict(s) PROVE IInv'
<1>1. RestOK'
  BY DEF RecordConflict, provider, tables, outside, IInv, RestOK
<1> QED
  BY <1>1, ClosedKeeps DEF RecordConflict, tables

LEMMA RecordUpdateKeeps ==
  ASSUME IInv, NEW s \in Sessions, RecordUpdate(s) PROVE IInv'
<1>1. sess[s].tx \in Txs
  BY RecordTx DEF RecordUpdate, Working
<1>2. Overwritten(s, sess[s].tx) \in [Wallets -> Nat \cup {None}]
  BY <1>1, Types, OverwrittenTyped
<1>3. RestOK'
  BY DEF RecordUpdate, provider, tables, outside, IInv, RestOK
<1> QED
  BY <1>2, <1>3, OldestTyped, GoesKeeps DEF RecordUpdate, tables

\* Only the place in the handler changes.
LEMMA Advances ==
  ASSUME IInv, RestOK', UNCHANGED <<balance, pending>>, NEW s \in Sessions,
         sess[s].op \in Working \ {"commit"}, NEW o \in {"queue", "notify", "commit"},
         sess' = [sess EXCEPT ![s].op = o]
  PROVE  IInv'
<1> DEFINE r == [sess[s] EXCEPT !.op = o]
<1>1. sess[s] \in Session /\ Shape(sess[s]) /\ \A w \in Wallets : Backed(sess[s], w)
  BY DEF IInv
<1>2. r \in Session /\ r.tx = sess[s].tx /\ r.st = sess[s].st /\ r.late = sess[s].late /\ r.put = sess[s].put
        /\ r.add = sess[s].add /\ r.op = o
  BY <1>1 DEF Session, Ops
<1>3. Shape(r)
  BY <1>1, <1>2 DEF Shape, Resting, Working
<1>4. \A w \in Wallets : Backed(r, w)
  BY <1>1, <1>2 DEF Backed, InHand
<1>5. \A w \in Wallets : HeldBy(r, w) => RowFree(s, w)
  BY <1>2, FreeRow DEF IInv, Alone, HeldBy
<1>6. sess' = [sess EXCEPT ![s] = r]
  BY DEF IInv
<1> QED
  BY <1>2, <1>3, <1>4, <1>5, <1>6, Turns

LEMMA NotifyKeeps ==
  ASSUME IInv, NEW s \in Sessions, Notify(s) PROVE IInv'
<1>0. sess[s].st \in Statuses
  BY DEF Notify, IInv, Shape, Working
<1>1. told' \in [Txs -> SUBSET Statuses] /\ unsent' \in [Txs -> SUBSET Statuses]
  <2>1. told \in [Txs -> SUBSET Statuses] /\ unsent \in [Txs -> SUBSET Statuses]
    BY DEF IInv, RestOK
  <2>2. Reported(sess[s].tx, sess[s].st)
    BY DEF Notify
  <2> QED
    BY <1>0, <2>1, <2>2 DEF Reported
<1>2. RestOK'
  BY <1>1 DEF Notify, provider, tables, IInv, RestOK
<1> QED
  BY <1>2, Advances DEF Notify, tables, Working

-----------------------------------------------------------------------------
(* Vault to vault *)

LEMMA MoveCreateKeeps ==
  ASSUME IInv, NEW s \in Sessions, NEW x \in Txs, MoveCreate(s, x) PROVE IInv'
<1> DEFINE w == Source[x]
           r == [sess[s] EXCEPT !.op = "commit", !.tx = x,
                                !.add = [sess[s].add EXCEPT ![w] = Amount[x]]]
<1>1. sess[s] \in Session /\ Shape(sess[s]) /\ RestOK
  BY DEF IInv
<1>2. w \in Wallets /\ Amount[x] \in Nat
  BY Constants DEF MoveCreate
<1>3. sess[s].late = None /\ \A v \in Wallets : ~HeldBy(sess[s], v)
  BY <1>1 DEF MoveCreate, Shape, Resting
<1>4. r \in Session
  BY <1>1, <1>2 DEF Session, Ops
<1>5. r.op = "commit" /\ r.tx = x /\ r.late = None /\ r.put = sess[s].put
      /\ r.add = [sess[s].add EXCEPT ![w] = Amount[x]]
  BY <1>1, <1>3 DEF Session
<1>6. Shape(r)
  BY <1>5 DEF Shape, Resting, Working
<1>7. sess' = [sess EXCEPT ![s] = r]
  BY DEF MoveCreate, IInv, Session
<1>8. ASSUME NEW v \in Wallets PROVE Backed(r, v) /\ (HeldBy(r, v) => RowFree(s, v))
  <2>1. sess[s].put[v] = None /\ sess[s].add[v] = 0
    BY <1>3 DEF HeldBy
  <2>2. CASE v # w
    BY <1>1, <1>5, <2>1, <2>2 DEF Backed, HeldBy, Session
  <2>3. CASE v = w
    <3>1. balance[w] - pending[w] - 0 >= Amount[x] /\ RowFree(s, w)
      BY <2>1, <2>3 DEF MoveCreate, Available, Balance
    <3>2. balance[w] \in Nat /\ pending[w] \in Nat
      BY <1>2 DEF IInv, LedgerOK
    <3>3. r.add[w] = Amount[x] /\ InHand(r, w) = balance[w]
      BY <1>1, <1>2, <1>5, <2>1, <2>3 DEF Session, InHand
    <3> QED
      BY <1>2, <1>5, <2>3, <3>1, <3>2, <3>3 DEF Backed
  <2> QED
    BY <2>2, <2>3
<1>9. RestOK'
  BY <1>1, EmitTyped DEF MoveCreate, tables, outside, RestOK, Statuses
<1> QED
  BY <1>4, <1>6, <1>7, <1>8, <1>9, Turns DEF MoveCreate, tables

LEMMA MoveBeginKeeps ==
  ASSUME IInv, NEW s \in Sessions, NEW x \in Txs, NEW st \in Statuses, MoveBegin(s, x, st)
  PROVE  IInv'
<1> DEFINE put == [IdleSession.put EXCEPT ![Dest[x]] = Write(Dest[x], Amount[x])]
           r == [IdleSession EXCEPT !.op = "queue", !.tx = x, !.st = st, !.put = put,
                                    !.late = Lowered(x), !.todo = Oldest]
<1>1. RestOK
  BY DEF IInv
<1>2. Write(Dest[x], Amount[x]) \in Nat \cup {None}
  BY Constants, WriteTyped
<1>3. put \in [Wallets -> Nat \cup {None}]
  BY <1>2 DEF IdleSession
<1>4. Lowered(x) \in Nat \cup {None}
  BY Types, LoweredTyped
<1> HIDE DEF put
<1>5. r \in Session
  BY <1>3, <1>4, OldestTyped DEF IdleSession, Session, Ops
<1>6. r.op = "queue" /\ r.tx = x /\ r.st = st /\ r.put = put /\ r.late = Lowered(x)
      /\ \A w \in Wallets : r.add[w] = 0
  BY DEF IdleSession
<1>7. Lowered(x) # None => Source[x] \in Wallets
  BY Constants DEF Lowered
<1>8. Shape(r)
  BY <1>6, <1>7 DEF Shape, Resting, Working, MoveBegin
<1>9. \A w \in Wallets : Backed(r, w)
  BY <1>6 DEF Backed
<1>10. CanFlush(s, put)
  BY DEF MoveBegin, put
<1>11. \A w \in Wallets : HeldBy(r, w) => RowFree(s, w)
  BY <1>6, <1>10 DEF HeldBy, CanFlush
<1>12. sess' = [sess EXCEPT ![s] = r]
  BY DEF MoveBegin, put
<1>13. RestOK'
  BY <1>1, TakenTyped DEF MoveBegin, tables, outside, RestOK
<1> QED
  BY <1>5, <1>8, <1>9, <1>11, <1>12, <1>13, Turns DEF MoveBegin, tables

-----------------------------------------------------------------------------
(* The queue inside a webhook *)

\* What the flush adds is a row no payout is reserved on.
LEMMA FlushedRows ==
  ASSUME IInv, MovesSpareHot, NEW s \in Sessions, NEW w \in Wallets,
         w \in Hot \/ sess[s].late = None
  PROVE  Flushed(s)[w] = sess[s].put[w]
<1>1. sess[s].put \in [Wallets -> Nat \cup {None}] /\ Shape(sess[s])
  BY DEF IInv, Session
<1>2. CASE sess[s].late = None
  BY <1>2 DEF Flushed
<1>3. CASE sess[s].late # None
  <2>1. Source[sess[s].tx] # w
    BY <1>1, <1>3 DEF Shape, MovesSpareHot
  <2> QED
    BY <1>1, <1>3, <2>1 DEF Flushed
<1> QED
  BY <1>2, <1>3

\* A session whose assigned balance is flushed, and no more.
LEMMA FlushKeeps ==
  ASSUME IInv, RestOK', UNCHANGED <<balance, pending>>,
         NEW s \in Sessions, sess[s].op = "queue", CanFlush(s, Flushed(s)),
         NEW r \in Session, sess' = [sess EXCEPT ![s] = r],
         r.op = "queue", r.tx = sess[s].tx, r.st = sess[s].st,
         r.put = Flushed(s), r.late = None,
         \A w \in Wallets : \/ r.add[w] = sess[s].add[w]
                            \/ /\ w \in Hot /\ RowFree(s, w)
                               /\ pending[w] + r.add[w] <= Balance(s, w)
  PROVE  IInv'
<1>1. sess[s] \in Session /\ Shape(sess[s]) /\ \A w \in Wallets : Backed(sess[s], w)
  BY DEF IInv
<1>2. Shape(r)
  BY <1>1 DEF Shape, Resting, Working
<1>3. ASSUME NEW w \in Wallets PROVE Backed(r, w)
  <2> SUFFICES ASSUME MovesSpareHot PROVE Backed(r, w)
    BY DEF Backed
  <2>1. CASE r.add[w] = sess[s].add[w]
    <3>1. CASE sess[s].add[w] > 0
      <4>1. w \in Hot \/ sess[s].late = None
        BY <1>1, <3>1 DEF Backed
      <4> QED
        BY <1>1, <2>1, <3>1, <4>1, FlushedRows DEF Backed, InHand
    <3>2. CASE ~(sess[s].add[w] > 0)
      BY <2>1, <3>2 DEF Backed
    <3> QED
      BY <3>1, <3>2
  <2>2. CASE w \in Hot /\ pending[w] + r.add[w] <= Balance(s, w)
    <3>1. r.put[w] = sess[s].put[w]
      BY <2>2, FlushedRows
    <3> QED
      BY <2>2, <3>1 DEF Backed, InHand, Balance
  <2> QED
    BY <2>1, <2>2
<1>4. ASSUME NEW w \in Wallets, HeldBy(r, w) PROVE RowFree(s, w)
  <2>1. CASE r.put[w] # None
    BY <2>1 DEF CanFlush
  <2>2. CASE r.add[w] # 0 /\ r.add[w] = sess[s].add[w]
    <3>1. HeldBy(sess[s], w)
      BY <2>2 DEF HeldBy
    <3> QED
      BY <3>1, FreeRow DEF IInv, Alone
  <2> QED
    BY <1>4, <2>1, <2>2 DEF HeldBy
<1> QED
  BY <1>2, <1>3, <1>4, Turns

\* What a turn that reserves changes of its session.
LEMMA ReservedIs ==
  ASSUME sess \in [Sessions -> Session], NEW s \in Sessions, NEW i, NEW w, Reserved(s, i, w)
  PROVE  sess' = [sess EXCEPT ![s] =
           [sess[s] EXCEPT !.add[w] = @ + Need[Arrival[i]], !.picked[Arrival[i]] = w,
                           !.todo = @ \ {i}, !.put = Flushed(s), !.late = None]]
BY ZenonT(60) DEF Reserved

LEMMA QueueTurnKeeps ==
  ASSUME IInv, NEW s \in Sessions, QueueTurn(s) PROVE IInv'
<1>1. PICK i \in DOMAIN Arrival :
        \E w \in Fitting(s, Arrival[i]) : RowFree(s, w) /\ Reserved(s, i, w)
  BY DEF QueueTurn
<1>2. PICK w \in Fitting(s, Arrival[i]) : RowFree(s, w) /\ Reserved(s, i, w)
  BY <1>1
<1> DEFINE p == Arrival[i]
           add == [sess[s].add EXCEPT ![w] = @ + Need[p]]
           r == [sess[s] EXCEPT !.add[w] = @ + Need[p], !.picked[p] = w,
                                !.todo = @ \ {i}, !.put = Flushed(s), !.late = None]
<1>3. p \in Waiting /\ Need[p] \in Nat /\ w \in Hot /\ w \in Wallets
  BY <1>2, Constants DEF Fitting
<1>4. sess[s] \in Session
  BY DEF IInv
<1>5. Flushed(s) \in [Wallets -> Nat \cup {None}]
  BY Types, FlushedTyped
<1>6. add \in [Wallets -> Nat]
  BY <1>3, <1>4 DEF Session
<1>7. sess' = [sess EXCEPT ![s] = r]
  <2>1. sess \in [Sessions -> Session]
    BY DEF IInv
  <2> QED
    BY <1>2, <2>1, ReservedIs, ZenonT(30)
<1>8. r \in Session
  BY <1>3, <1>4, <1>5, <1>6 DEF Session
<1>9. r.op = "queue" /\ r.tx = sess[s].tx /\ r.st = sess[s].st /\ r.put = Flushed(s)
      /\ r.late = None /\ r.add = add
  BY <1>4 DEF QueueTurn, Session
<1>10. ASSUME NEW v \in Wallets
       PROVE  \/ r.add[v] = sess[s].add[v]
              \/ v \in Hot /\ RowFree(s, v) /\ pending[v] + r.add[v] <= Balance(s, v)
  <2>1. CASE v # w
    BY <1>4, <1>9, <2>1 DEF Session
  <2>2. CASE v = w
    <3>1. Balance(s, w) - pending[w] - sess[s].add[w] >= Need[p]
      BY <1>2 DEF Fitting, Available
    <3>2. Balance(s, w) \in Nat /\ pending[w] \in Nat /\ sess[s].add[w] \in Nat
      BY <1>3, <1>4 DEF Balance, IInv, LedgerOK, Session
    <3>3. r.add[w] = sess[s].add[w] + Need[p]
      BY <1>3, <1>4, <1>9 DEF Session
    <3> QED
      BY <1>2, <1>3, <2>2, <3>1, <3>2, <3>3
  <2> QED
    BY <2>1, <2>2
<1>11. RestOK'
  BY <1>1, <1>3 DEF QueueTurn, provider, tables, outside, IInv, RestOK
<1>12. UNCHANGED <<balance, pending>> /\ sess[s].op = "queue" /\ CanFlush(s, Flushed(s))
  BY DEF QueueTurn, tables
<1> HIDE DEF r
<1> QED
  BY <1>7, <1>8, <1>9, <1>10, <1>11, <1>12, FlushKeeps

LEMMA QueueSkipKeeps ==
  ASSUME IInv, NEW s \in Sessions, QueueSkip(s) PROVE IInv'
<1>1. PICK i \in DOMAIN Arrival :
        sess' = [sess EXCEPT ![s].todo = @ \ {i}, ![s].put = Flushed(s), ![s].late = None]
  BY DEF QueueSkip
<1> DEFINE r == [sess[s] EXCEPT !.todo = @ \ {i}, !.put = Flushed(s), !.late = None]
<1>2. sess[s] \in Session
  BY DEF IInv
<1>3. Flushed(s) \in [Wallets -> Nat \cup {None}]
  BY Types, FlushedTyped
<1>4. r \in Session
  BY <1>2, <1>3 DEF Session
<1>5. sess' = [sess EXCEPT ![s] = r]
  BY <1>1 DEF IInv, Session
<1>6. r.op = "queue" /\ r.tx = sess[s].tx /\ r.st = sess[s].st /\ r.put = Flushed(s)
      /\ r.late = None /\ r.add = sess[s].add
  BY <1>2 DEF QueueSkip, Session
<1>7. RestOK'
  BY DEF QueueSkip, provider, tables, outside, IInv, RestOK
<1>8. UNCHANGED <<balance, pending>> /\ sess[s].op = "queue" /\ CanFlush(s, Flushed(s))
  BY DEF QueueSkip, tables
<1> HIDE DEF r
<1> QED
  BY <1>4, <1>5, <1>6, <1>7, <1>8, FlushKeeps

LEMMA QueueEndKeeps ==
  ASSUME IInv, NEW s \in Sessions, QueueEnd(s) PROVE IInv'
<1>1. RestOK'
  BY DEF QueueEnd, provider, tables, outside, IInv, RestOK
<1> QED
  BY <1>1, Advances DEF QueueEnd, tables, Working

-----------------------------------------------------------------------------
(* Commit, the sync task, and a handler that raises *)

LEMMA CommitKeeps ==
  ASSUME IInv, NEW s \in Sessions, Commit(s) PROVE IInv'
<1>1. sess[s] \in Session /\ sess[s].tx \in Txs
  BY DEF Commit, IInv, Shape, Working
<1>2. Flushed(s) \in [Wallets -> Nat \cup {None}]
  BY Types, FlushedTyped
<1>3. LedgerOK'
  BY <1>1, <1>2 DEF Commit, CommitPending, IInv, LedgerOK, Session
<1>4. /\ place' \in [Waiting -> Wallets \cup {None}]
      /\ record' \in [Txs -> Statuses \cup {None}] /\ moved' \subseteq Txs
  BY <1>1 DEF Commit, IInv, RestOK, Session
<1>5. RestOK'
  BY <1>4 DEF Commit, provider, outside, IInv, RestOK
<1>6. ASSUME NEW w \in Wallets, balance'[w] # balance[w] \/ pending'[w] # pending[w]
      PROVE  RowFree(s, w)
  <2>1. CASE Flushed(s)[w] # None
    BY <2>1 DEF Commit, CanFlush
  <2>2. CASE Flushed(s)[w] = None
    <3>1. balance'[w] = balance[w]
      BY <2>2 DEF Commit
    <3>2. pending'[w] = pending[w] + sess[s].add[w] /\ pending[w] \in Nat
      BY DEF Commit, CommitPending, IInv, LedgerOK
    <3>3. HeldBy(sess[s], w)
      BY <1>1, <1>6, <3>1, <3>2 DEF HeldBy, Session
    <3> QED
      BY <3>3, FreeRow DEF IInv, Alone
  <2> QED
    BY <2>1, <2>2
<1> QED
  BY <1>3, <1>5, <1>6, IdleIsSession, IdleHolds, Stores DEF Commit, Close

LEMMA SyncReadKeeps ==
  ASSUME IInv, NEW s \in Sessions, SyncRead(s) PROVE IInv'
<1> DEFINE loaded == [w \in Wallets |-> IF w \in Synced THEN balance[w] ELSE None]
           r == [sess[s] EXCEPT !.op = "sync_fetch", !.loaded = loaded]
<1>1. sess[s] \in Session /\ Shape(sess[s])
  BY DEF IInv
<1>2. loaded \in [Wallets -> Nat \cup {None}]
  BY DEF IInv, LedgerOK
<1>3. r \in Session
  BY <1>1, <1>2 DEF Session, Ops
<1>4. sess[s].late = None /\ \A w \in Wallets : ~HeldBy(sess[s], w)
  BY <1>1 DEF SyncRead, Shape, Resting
<1>5. Shape(r) /\ \A w \in Wallets : ~HeldBy(r, w)
  BY <1>1, <1>4 DEF Shape, HeldBy, Working, Session
<1>6. sess' = [sess EXCEPT ![s] = r] /\ UNCHANGED <<balance, pending>>
  BY DEF SyncRead, tables, IInv, Session
<1>7. RestOK'
  BY DEF SyncRead, provider, tables, outside, IInv, RestOK
<1> HIDE DEF r
<1> QED
  BY <1>3, <1>5, <1>6, <1>7, HoldsNothing, Turns

LEMMA SyncFetchKeeps ==
  ASSUME IInv, NEW s \in Sessions, SyncFetch(s) PROVE IInv'
<1> DEFINE w == Upcoming(s)
           new == IF Differs(w, sess[s].loaded[w]) THEN truth[w] ELSE None
           r == [sess[s] EXCEPT !.asked = @ \cup {w}, !.loaded[w] = new]
<1>1. sess[s] \in Session /\ Shape(sess[s])
  BY DEF IInv
<1>2. w \in Synced /\ w \in Wallets
  <2>1. \E v \in Synced : v \in Synced \ sess[s].asked
    BY <1>1 DEF SyncFetch, Session
  <2> QED
    BY <2>1, Constants DEF Upcoming
<1>3. new \in Nat \cup {None}
  BY <1>2 DEF IInv, RestOK
<1>4. sess' = [sess EXCEPT ![s] = r] /\ UNCHANGED <<balance, pending>>
  BY DEF SyncFetch, tables, IInv, Session
<1> HIDE DEF w, new
<1>5. r \in Session
  BY <1>1, <1>2, <1>3 DEF Session
<1>6. sess[s].late = None /\ \A v \in Wallets : ~HeldBy(sess[s], v)
  BY <1>1 DEF SyncFetch, Shape, Resting
<1>7. Shape(r) /\ \A v \in Wallets : ~HeldBy(r, v)
  BY <1>1, <1>6 DEF SyncFetch, Shape, HeldBy, Working, Session
<1>8. RestOK'
  BY DEF SyncFetch, provider, tables, outside, IInv, RestOK
<1> HIDE DEF r
<1> QED
  BY <1>4, <1>5, <1>7, <1>8, HoldsNothing, Turns

LEMMA SyncWriteKeeps ==
  ASSUME IInv, NEW s \in Sessions, SyncWrite(s) PROVE IInv'
<1> DEFINE r == [IdleSession EXCEPT !.op = "sync_queue", !.todo = Oldest]
<1>1. r \in Session
  BY OldestTyped DEF IdleSession, Session, Ops
<1>2. Shape(r) /\ \A w \in Wallets : ~HeldBy(r, w)
  BY DEF IdleSession, Shape, HeldBy, Working
<1>3. LedgerOK'
  BY DEF SyncWrite, IInv, LedgerOK, Session
<1>4. RestOK'
  BY DEF SyncWrite, provider, outside, IInv, RestOK
<1>5. ASSUME NEW w \in Wallets, balance'[w] # balance[w] \/ pending'[w] # pending[w]
      PROVE  RowFree(s, w)
  BY <1>5 DEF SyncWrite, CanFlush
<1>6. sess' = [sess EXCEPT ![s] = r]
  BY DEF SyncWrite
<1> HIDE DEF r
<1> QED
  BY <1>1, <1>2, <1>3, <1>4, <1>5, <1>6, Stores

\* The sync task reserves what is left of the committed balance.
LEMMA SyncTurnGrants ==
  ASSUME IInv, NEW s \in Sessions, sess[s].op = "sync_queue",
         NEW p \in Waiting, NEW w \in Fitting(s, p)
  PROVE  /\ w \in Wallets /\ Need[p] \in Nat /\ pending[w] \in Nat /\ balance[w] \in Nat
         /\ pending[w] + Need[p] <= balance[w]
<1>1. w \in Wallets /\ Need[p] \in Nat
  BY Constants DEF Fitting
<1>2. ~HeldBy(sess[s], w)
  BY <1>1 DEF IInv, Shape, Resting
<1>3. balance[w] \in Nat /\ pending[w] \in Nat
  BY <1>1 DEF IInv, LedgerOK
<1>4. balance[w] - pending[w] - 0 >= Need[p]
  BY <1>2 DEF Fitting, Available, Balance, HeldBy
<1> QED
  BY <1>1, <1>3, <1>4

LEMMA SyncTurnKeeps ==
  ASSUME IInv, NEW s \in Sessions, SyncTurn(s) PROVE IInv'
<1>1. PICK i \in DOMAIN Arrival :
        /\ \/ \E w \in Fitting(s, Arrival[i]) :
                /\ RowFree(s, w)
                /\ pending' = [pending EXCEPT ![w] = @ + Need[Arrival[i]]]
                /\ place' = [place EXCEPT ![Arrival[i]] = w]
           \/ UNCHANGED <<pending, place>>
        /\ sess' = [sess EXCEPT ![s].todo = @ \ {i}]
  BY DEF SyncTurn
<1> DEFINE r == [sess[s] EXCEPT !.todo = @ \ {i}]
<1>2. sess[s] \in Session /\ Shape(sess[s]) /\ sess[s].op = "sync_queue"
  BY DEF IInv, SyncTurn
<1>3. Arrival[i] \in Waiting
  BY Constants
<1>4. r \in Session /\ sess' = [sess EXCEPT ![s] = r]
  BY <1>1, <1>2 DEF Session, IInv
<1>5. \A w \in Wallets : ~HeldBy(sess[s], w)
  BY <1>2 DEF Shape, Resting
<1>6. Shape(r) /\ \A w \in Wallets : ~HeldBy(r, w)
  BY <1>2, <1>5 DEF Shape, HeldBy, Resting, Working, Session
<1>7. LedgerOK' /\ RestOK' /\ \A w \in Wallets :
        balance'[w] # balance[w] \/ pending'[w] # pending[w] => RowFree(s, w)
  <2>1. CASE UNCHANGED <<pending, place>>
    BY <2>1 DEF SyncTurn, provider, outside, IInv, LedgerOK, RestOK
  <2>2. CASE ~ UNCHANGED <<pending, place>>
    <3>1. PICK w \in Fitting(s, Arrival[i]) :
            /\ RowFree(s, w)
            /\ pending' = [pending EXCEPT ![w] = @ + Need[Arrival[i]]]
            /\ place' = [place EXCEPT ![Arrival[i]] = w]
      BY <1>1, <2>2
    <3>2. w \in Wallets /\ Need[Arrival[i]] \in Nat
      BY <1>2, <1>3, SyncTurnGrants
    <3>3. LedgerOK'
      BY <3>1, <3>2 DEF SyncTurn, IInv, LedgerOK
    <3>4. RestOK'
      BY <1>3, <3>1, <3>2 DEF SyncTurn, provider, outside, IInv, RestOK
    <3> QED
      BY <3>1, <3>3, <3>4 DEF SyncTurn, IInv, LedgerOK
  <2> QED
    BY <2>1, <2>2
<1> HIDE DEF r
<1> QED
  BY <1>4, <1>6, <1>7, Stores

LEMMA SyncEndKeeps ==
  ASSUME IInv, NEW s \in Sessions, SyncEnd(s) PROVE IInv'
<1>1. RestOK'
  BY DEF SyncEnd, provider, tables, outside, IInv, RestOK
<1> QED
  BY <1>1, ClosedKeeps DEF SyncEnd, tables

LEMMA AbortKeeps ==
  ASSUME IInv, NEW s \in Sessions, Abort(s) PROVE IInv'
<1>1. sess[s].tx \in Txs
  BY DEF Abort, IInv, Session
<1>2. RestOK'
  BY <1>1 DEF Abort, provider, tables, outside, IInv, RestOK
<1> QED
  BY <1>2, ClosedKeeps DEF Abort, tables

-----------------------------------------------------------------------------
LEMMA InitHolds == Init => IInv
<1> SUFFICES ASSUME Init PROVE IInv
  OBVIOUS
<1>1. RestOK /\ LedgerOK
  BY Constants DEF Init, RestOK, LedgerOK
<1>2. \A s \in Sessions : sess[s] = IdleSession
  BY DEF Init
<1>3. sess \in [Sessions -> Session]
  BY IdleIsSession DEF Init
<1> QED
  BY <1>1, <1>2, <1>3, IdleIsSession, IdleHolds, HoldsNothing DEF IInv, Alone

LEMMA StepKeeps ==
  ASSUME IInv, NEW s \in Sessions, Step(s) \/ SyncRead(s) \/ Abort(s)
  PROVE  IInv'
BY RecordInsertKeeps, RecordConflictKeeps, RecordUpdateKeeps, NotifyKeeps,
   QueueTurnKeeps, QueueSkipKeeps, QueueEndKeeps, CommitKeeps, SyncReadKeeps,
   SyncFetchKeeps, SyncWriteKeeps, SyncTurnKeeps, SyncEndKeeps, AbortKeeps DEF Step

LEMMA NextKeeps ==
  ASSUME IInv, [Next]_vars PROVE IInv'
<1>1. CASE \E s \in Sessions : Step(s) \/ SyncRead(s) \/ Abort(s)
  BY <1>1, StepKeeps
<1>2. CASE \E s \in Sessions, x \in Txs : Deliver(s, x) \/ MoveCreate(s, x)
  BY <1>2, RecordBeginKeeps, MoveBeginKeeps, MoveCreateKeeps DEF Deliver
<1>3. CASE \E x \in Txs : Provider(x)
  BY <1>3, ProviderKeeps
<1>4. CASE \E x \in Txs, st \in Statuses : MoveIgnored(x, st)
  BY <1>4, MoveIgnoredKeeps
<1>5. CASE UNCHANGED vars
  <2>1. RestOK'
    BY <1>5 DEF vars, provider, tables, outside, IInv, RestOK
  <2> QED
    BY <1>5, <2>1, Untouched DEF vars, tables
<1> QED
  BY <1>1, <1>2, <1>3, <1>4, <1>5 DEF Next

-----------------------------------------------------------------------------
(* A reservation that becomes visible *)

Granted == \A w \in Wallets : pending'[w] > pending[w] => pending'[w] <= balance'[w]

LEMMA CommitGrants ==
  ASSUME IInv, MovesSpareHot, NEW s \in Sessions, Commit(s) PROVE Granted
<1> SUFFICES ASSUME NEW w \in Wallets, pending'[w] > pending[w]
             PROVE  pending'[w] <= balance'[w]
  BY DEF Granted
<1>1. sess[s] \in Session /\ Backed(sess[s], w)
  BY DEF IInv
<1>2. pending'[w] = pending[w] + sess[s].add[w] /\ pending[w] \in Nat /\ sess[s].add[w] \in Nat
  BY <1>1 DEF Commit, CommitPending, IInv, LedgerOK, Session
<1>3. sess[s].add[w] > 0
  BY <1>2
<1>4. pending[w] + sess[s].add[w] <= InHand(sess[s], w) /\ (w \in Hot \/ sess[s].late = None)
  BY <1>1, <1>3 DEF Backed
<1>5. balance'[w] = InHand(sess[s], w)
  BY <1>4, FlushedRows DEF Commit, InHand
<1> QED
  BY <1>2, <1>4, <1>5

LEMMA SyncTurnGranted ==
  ASSUME IInv, NEW s \in Sessions, SyncTurn(s) PROVE Granted
<1> SUFFICES ASSUME NEW v \in Wallets, pending'[v] > pending[v]
             PROVE  pending'[v] <= balance'[v]
  BY DEF Granted
<1>1. pending \in [Wallets -> Nat] /\ balance' = balance /\ sess[s].op = "sync_queue"
  BY DEF SyncTurn, IInv, LedgerOK
<1>2. pending' # pending
  BY <1>1
<1>3. PICK i \in DOMAIN Arrival : \E w \in Fitting(s, Arrival[i]) :
        pending' = [pending EXCEPT ![w] = @ + Need[Arrival[i]]]
  BY <1>2 DEF SyncTurn
<1>4. PICK w \in Fitting(s, Arrival[i]) :
        pending' = [pending EXCEPT ![w] = @ + Need[Arrival[i]]]
  BY <1>3
<1>5. v = w
  BY <1>1, <1>4
<1>6. pending[w] + Need[Arrival[i]] <= balance[w] /\ w \in Wallets
  BY <1>1, SyncTurnGrants, Constants
<1> QED
  BY <1>1, <1>4, <1>5, <1>6

LEMMA SteadyPending ==
  ASSUME IInv, UNCHANGED pending PROVE Granted
BY DEF Granted, IInv, LedgerOK

LEMMA NextGrants ==
  ASSUME IInv, MovesSpareHot, [Next]_vars PROVE Granted
<1>1. ASSUME NEW s \in Sessions, Step(s) \/ SyncRead(s) \/ Abort(s) PROVE Granted
  <2>1. CASE Commit(s)
    BY <2>1, CommitGrants
  <2>2. CASE SyncTurn(s)
    BY <2>2, SyncTurnGranted
  <2>3. CASE RecordInsert(s) \/ RecordConflict(s) \/ RecordUpdate(s) \/ Notify(s)
    BY <2>3, SteadyPending DEF RecordInsert, RecordConflict, RecordUpdate, Notify, tables
  <2>4. CASE QueueTurn(s) \/ QueueSkip(s) \/ QueueEnd(s)
    BY <2>4, SteadyPending DEF QueueTurn, QueueSkip, QueueEnd, tables
  <2>5. CASE SyncRead(s) \/ SyncFetch(s) \/ SyncWrite(s) \/ SyncEnd(s) \/ Abort(s)
    BY <2>5, SteadyPending DEF SyncRead, SyncFetch, SyncWrite, SyncEnd, Abort, tables
  <2> QED
    BY <1>1, <2>1, <2>2, <2>3, <2>4, <2>5 DEF Step
<1>2. ASSUME NEW s \in Sessions, NEW x \in Txs, Deliver(s, x) \/ MoveCreate(s, x)
      PROVE  Granted
  BY <1>2, SteadyPending DEF Deliver, RecordBegin, MoveBegin, MoveCreate, tables
<1>3. ASSUME NEW x \in Txs, Provider(x) PROVE Granted
  BY <1>3, SteadyPending
  DEF Provider, ProviderStarts, ProviderCompletes, ProviderFails, tables
<1>4. ASSUME NEW x \in Txs, NEW st \in Statuses, MoveIgnored(x, st) PROVE Granted
  BY <1>4, SteadyPending DEF MoveIgnored, tables
<1>5. CASE UNCHANGED vars
  BY <1>5, SteadyPending DEF vars, tables
<1> QED
  BY <1>1, <1>2, <1>3, <1>4, <1>5 DEF Next

(* The types hold, and no balance or reservation is ever negative, whatever webhooks
   overwrite, lower and repeat (dao/webhook/service.py:331-335). *)
THEOREM TypesHold == Spec => []TypeOK
<1>1. Init => IInv
  BY InitHolds
<1>2. IInv /\ [Next]_vars => IInv'
  BY NextKeeps
<1>3. IInv => TypeOK
  BY Types
<1> QED
  BY <1>1, <1>2, <1>3, PTL DEF Spec

(* However many webhooks, queue runs and sync rounds overlap, and in whatever order
   events come: a reservation becomes visible only within the balance committed with
   it, as long as no move is taken from a HOT wallet (dao/transfer.py:51-82,
   dao/webhook/update.py:184-188). *)
THEOREM GrantsAreCommitted == ASSUME MovesSpareHot PROVE Spec => GrantedOnCommitted
<1>1. Init => IInv
  BY InitHolds
<1>2. IInv /\ [Next]_vars => IInv'
  BY NextKeeps
<1>3. IInv /\ [Next]_vars =>
        [\A w \in Wallets : pending'[w] > pending[w] => pending'[w] <= balance'[w]]_vars
  BY NextGrants DEF Granted
<1> QED
  BY <1>1, <1>2, <1>3, PTL DEF Spec, GrantedOnCommitted

-----------------------------------------------------------------------------
(* No deposit is unknown.  What is quiet says nothing of a deposit under way, so the
   invariant follows it: recorded, its first event still to come, or in some session;
   and the status of a record, or of one about to be committed, has been published, or
   its publish was tried and failed. *)

EventsArrive == \A x \in Txs : 0 \notin Copies[x]["CONFIRMING"]
NullIsNoStatus == None \notin Statuses

Tried(x) == told[x] \cup unsent[x]

Carries(r, x) == r.tx = x /\ r.op \in Working

Underway(x) ==
  \/ record[x] # None
  \/ inbox[x]["CONFIRMING"] > 0
  \/ \E s \in Sessions : Carries(sess[s], x)

Follows(r) ==
  r.op \in Working /\ Kind[r.tx] # "move" =>
    /\ r.st \in Statuses
    /\ r.found # None => record[r.tx] # None
    /\ r.op = "commit" /\ Notifies(r.tx) => r.st \in Tried(r.tx)

DInv ==
  /\ \A x \in Txs \ aborted : Notifies(x) /\ fb[x] # "none" => Underway(x)
  /\ \A x \in Txs : Notifies(x) /\ record[x] # None => record[x] \in Tried(x)
  /\ \A s \in Sessions : Follows(sess[s])

LEMMA DInitHolds == Init => DInv
BY DEF Init, DInv, Follows, IdleSession, Working

LEMMA DUntouched ==
  ASSUME DInv, UNCHANGED <<fb, inbox, record, told, unsent, aborted, sess>> PROVE DInv'
BY DEF DInv, Tried, Underway, Carries, Follows, Notifies

\* A session goes on with its transaction.
LEMMA GoesOn ==
  ASSUME DInv, NEW s \in Sessions, sess[s].op \in Working, sess'[s].op \in Working,
         sess'[s].tx = sess[s].tx, sess'[s].st = sess[s].st, sess'[s].found = sess[s].found,
         \A z \in Sessions \ {s} : sess'[z] = sess[z],
         UNCHANGED <<fb, inbox, record, aborted>>, \A x \in Txs : Tried(x) \subseteq Tried(x)',
         sess[s].tx \in Txs,
         sess'[s].op = "commit" /\ Notifies(sess[s].tx) => sess[s].st \in Tried(sess[s].tx)',
         \A z \in Sessions : sess[z].op \in Working => sess[z].tx \in Txs
  PROVE  DInv'
<1>1. \A x \in Txs : Underway(x) => Underway(x)'
  BY DEF Underway, Carries
<1>2. \A z \in Sessions : Follows(sess[z])'
  BY DEF DInv, Follows, Notifies
<1> QED
  BY <1>1, <1>2 DEF DInv, Notifies

\* A session without a transaction stays so.
LEMMA StaysAside ==
  ASSUME DInv, NEW s \in Sessions, sess[s].op \notin Working, sess'[s].op \notin Working,
         \A z \in Sessions \ {s} : sess'[z] = sess[z],
         UNCHANGED <<fb, inbox, record, told, unsent, aborted>>
  PROVE  DInv'
<1>1. \A x \in Txs : Underway(x) => Underway(x)'
  BY DEF Underway, Carries
<1>2. \A z \in Sessions : Follows(sess[z])'
  BY DEF DInv, Follows, Notifies, Tried
<1> QED
  BY <1>1, <1>2 DEF DInv, Notifies, Tried

\* A session closes when the record of its deposit is there, or it has failed.
LEMMA Closes ==
  ASSUME DInv, NEW s \in Sessions, sess' = [sess EXCEPT ![s] = IdleSession],
         sess \in [Sessions -> Session], UNCHANGED <<fb, inbox, told, unsent>>,
         \A x \in Txs : record[x] # None => record'[x] # None,
         \A z \in Sessions : sess[z].op \in Working => sess[z].tx \in Txs,
         \A x \in Txs : Notifies(x) /\ record'[x] # None => record'[x] \in Tried(x),
         aborted \subseteq aborted',
         Carries(sess[s], sess[s].tx) /\ Notifies(sess[s].tx) =>
           record'[sess[s].tx] # None \/ sess[s].tx \in aborted'
  PROVE  DInv'
<1>1. sess'[s].op = "idle" /\ \A z \in Sessions \ {s} : sess'[z] = sess[z]
  BY DEF IdleSession
<1>2. ASSUME NEW x \in Txs, x \notin aborted', Notifies(x), Underway(x) PROVE Underway(x)'
  BY <1>1, <1>2 DEF Underway, Carries
<1>3. \A z \in Sessions : Follows(sess[z])'
  BY <1>1 DEF DInv, Follows, Notifies, Working, Tried
<1> QED
  BY <1>2, <1>3 DEF DInv, Notifies, Tried

LEMMA WorkingTx ==
  ASSUME IInv PROVE \A z \in Sessions : sess[z].op \in Working => sess[z].tx \in Txs
BY DEF IInv, Shape

LEMMA QueueFields ==
  ASSUME IInv, NEW s \in Sessions, QueueTurn(s) \/ QueueSkip(s)
  PROVE  /\ sess'[s].tx = sess[s].tx /\ sess'[s].st = sess[s].st
         /\ sess'[s].found = sess[s].found /\ sess'[s].op = "queue"
         /\ \A z \in Sessions \ {s} : sess'[z] = sess[z]
<1>1. sess \in [Sessions -> Session] /\ sess[s] \in Session /\ sess[s].op = "queue"
  BY DEF IInv, QueueTurn, QueueSkip
<1>2. CASE QueueTurn(s)
  <2>1. PICK i \in DOMAIN Arrival, w \in Wallets : Reserved(s, i, w)
    BY <1>2, Constants DEF QueueTurn, Fitting
  <2> DEFINE r == [sess[s] EXCEPT !.add[w] = @ + Need[Arrival[i]], !.picked[Arrival[i]] = w,
                                  !.todo = @ \ {i}, !.put = Flushed(s), !.late = None]
  <2>2. sess' = [sess EXCEPT ![s] = r]
    BY <1>1, <2>1 DEF Reserved, Session
  <2>3. r.tx = sess[s].tx /\ r.st = sess[s].st /\ r.found = sess[s].found /\ r.op = "queue"
    BY <1>1 DEF Session
  <2> QED
    BY <1>1, <2>2, <2>3
<1>3. CASE QueueSkip(s)
  <2>1. PICK i \in DOMAIN Arrival :
          sess' = [sess EXCEPT ![s].todo = @ \ {i}, ![s].put = Flushed(s), ![s].late = None]
    BY <1>3 DEF QueueSkip
  <2> QED
    BY <1>1, <2>1 DEF Session
<1> QED
  BY <1>2, <1>3

LEMMA RoundFields ==
  ASSUME IInv, NEW s \in Sessions,
         SyncRead(s) \/ SyncFetch(s) \/ SyncWrite(s) \/ SyncTurn(s) \/ SyncEnd(s)
  PROVE  /\ sess'[s].op \in {"idle", "sync_fetch", "sync_queue"}
         /\ \A z \in Sessions \ {s} : sess'[z] = sess[z]
<1>1. sess \in [Sessions -> Session] /\ sess[s] \in Session
  BY DEF IInv
<1>2. CASE SyncRead(s)
  BY <1>1, <1>2 DEF SyncRead, Session
<1>3. CASE SyncFetch(s)
  BY <1>1, <1>3 DEF SyncFetch, Session
<1>4. CASE SyncWrite(s)
  BY <1>1, <1>4 DEF SyncWrite, IdleSession
<1>5. CASE SyncTurn(s)
  <2>1. PICK i \in DOMAIN Arrival : sess' = [sess EXCEPT ![s].todo = @ \ {i}]
    BY <1>5 DEF SyncTurn
  <2> QED
    BY <1>1, <1>5, <2>1 DEF SyncTurn, Session
<1>6. CASE SyncEnd(s)
  BY <1>1, <1>6 DEF SyncEnd, Close, IdleSession
<1> QED
  BY <1>2, <1>3, <1>4, <1>5, <1>6

LEMMA HandlersFollow ==
  ASSUME IInv, DInv, NEW s \in Sessions,
         RecordInsert(s) \/ RecordUpdate(s) \/ Notify(s) \/ QueueTurn(s) \/ QueueSkip(s)
           \/ QueueEnd(s)
  PROVE  DInv'
<1>1. sess \in [Sessions -> Session] /\ sess[s].tx \in Txs /\ sess[s].op \in Working \ {"commit"}
  BY WorkingTx DEF IInv, RecordInsert, RecordUpdate, Notify, QueueTurn, QueueSkip, QueueEnd,
     Working
<1>2. \A z \in Sessions \ {s} : sess'[z] = sess[z]
  <2>1. CASE RecordInsert(s) \/ RecordUpdate(s)
    BY <1>1, <2>1 DEF RecordInsert, RecordUpdate, Goes
  <2>2. CASE Notify(s) \/ QueueEnd(s)
    BY <1>1, <2>2 DEF Notify, QueueEnd
  <2> QED
    BY <2>1, <2>2, QueueFields
<1>3. sess'[s].tx = sess[s].tx /\ sess'[s].st = sess[s].st /\ sess'[s].found = sess[s].found
  <2>1. CASE RecordInsert(s) \/ RecordUpdate(s)
    BY <1>1, <2>1 DEF RecordInsert, RecordUpdate, Goes, Session
  <2>2. CASE Notify(s) \/ QueueEnd(s)
    BY <1>1, <2>2 DEF Notify, QueueEnd, Session
  <2>3. CASE QueueTurn(s) \/ QueueSkip(s)
    BY <2>3, QueueFields
  <2> QED
    BY <2>1, <2>2, <2>3
<1>4. UNCHANGED <<fb, inbox, record, aborted>> /\ \A x \in Txs : Tried(x) \subseteq Tried(x)'
  <2>1. CASE Notify(s)
    BY <2>1 DEF Notify, Reported, Tried, provider, tables, IInv, RestOK
  <2>2. CASE ~Notify(s)
    BY <2>2 DEF RecordInsert, RecordUpdate, QueueTurn, QueueSkip, QueueEnd, provider, tables,
       outside, Tried
  <2> QED
    BY <2>1, <2>2
<1>5. /\ sess'[s].op \in Working
      /\ sess'[s].op = "commit" /\ Notifies(sess[s].tx) => sess[s].st \in Tried(sess[s].tx)'
  <2>1. CASE RecordInsert(s) \/ RecordUpdate(s)
    BY <1>1, <2>1 DEF RecordInsert, RecordUpdate, Goes, Session, Working
  <2>2. CASE Notify(s)
    BY <1>1, <2>2 DEF Notify, Reported, Tried, Session, Working, IInv, RestOK
  <2>3. CASE QueueEnd(s)
    BY <1>1, <2>3 DEF QueueEnd, Session, Working, Notifies
  <2>4. CASE QueueTurn(s) \/ QueueSkip(s)
    BY <2>4, QueueFields DEF Working
  <2> QED
    BY <2>1, <2>2, <2>3, <2>4
<1> QED
  BY <1>1, <1>2, <1>3, <1>4, <1>5, GoesOn, WorkingTx

LEMMA RoundsFollow ==
  ASSUME IInv, DInv, NEW s \in Sessions,
         SyncRead(s) \/ SyncFetch(s) \/ SyncWrite(s) \/ SyncTurn(s) \/ SyncEnd(s)
  PROVE  DInv'
<1>1. sess \in [Sessions -> Session] /\ sess[s].op \in {"idle", "sync_fetch", "sync_queue"}
  BY DEF IInv, SyncRead, SyncFetch, SyncWrite, SyncTurn, SyncEnd
<1>2. /\ sess'[s].op \in {"idle", "sync_fetch", "sync_queue"}
      /\ \A z \in Sessions \ {s} : sess'[z] = sess[z]
  BY RoundFields
<1>4. UNCHANGED <<fb, inbox, record, told, unsent, aborted>>
  BY DEF SyncRead, SyncFetch, SyncWrite, SyncTurn, SyncEnd, provider, tables, outside
<1> QED
  BY <1>1, <1>2, <1>4, StaysAside DEF Working

LEMMA ConflictFollows ==
  ASSUME IInv, DInv, NEW s \in Sessions, RecordConflict(s) PROVE DInv'
<1>1. UNCHANGED <<fb, inbox, record, told, unsent, aborted>> /\ record[sess[s].tx] # None
  BY DEF RecordConflict, provider, tables, outside
<1> QED
  BY <1>1, Closes, WorkingTx DEF RecordConflict, Close, IInv, DInv

LEMMA AbortFollows ==
  ASSUME IInv, DInv, NEW s \in Sessions, Abort(s) PROVE DInv'
<1>1. UNCHANGED <<fb, inbox, record, told, unsent>> /\ aborted' = aborted \cup {sess[s].tx}
  BY DEF Abort, provider, tables, outside
<1> QED
  BY <1>1, Closes, WorkingTx DEF Abort, Close, IInv, DInv

LEMMA CommitFollows ==
  ASSUME IInv, DInv, NullIsNoStatus, NEW s \in Sessions, Commit(s) PROVE DInv'
<1> DEFINE x == sess[s].tx
<1>1. x \in Txs /\ sess[s].op = "commit" /\ Follows(sess[s]) /\ record \in [Txs -> Statuses \cup {None}]
  BY WorkingTx DEF Commit, Working, IInv, DInv, RestOK
<1>2. UNCHANGED <<fb, inbox, told, unsent, aborted>>
  BY DEF Commit, provider, outside
<1>3. CASE Kind[x] = "move"
  <2>1. record' = record /\ ~Notifies(x)
    BY <1>3 DEF Commit, Notifies
  <2> QED
    BY <1>2, <2>1, Closes, WorkingTx DEF Commit, Close, IInv, DInv
<1>4. CASE Kind[x] # "move"
  <2>1. sess[s].st \in Statuses /\ sess[s].st # None
    BY <1>1, <1>4 DEF Follows, Working, NullIsNoStatus
  <2>2. sess[s].found # None => record[x] # None
    BY <1>1, <1>4 DEF Follows, Working
  <2>3. record'[x] # None /\ \A y \in Txs : y # x => record'[y] = record[y]
    BY <1>1, <1>4, <2>1, <2>2 DEF Commit
  <2>4. Notifies(x) => record'[x] \in Tried(x)
    <3>1. Notifies(x) => sess[s].st \in Tried(x)
      BY <1>1, <1>4 DEF Follows, Working
    <3>2. Notifies(x) /\ record[x] # None => record[x] \in Tried(x)
      BY <1>1 DEF DInv
    <3> QED
      BY <1>1, <1>4, <2>2, <3>1, <3>2, <2>1 DEF Commit
  <2> QED
    BY <1>1, <1>2, <2>3, <2>4, Closes, WorkingTx DEF Commit, Close, IInv, DInv
<1> QED
  BY <1>3, <1>4

LEMMA DeliverFollows ==
  ASSUME IInv, DInv, NEW s \in Sessions, NEW x \in Txs, NEW st \in Statuses,
         RecordBegin(s, x, st) \/ MoveBegin(s, x, st)
  PROVE  DInv'
<1>1. sess \in [Sessions -> Session] /\ inbox \in [Txs -> [Statuses -> Nat]] /\ sess[s].op = "idle"
  BY DEF IInv, RestOK, RecordBegin, MoveBegin
<1>2. \A z \in Sessions \ {s} : sess'[z] = sess[z]
  BY <1>1 DEF RecordBegin, MoveBegin
<1>3. sess'[s].tx = x /\ sess'[s].op \in Working /\ sess'[s].st = st
      /\ (Kind[x] # "move" => sess'[s].found = record[x] /\ sess'[s].op = "record")
  <2>1. CASE RecordBegin(s, x, st)
    BY <1>1, <2>1 DEF RecordBegin, IdleSession, Working
  <2>2. CASE MoveBegin(s, x, st)
    BY <1>1, <2>2 DEF MoveBegin, IdleSession, Working
  <2> QED
    BY <2>1, <2>2
<1>4. UNCHANGED <<fb, record, told, unsent, aborted>>
      /\ \A y \in Txs : y # x => inbox'[y] = inbox[y]
  BY <1>1 DEF RecordBegin, MoveBegin, Taken, tables, outside
<1>5. \A y \in Txs : Underway(y) => Underway(y)'
  BY <1>1, <1>2, <1>3, <1>4 DEF Underway, Carries, Working
<1>6. \A z \in Sessions : Follows(sess[z])'
  BY <1>2, <1>3, <1>4 DEF DInv, Follows, Notifies, Tried
<1> QED
  BY <1>4, <1>5, <1>6 DEF DInv, Notifies, Tried

\* No event of a move is an event of a deposit.
LEMMA MovesAside ==
  ASSUME IInv, DInv, NEW x \in Txs, Kind[x] = "move",
         \A y \in Txs : y # x => inbox'[y] = inbox[y] /\ fb'[y] = fb[y],
         UNCHANGED <<record, told, unsent, aborted>>,
         \/ UNCHANGED sess
         \/ \E s \in Sessions : /\ sess[s].op = "idle" /\ sess'[s].tx = x
                                /\ \A z \in Sessions \ {s} : sess'[z] = sess[z]
  PROVE  DInv'
<1>1. \A y \in Txs : y # x /\ Underway(y) => Underway(y)'
  BY DEF Underway, Carries, Working
<1>2. \A z \in Sessions : Follows(sess[z])'
  BY DEF DInv, Follows, Notifies, Tried
<1>3. ~Notifies(x)
  BY DEF Notifies
<1> QED
  BY <1>1, <1>2, <1>3 DEF DInv, Notifies, Tried

LEMMA MovesFollow ==
  ASSUME IInv, DInv, NEW x \in Txs, 
         (\E s \in Sessions : MoveCreate(s, x)) \/ (\E st \in Statuses : MoveIgnored(x, st))
  PROVE  DInv'
<1>1. inbox \in [Txs -> [Statuses -> Nat]] /\ fb \in [Txs -> Statuses \cup {"none"}]
      /\ sess \in [Sessions -> Session]
  BY DEF IInv, RestOK
<1>2. CASE \E s \in Sessions : MoveCreate(s, x)
  <2>1. PICK s \in Sessions : MoveCreate(s, x)
    BY <1>2
  <2>2. sess'[s].tx = x /\ \A z \in Sessions \ {s} : sess'[z] = sess[z]
    BY <1>1, <2>1 DEF MoveCreate, Session
  <2>3. \A y \in Txs : y # x => inbox'[y] = inbox[y] /\ fb'[y] = fb[y]
    BY <1>1, <2>1 DEF MoveCreate, Emit
  <2> QED
    BY <2>1, <2>2, <2>3, MovesAside DEF MoveCreate, tables, outside
<1>3. CASE \E st \in Statuses : MoveIgnored(x, st)
  BY <1>1, <1>3, MovesAside DEF MoveIgnored, Taken, tables, outside
<1> QED
  BY <1>2, <1>3

LEMMA ProviderFollows ==
  ASSUME IInv, DInv, EventsArrive, NEW x \in Txs, Provider(x) PROVE DInv'
<1>1. inbox \in [Txs -> [Statuses -> Nat]] /\ fb \in [Txs -> Statuses \cup {"none"}]
  BY DEF IInv, RestOK
<1>2. UNCHANGED <<record, told, unsent, aborted, sess>>
  BY DEF Provider, ProviderStarts, ProviderCompletes, ProviderFails, tables, outside
<1>3. PICK st \in Statuses : /\ Emit(x, st)
                             /\ st # "CONFIRMING" => fb[x] = "CONFIRMING"
  BY DEF Provider, ProviderStarts, ProviderCompletes, ProviderFails, Statuses
<1>4. PICK n \in Copies[x][st] : inbox' = [inbox EXCEPT ![x][st] = n]
  BY <1>3 DEF Emit
<1>5. \A y \in Txs : y # x => inbox'[y] = inbox[y] /\ fb'[y] = fb[y]
  BY <1>1, <1>3, <1>4 DEF Emit
<1>6. CASE st = "CONFIRMING"
  <2>1. n \in Nat /\ n # 0
    BY <1>6, Constants DEF EventsArrive
  <2>2. inbox'[x]["CONFIRMING"] > 0
    BY <1>1, <1>4, <1>6, <2>1
  <2>3. \A y \in Txs : y = x \/ Underway(y) => Underway(y)'
    BY <1>2, <1>5, <2>2 DEF Underway, Carries
  <2> QED
    BY <1>2, <1>5, <2>3 DEF DInv, Notifies, Follows, Tried
<1>7. CASE st # "CONFIRMING"
  <2>1. inbox'[x]["CONFIRMING"] = inbox[x]["CONFIRMING"] /\ fb[x] # "none"
    BY <1>1, <1>3, <1>4, <1>7 DEF Statuses
  <2>2. \A y \in Txs : Underway(y) => Underway(y)'
    BY <1>2, <1>5, <2>1 DEF Underway, Carries
  <2> QED
    BY <1>2, <1>5, <2>1, <2>2 DEF DInv, Notifies, Follows, Tried
<1> QED
  BY <1>6, <1>7

LEMMA DNextHolds ==
  ASSUME IInv, DInv, EventsArrive, NullIsNoStatus, [Next]_vars PROVE DInv'
<1>1. ASSUME NEW s \in Sessions, Step(s) \/ SyncRead(s) \/ Abort(s) PROVE DInv'
  BY <1>1, HandlersFollow, RoundsFollow, ConflictFollows, AbortFollows, CommitFollows DEF Step
<1>2. ASSUME NEW s \in Sessions, NEW x \in Txs, Deliver(s, x) \/ MoveCreate(s, x)
      PROVE  DInv'
  BY <1>2, DeliverFollows, MovesFollow DEF Deliver
<1>3. ASSUME NEW x \in Txs, Provider(x) PROVE DInv'
  BY <1>3, ProviderFollows
<1>4. ASSUME NEW x \in Txs, NEW st \in Statuses, MoveIgnored(x, st) PROVE DInv'
  BY <1>4, MovesFollow
<1>5. CASE UNCHANGED vars
  BY <1>5, DUntouched DEF vars, provider, tables, outside
<1> QED
  BY <1>1, <1>2, <1>3, <1>4, <1>5 DEF Next

LEMMA QuietIsKnown == DInv => NoDepositUnknown
<1> SUFFICES ASSUME DInv, NEW x \in Txs, Notifies(x)
             PROVE  /\ Quiet /\ fb[x] # "none" /\ x \notin aborted => record[x] # None
                    /\ record[x] # None => record[x] \in Tried(x)
  BY DEF NoDepositUnknown, Tried
<1>1. ASSUME Quiet, fb[x] # "none", x \notin aborted PROVE record[x] # None
  <2>1. inbox[x]["CONFIRMING"] = 0
    BY <1>1 DEF Quiet, Statuses
  <2>2. \A s \in Sessions : ~Carries(sess[s], x)
    BY <1>1 DEF Quiet, Carries, IdleSession, Working
  <2> QED
    BY <1>1, <2>1, <2>2 DEF DInv, Underway
<1> QED
  BY <1>1 DEF DInv

(* Whatever the order and number of events and whoever is faster, a deposit whose first
   event is delivered at least once is recorded once all is quiet, unless one of its
   handlers failed; and what is recorded was published to the backend first, or that
   publish failed (dao/webhook/service.py:91-98, api/webhook.py:47-61,
   broker/publisher.py:248-257). *)
THEOREM NoDepositIsUnknown ==
  ASSUME EventsArrive, NullIsNoStatus PROVE Spec => []NoDepositUnknown
<1>1. Init => IInv /\ DInv
  BY InitHolds, DInitHolds
<1>2. IInv /\ DInv /\ [Next]_vars => (IInv /\ DInv)'
  BY NextKeeps, DNextHolds
<1>3. IInv /\ DInv => NoDepositUnknown
  BY QuietIsKnown
<1> QED
  BY <1>1, <1>2, <1>3, PTL DEF Spec

-----------------------------------------------------------------------------
(* No reservation is lost.  A webhook reserves in its own session and the sums change
   only when it commits, so the invariant says of every session that what it is about
   to add covers what it is about to give away. *)

Taking(r, w) == {p \in Waiting : r.picked[p] = w}
Placed(w) == {p \in Waiting : place[p] = w}
Moves(w) == {x \in moved : Source[x] = w}

Reserves(r) ==
  /\ \A w \in Wallets : IsFiniteSet(Taking(r, w)) /\ SumOf(Need, Taking(r, w)) <= r.add[w]
  /\ r.op = "idle" => \A p \in Waiting : r.picked[p] = None
  /\ r.op = "commit" /\ r.st = None =>
       /\ \A p \in Waiting : r.picked[p] = None
       /\ Source[r.tx] \in Wallets => Amount[r.tx] <= r.add[Source[r.tx]]

Kept ==
  \A w \in Wallets : /\ IsFiniteSet(Placed(w)) /\ IsFiniteSet(Moves(w))
                     /\ SumOf(Need, Placed(w)) + SumOf(Amount, Moves(w)) <= pending[w]

KInv == Kept /\ \A s \in Sessions : Reserves(sess[s])

LEMMA NoneTaken ==
  ASSUME NEW r, \A p \in Waiting : r.picked[p] = None, NEW w \in Wallets
  PROVE  Taking(r, w) = {} /\ IsFiniteSet(Taking(r, w)) /\ SumOf(Need, Taking(r, w)) = 0
<1>1. None \notin Wallets
  BY DepositsAssumption DEF DepositsAssumption
<1>2. Taking(r, w) = {}
  BY <1>1 DEF Taking
<1> QED
  BY <1>2, SumEmpty, FS_EmptySet

\* The tables do not change, and neither does what other sessions reserve.
LEMMA KSession ==
  ASSUME KInv, UNCHANGED <<pending, place, moved>>, NEW s \in Sessions,
         \A z \in Sessions \ {s} : sess'[z] = sess[z], Reserves(sess'[s])
  PROVE  KInv'
<1>1. Kept'
  BY DEF KInv, Kept, Placed, Moves
<1>2. \A z \in Sessions : Reserves(sess'[z])
  BY DEF KInv
<1> QED
  BY <1>1, <1>2 DEF KInv, Reserves, Taking

LEMMA KUntouched ==
  ASSUME KInv, UNCHANGED <<pending, place, moved, sess>> PROVE KInv'
BY DEF KInv, Kept, Placed, Moves, Reserves, Taking

\* A session goes on with the reservations it has made.
LEMMA KGoesOn ==
  ASSUME KInv, UNCHANGED <<pending, place, moved>>, NEW s \in Sessions,
         \A z \in Sessions \ {s} : sess'[z] = sess[z],
         sess'[s].picked = sess[s].picked, sess'[s].add = sess[s].add,
         sess'[s].st = sess[s].st, sess'[s].op # "idle",
         sess'[s].op = "commit" => sess[s].st # None
  PROVE  KInv'
<1>1. Reserves(sess[s])
  BY DEF KInv
<1>2. \A w \in Wallets : Taking(sess'[s], w) = Taking(sess[s], w)
  BY DEF Taking
<1>3. Reserves(sess'[s])
  BY <1>1, <1>2 DEF Reserves
<1> QED
  BY <1>3, KSession

\* A session starts, or is over: it reserves nothing.
LEMMA NothingReserved ==
  ASSUME NEW r, \A p \in Waiting : r.picked[p] = None, \A w \in Wallets : r.add[w] = 0,
         r.op # "commit"
  PROVE  Reserves(r)
<1>1. \A w \in Wallets : IsFiniteSet(Taking(r, w)) /\ SumOf(Need, Taking(r, w)) = 0
  BY NoneTaken
<1> QED
  BY <1>1 DEF Reserves

LEMMA IdleReserves ==
  /\ \A p \in Waiting : IdleSession.picked[p] = None
  /\ \A w \in Wallets : IdleSession.add[w] = 0
  /\ IdleSession.op # "commit"
BY DEF IdleSession

LEMMA KCloses ==
  ASSUME IInv, KInv, UNCHANGED <<pending, place, moved>>, NEW s \in Sessions, Close(s)
  PROVE  KInv'
<1>1. sess'[s] = IdleSession /\ \A z \in Sessions \ {s} : sess'[z] = sess[z]
  BY DEF Close, IInv
<1>2. Reserves(sess'[s])
  BY <1>1, IdleReserves, NothingReserved
<1> QED
  BY <1>1, <1>2, KSession

\* A handler goes on: what it reserved is unchanged, and it has an event.
LEMMA HandlersReserve ==
  ASSUME IInv, KInv, NullIsNoStatus, NEW s \in Sessions,
         RecordInsert(s) \/ RecordUpdate(s) \/ Notify(s) \/ QueueEnd(s)
  PROVE  KInv'
<1>1. sess[s].op \in {"record", "queue", "notify"} /\ sess[s] \in Session
  <2>1. sess[s].op \in {"record", "queue", "notify"}
    BY DEF RecordInsert, RecordUpdate, Notify, QueueEnd
  <2> QED
    BY <2>1 DEF IInv
<1>2. sess[s].st # None
  BY <1>1 DEF IInv, Shape, Working, NullIsNoStatus
<1>3. /\ \A z \in Sessions \ {s} : sess'[z] = sess[z]
      /\ sess'[s].picked = sess[s].picked /\ sess'[s].add = sess[s].add
      /\ sess'[s].st = sess[s].st /\ sess'[s].op # "idle"
      /\ UNCHANGED <<pending, place, moved>>
  <2>1. CASE RecordInsert(s)
    BY <1>1, <2>1 DEF RecordInsert, Goes, tables, IInv, Session
  <2>2. CASE RecordUpdate(s)
    BY <1>1, <2>2 DEF RecordUpdate, Goes, tables, IInv, Session
  <2>3. CASE Notify(s) \/ QueueEnd(s)
    BY <1>1, <2>3 DEF Notify, QueueEnd, tables, IInv, Session
  <2> QED
    BY <2>1, <2>2, <2>3
<1> QED
  BY <1>2, <1>3, KGoesOn

LEMMA QueueSkipReserves ==
  ASSUME IInv, KInv, NEW s \in Sessions, QueueSkip(s) PROVE KInv'
<1>1. PICK i \in DOMAIN Arrival :
        sess' = [sess EXCEPT ![s].todo = @ \ {i}, ![s].put = Flushed(s), ![s].late = None]
  BY Zenon DEF QueueSkip
<1> DEFINE r == [sess[s] EXCEPT !.todo = @ \ {i}, !.put = Flushed(s), !.late = None]
<1>2. sess[s] \in Session
  BY DEF IInv
<1>3. sess' = [sess EXCEPT ![s] = r]
  BY <1>1 DEF IInv, Session
<1>4. r.op = sess[s].op /\ r.st = sess[s].st /\ r.picked = sess[s].picked
      /\ r.add = sess[s].add
  BY <1>2 DEF Session
<1> HIDE DEF r
<1>5. sess'[s] = r /\ \A z \in Sessions \ {s} : sess'[z] = sess[z]
  BY <1>3 DEF IInv
<1>6. sess[s].op = "queue" /\ UNCHANGED <<pending, place, moved>>
  BY DEF QueueSkip, tables
<1> QED
  BY <1>4, <1>5, <1>6, KGoesOn

\* A handler begins.
LEMMA DeliverReserves ==
  ASSUME IInv, KInv, NEW s \in Sessions, NEW x \in Txs, Deliver(s, x) PROVE KInv'
<1>1. PICK st \in Statuses : RecordBegin(s, x, st) \/ MoveBegin(s, x, st)
  BY DEF Deliver
<1>2. /\ \A p \in Waiting : sess'[s].picked[p] = None
      /\ \A w \in Wallets : sess'[s].add[w] = 0
      /\ sess'[s].op # "commit"
      /\ \A z \in Sessions \ {s} : sess'[z] = sess[z]
      /\ UNCHANGED <<pending, place, moved>>
  <2>1. CASE RecordBegin(s, x, st)
    BY <2>1 DEF RecordBegin, tables, IdleSession, IInv
  <2>2. CASE MoveBegin(s, x, st)
    BY <2>2 DEF MoveBegin, tables, IdleSession, IInv
  <2> QED
    BY <1>1, <2>1, <2>2
<1> QED
  BY <1>2, NothingReserved, KSession

\* The rounds of the sync task, but for what they reserve.
LEMMA RoundsReserve ==
  ASSUME IInv, KInv, NEW s \in Sessions, SyncRead(s) \/ SyncFetch(s) \/ SyncWrite(s)
  PROVE  KInv'
<1>1. sess[s] \in Session
  BY DEF IInv
<1>2. CASE SyncRead(s) \/ SyncFetch(s)
  <2>1. /\ \A z \in Sessions \ {s} : sess'[z] = sess[z]
        /\ sess'[s].picked = sess[s].picked /\ sess'[s].add = sess[s].add
        /\ sess'[s].st = sess[s].st /\ sess'[s].op = "sync_fetch"
        /\ UNCHANGED <<pending, place, moved>>
    BY <1>1, <1>2 DEF SyncRead, SyncFetch, tables, IInv, Session
  <2> QED
    BY <2>1, KGoesOn
<1>3. CASE SyncWrite(s)
  <2>1. /\ \A p \in Waiting : sess'[s].picked[p] = None
        /\ \A w \in Wallets : sess'[s].add[w] = 0
        /\ sess'[s].op # "commit"
        /\ \A z \in Sessions \ {s} : sess'[z] = sess[z]
        /\ UNCHANGED <<pending, place, moved>>
    BY <1>3 DEF SyncWrite, IdleSession, IInv
  <2> QED
    BY <2>1, NothingReserved, KSession
<1> QED
  BY <1>2, <1>3

\* The API reserves on the source of a move all that it sends.
LEMMA MoveCreateReserves ==
  ASSUME IInv, KInv, NEW s \in Sessions, NEW x \in Txs, MoveCreate(s, x) PROVE KInv'
<1> DEFINE w == Source[x]
           r == [sess[s] EXCEPT !.op = "commit", !.tx = x,
                                !.add = [sess[s].add EXCEPT ![w] = Amount[x]]]
<1>1. sess[s] \in Session /\ Reserves(sess[s]) /\ sess[s].op = "idle"
  BY DEF IInv, KInv, MoveCreate
<1>2. \A p \in Waiting : sess[s].picked[p] = None
  BY <1>1 DEF Reserves
<1>3. w \in Wallets /\ Amount[x] \in Nat
  BY Constants DEF MoveCreate
<1>4. sess' = [sess EXCEPT ![s] = r] /\ UNCHANGED <<pending, place, moved>>
  BY DEF MoveCreate, tables, IInv, Session
<1>5. r.op = "commit" /\ r.tx = x /\ r.picked = sess[s].picked
      /\ r.add = [sess[s].add EXCEPT ![w] = Amount[x]]
  BY <1>1 DEF Session
<1>6. r.add \in [Wallets -> Nat] /\ r.add[w] = Amount[x]
  BY <1>1, <1>3, <1>5 DEF Session
<1> HIDE DEF r
<1>7. \A p \in Waiting : r.picked[p] = None
  BY <1>2, <1>5
<1>8. \A v \in Wallets : IsFiniteSet(Taking(r, v)) /\ SumOf(Need, Taking(r, v)) = 0
  BY <1>7, NoneTaken
<1>9. \A v \in Wallets : SumOf(Need, Taking(r, v)) <= r.add[v]
  BY <1>6, <1>8
<1>10. Reserves(r)
  BY <1>3, <1>5, <1>6, <1>7, <1>8, <1>9 DEF Reserves
<1>11. sess'[s] = r /\ \A z \in Sessions \ {s} : sess'[z] = sess[z]
  BY <1>4 DEF IInv
<1> QED
  BY <1>4, <1>10, <1>11, KSession

\* A transfer is given a wallet: the sum on it grows by its amount at most.
LEMMA NeedGrows ==
  ASSUME NEW S \in SUBSET Waiting, IsFiniteSet(S), NEW p \in Waiting,
         NEW T, T \subseteq S \cup {p}
  PROVE  /\ IsFiniteSet(T) /\ SumOf(Need, S) \in Nat /\ SumOf(Need, T) \in Nat
         /\ SumOf(Need, T) <= SumOf(Need, S) + Need[p]
<1>1. \A q \in Waiting : Need[q] \in Nat
  BY Constants
<1>2. IsFiniteSet(T) /\ SumOf(Need, T) <= SumOf(Need, S) + Need[p]
  BY <1>1, SumGrows
<1>3. T \subseteq Waiting
  OBVIOUS
<1> QED
  BY <1>1, <1>2, <1>3, SumNat

\* A set of them keeps its sum, or loses from it.
LEMMA NeedShrinks ==
  ASSUME NEW S \in SUBSET Waiting, IsFiniteSet(S), NEW T, T \subseteq S
  PROVE  /\ IsFiniteSet(T) /\ SumOf(Need, S) \in Nat /\ SumOf(Need, T) \in Nat
         /\ SumOf(Need, T) <= SumOf(Need, S)
<1>1. \A q \in Waiting : Need[q] \in Nat
  BY Constants
<1>2. IsFiniteSet(T) /\ T \subseteq Waiting
  BY FS_Subset
<1> QED
  BY <1>1, <1>2, SumMonotone, SumNat

LEMMA QueueTurnReserves ==
  ASSUME IInv, KInv, NEW s \in Sessions, QueueTurn(s) PROVE KInv'
<1>1. PICK i \in DOMAIN Arrival :
        \E w \in Fitting(s, Arrival[i]) : RowFree(s, w) /\ Reserved(s, i, w)
  BY DEF QueueTurn
<1>2. PICK w \in Fitting(s, Arrival[i]) : RowFree(s, w) /\ Reserved(s, i, w)
  BY <1>1
<1> DEFINE p == Arrival[i]
           add == [sess[s].add EXCEPT ![w] = @ + Need[p]]
           r == [sess[s] EXCEPT !.add[w] = @ + Need[p], !.picked[p] = w,
                                !.todo = @ \ {i}, !.put = Flushed(s), !.late = None]
<1>3. p \in Waiting /\ Need[p] \in Nat /\ w \in Wallets
  BY <1>2, Constants DEF Fitting
<1>4. sess[s] \in Session /\ Reserves(sess[s])
  BY DEF IInv, KInv
<1>5. sess' = [sess EXCEPT ![s] = r]
  <2>1. sess \in [Sessions -> Session]
    BY DEF IInv
  <2> QED
    BY <1>2, <2>1, ReservedIs, ZenonT(30)
<1>6. r.op = "queue" /\ r.add = add /\ r.picked = [sess[s].picked EXCEPT ![p] = w]
  BY <1>4 DEF QueueTurn, Session
<1> HIDE DEF r
<1>7. ASSUME NEW v \in Wallets
      PROVE  IsFiniteSet(Taking(r, v)) /\ SumOf(Need, Taking(r, v)) <= r.add[v]
  <2>1. /\ Taking(sess[s], v) \in SUBSET Waiting /\ IsFiniteSet(Taking(sess[s], v))
        /\ SumOf(Need, Taking(sess[s], v)) <= sess[s].add[v] /\ sess[s].add[v] \in Nat
    BY <1>4 DEF Reserves, Taking, Session
  <2>2. CASE v = w
    <3>1. Taking(r, v) \subseteq Taking(sess[s], v) \cup {p}
      BY <1>4, <1>6 DEF Taking, Session
    <3>2. /\ IsFiniteSet(Taking(r, v))
          /\ SumOf(Need, Taking(sess[s], v)) \in Nat /\ SumOf(Need, Taking(r, v)) \in Nat
          /\ SumOf(Need, Taking(r, v)) <= SumOf(Need, Taking(sess[s], v)) + Need[p]
      BY <1>3, <2>1, <3>1, NeedGrows
    <3>3. r.add[v] = sess[s].add[v] + Need[p]
      BY <1>3, <1>4, <1>6, <2>2 DEF Session
    <3> QED
      BY <1>3, <2>1, <3>2, <3>3
  <2>3. CASE v # w
    <3>1. Taking(r, v) \subseteq Taking(sess[s], v)
      BY <1>3, <1>4, <1>6, <2>3 DEF Taking, Session
    <3>2. /\ IsFiniteSet(Taking(r, v))
          /\ SumOf(Need, Taking(sess[s], v)) \in Nat /\ SumOf(Need, Taking(r, v)) \in Nat
          /\ SumOf(Need, Taking(r, v)) <= SumOf(Need, Taking(sess[s], v))
      BY <2>1, <3>1, NeedShrinks
    <3>3. r.add[v] = sess[s].add[v]
      BY <1>3, <1>4, <1>6, <2>3 DEF Session
    <3> QED
      BY <2>1, <3>2, <3>3
  <2> QED
    BY <2>2, <2>3
<1>8. Reserves(r)
  BY <1>6, <1>7 DEF Reserves
<1>9. sess'[s] = r /\ \A z \in Sessions \ {s} : sess'[z] = sess[z]
  BY <1>5 DEF IInv
<1>10. UNCHANGED <<pending, place, moved>>
  BY DEF QueueTurn, tables
<1> QED
  BY <1>8, <1>9, <1>10, KSession

\* The sync task stores a reservation at once.
LEMMA SyncTurnReserves ==
  ASSUME IInv, KInv, NEW s \in Sessions, SyncTurn(s) PROVE KInv'
<1>1. PICK i \in DOMAIN Arrival :
        /\ \/ \E w \in Fitting(s, Arrival[i]) :
                /\ pending' = [pending EXCEPT ![w] = @ + Need[Arrival[i]]]
                /\ place' = [place EXCEPT ![Arrival[i]] = w]
           \/ UNCHANGED <<pending, place>>
        /\ sess' = [sess EXCEPT ![s].todo = @ \ {i}]
  BY DEF SyncTurn
<1>2. /\ sess[s] \in Session /\ Reserves(sess[s]) /\ UNCHANGED moved
      /\ sess[s].op = "sync_queue"
  BY DEF IInv, KInv, SyncTurn
<1>3. /\ \A z \in Sessions \ {s} : sess'[z] = sess[z]
      /\ sess'[s].op = "sync_queue" /\ sess'[s].picked = sess[s].picked
      /\ sess'[s].add = sess[s].add
  BY <1>1, <1>2 DEF IInv, Session
<1>4. \A z \in Sessions : Reserves(sess'[z])
  <2>1. \A w \in Wallets : Taking(sess'[s], w) = Taking(sess[s], w)
    BY <1>3 DEF Taking
  <2>2. Reserves(sess'[s])
    BY <1>2, <1>3, <2>1 DEF Reserves
  <2> QED
    BY <1>3, <2>2 DEF KInv
<1>5. CASE UNCHANGED <<pending, place>>
  <2>1. Kept'
    BY <1>2, <1>5 DEF KInv, Kept, Placed, Moves
  <2> QED
    BY <1>4, <2>1 DEF KInv, Reserves, Taking
<1>6. CASE ~ UNCHANGED <<pending, place>>
  <2>1. PICK w \in Fitting(s, Arrival[i]) :
          /\ pending' = [pending EXCEPT ![w] = @ + Need[Arrival[i]]]
          /\ place' = [place EXCEPT ![Arrival[i]] = w]
    BY <1>1, <1>6
  <2> DEFINE p == Arrival[i]
  <2>2. p \in Waiting /\ Need[p] \in Nat /\ w \in Wallets
    BY Constants DEF Fitting
  <2>3. /\ pending \in [Wallets -> Nat] /\ place \in [Waiting -> Wallets \cup {None}]
        /\ moved \subseteq Txs
    BY DEF IInv, LedgerOK, RestOK
  <2>4. /\ pending' = [pending EXCEPT ![w] = @ + Need[p]]
        /\ place' = [place EXCEPT ![p] = w]
    BY <2>1
  <2> HIDE DEF p
  <2>5. ASSUME NEW v \in Wallets
        PROVE  /\ IsFiniteSet(Placed(v)') /\ IsFiniteSet(Moves(v)')
               /\ SumOf(Need, Placed(v)') + SumOf(Amount, Moves(v)') <= pending'[v]
    <3>1. /\ Placed(v) \in SUBSET Waiting /\ IsFiniteSet(Placed(v))
          /\ IsFiniteSet(Moves(v)) /\ Moves(v) \in SUBSET Txs
          /\ SumOf(Need, Placed(v)) + SumOf(Amount, Moves(v)) <= pending[v]
          /\ pending[v] \in Nat
      BY <2>3 DEF KInv, Kept, Placed, Moves
    <3>2. SumOf(Amount, Moves(v)) \in Nat
      BY <3>1, Constants, SumNat
    <3>3. Moves(v)' = Moves(v)
      BY <1>2 DEF Moves
    <3>4. CASE v = w
      <4>1. Placed(v)' \subseteq Placed(v) \cup {p}
        BY <2>3, <2>4 DEF Placed
      <4>2. /\ IsFiniteSet(Placed(v)')
            /\ SumOf(Need, Placed(v)) \in Nat /\ SumOf(Need, Placed(v)') \in Nat
            /\ SumOf(Need, Placed(v)') <= SumOf(Need, Placed(v)) + Need[p]
        BY <2>2, <3>1, <4>1, NeedGrows
      <4>3. pending'[v] = pending[v] + Need[p]
        BY <2>2, <2>3, <2>4, <3>4
      <4> QED
        BY <2>2, <3>1, <3>2, <3>3, <4>2, <4>3
    <3>5. CASE v # w
      <4>1. Placed(v)' \subseteq Placed(v)
        BY <2>2, <2>3, <2>4, <3>5 DEF Placed
      <4>2. /\ IsFiniteSet(Placed(v)')
            /\ SumOf(Need, Placed(v)) \in Nat /\ SumOf(Need, Placed(v)') \in Nat
            /\ SumOf(Need, Placed(v)') <= SumOf(Need, Placed(v))
        BY <3>1, <4>1, NeedShrinks
      <4>3. pending'[v] = pending[v]
        BY <2>2, <2>3, <2>4, <3>5
      <4> QED
        BY <3>1, <3>2, <3>3, <4>2, <4>3
    <3> QED
      BY <3>4, <3>5
  <2> QED
    BY <1>4, <2>5 DEF KInv, Kept, Reserves, Taking
<1> QED
  BY <1>5, <1>6

(* A commit adds to pending_amount what the session reserved, and gives away the
   transfers it picked; the API's session records the move it reserved for. *)
LEMMA CommitReserves ==
  ASSUME IInv, KInv, NEW s \in Sessions, Commit(s) PROVE KInv'
<1> DEFINE x == sess[s].tx
           r == sess[s]
<1>1. /\ r \in Session /\ Reserves(r) /\ r.op = "commit" /\ x \in Txs
      /\ pending \in [Wallets -> Nat] /\ moved \subseteq Txs
      /\ None \notin Wallets
  BY DepositsAssumption
  DEF Commit, IInv, LedgerOK, RestOK, KInv, Shape, Working, DepositsAssumption
<1>2. /\ pending' = [w \in Wallets |-> pending[w] + r.add[w]]
      /\ place' = [p \in Waiting |-> IF r.picked[p] = None THEN place[p] ELSE r.picked[p]]
      /\ moved' = IF r.st = None THEN moved \cup {x} ELSE moved
  BY DEF Commit, CommitPending
<1>3. Close(s)
  BY DEF Commit
<1>4. /\ r.st = None => \A p \in Waiting : r.picked[p] = None
      /\ r.st = None /\ Source[x] \in Wallets => Amount[x] <= r.add[Source[x]]
      /\ \A w \in Wallets : IsFiniteSet(Taking(r, w)) /\ SumOf(Need, Taking(r, w)) <= r.add[w]
  BY <1>1 DEF Reserves
<1>5. \A z \in Sessions : Reserves(sess'[z])
  <2>1. sess'[s] = IdleSession /\ \A z \in Sessions \ {s} : sess'[z] = sess[z]
    BY <1>3 DEF Close, IInv
  <2>2. Reserves(sess'[s])
    BY <2>1, IdleReserves, NothingReserved
  <2> QED
    BY <2>1, <2>2 DEF KInv
<1>6. /\ Amount[x] \in Nat /\ \A w \in Wallets : r.add[w] \in Nat
      /\ \A p \in Waiting : Need[p] \in Nat
  BY <1>1, Constants DEF Session
<1>7. ASSUME NEW w \in Wallets
      PROVE  /\ IsFiniteSet(Placed(w)') /\ IsFiniteSet(Moves(w)')
             /\ SumOf(Need, Placed(w)') + SumOf(Amount, Moves(w)') <= pending'[w]
  <2> DEFINE B == SumOf(Need, Placed(w))
             T == SumOf(Need, Taking(r, w))
             M == SumOf(Amount, Moves(w))
  <2>1. /\ Placed(w) \in SUBSET Waiting /\ IsFiniteSet(Placed(w))
        /\ IsFiniteSet(Moves(w)) /\ Moves(w) \in SUBSET Txs
        /\ B + M <= pending[w] /\ pending[w] \in Nat
    BY <1>1 DEF KInv, Kept, Placed, Moves
  <2>2. Taking(r, w) \in SUBSET Waiting /\ IsFiniteSet(Taking(r, w)) /\ T <= r.add[w]
    BY <1>4 DEF Taking
  <2>3. B \in Nat /\ T \in Nat /\ M \in Nat
    BY <2>1, <2>2, Constants, SumNat
  <2>4. pending'[w] = pending[w] + r.add[w]
    BY <1>2
  <2>5. Placed(w)' \subseteq Placed(w) \cup Taking(r, w)
    BY <1>2 DEF Placed, Taking
  <2>6. /\ IsFiniteSet(Placed(w)') /\ SumOf(Need, Placed(w)') \in Nat
        /\ SumOf(Need, Placed(w)') <= B + T
    <3> DEFINE A == Placed(w) \cup Taking(r, w)
    <3>1. IsFiniteSet(A) /\ A \in SUBSET Waiting
      BY <2>1, <2>2, FS_Union
    <3>2. SumOf(Need, A) <= B + T
      BY <1>6, <2>1, <2>2, SumUnion
    <3> HIDE DEF A
    <3>3. Placed(w)' \subseteq A
      BY <2>5 DEF A
    <3>4. /\ IsFiniteSet(Placed(w)') /\ SumOf(Need, A) \in Nat
          /\ SumOf(Need, Placed(w)') \in Nat /\ SumOf(Need, Placed(w)') <= SumOf(Need, A)
      BY <3>1, <3>3, NeedShrinks
    <3> QED
      BY <2>3, <3>2, <3>4
  <2>7. CASE r.st = None /\ Source[x] = w
    <3>1. Placed(w)' = Placed(w)
      BY <1>2, <1>4, <2>7 DEF Placed
    <3>2. Moves(w)' \subseteq Moves(w) \cup {x}
      BY <1>2 DEF Moves
    <3>3. IsFiniteSet(Moves(w)') /\ SumOf(Amount, Moves(w)') <= M + Amount[x]
      BY <1>6, <2>1, <3>2, Constants, SumGrows
    <3>4. Moves(w)' \subseteq Txs
      BY <1>1, <2>1, <3>2
    <3>5. SumOf(Amount, Moves(w)') \in Nat
      BY <3>3, <3>4, Constants, SumNat
    <3>6. Amount[x] <= r.add[w] /\ r.add[w] \in Nat
      BY <1>4, <1>6, <2>7
    <3>7. SumOf(Need, Placed(w)') = B
      BY <3>1
    <3> HIDE DEF x, r, B, M
    <3> QED
      BY <1>6, <2>1, <2>3, <2>4, <2>6, <3>3, <3>5, <3>6, <3>7
  <2>8. CASE ~(r.st = None /\ Source[x] = w)
    <3>1. Moves(w)' = Moves(w)
      BY <1>2, <2>8 DEF Moves
    <3>2. SumOf(Amount, Moves(w)') = M
      BY <3>1
    <3>3. IsFiniteSet(Moves(w)')
      BY <2>1, <3>1
    <3>4. r.add[w] \in Nat
      BY <1>6
    <3> HIDE DEF x, r, B, M, T
    <3> QED
      BY <2>1, <2>2, <2>3, <2>4, <2>6, <3>2, <3>3, <3>4
  <2> QED
    BY <2>7, <2>8
<1> QED
  BY <1>5, <1>7 DEF KInv, Kept, Reserves, Taking

LEMMA KNextHolds ==
  ASSUME IInv, KInv, NullIsNoStatus, [Next]_vars PROVE KInv'
<1>1. ASSUME NEW s \in Sessions, Step(s) \/ SyncRead(s) \/ Abort(s) PROVE KInv'
  <2>1. CASE RecordConflict(s) \/ SyncEnd(s) \/ Abort(s)
    BY <2>1, KCloses DEF RecordConflict, SyncEnd, Abort, tables
  <2> QED
    BY <1>1, <2>1, HandlersReserve, QueueSkipReserves, QueueTurnReserves, RoundsReserve,
       SyncTurnReserves, CommitReserves DEF Step
<1>2. ASSUME NEW s \in Sessions, NEW x \in Txs, Deliver(s, x) \/ MoveCreate(s, x)
      PROVE  KInv'
  BY <1>2, DeliverReserves, MoveCreateReserves
<1>3. ASSUME NEW x \in Txs, Provider(x) PROVE KInv'
  BY <1>3, KUntouched DEF Provider, ProviderStarts, ProviderCompletes, ProviderFails, tables
<1>4. ASSUME NEW x \in Txs, NEW st \in Statuses, MoveIgnored(x, st) PROVE KInv'
  BY <1>4, KUntouched DEF MoveIgnored, tables
<1>5. CASE UNCHANGED vars
  BY <1>5, KUntouched DEF vars, tables
<1> QED
  BY <1>1, <1>2, <1>3, <1>4, <1>5 DEF Next

LEMMA KInitHolds == Init => KInv
<1> SUFFICES ASSUME Init PROVE KInv
  OBVIOUS
<1>1. \A s \in Sessions : Reserves(sess[s])
  BY IdleReserves, NothingReserved DEF Init
<1>2. ASSUME NEW w \in Wallets PROVE Placed(w) = {} /\ Moves(w) = {} /\ pending[w] = 0
  BY DepositsAssumption DEF DepositsAssumption, Init, Placed, Moves
<1>3. Kept
  BY <1>2, SumEmpty, FS_EmptySet DEF Kept
<1> QED
  BY <1>1, <1>3 DEF KInv

LEMMA KeptIsCovered == KInv => ReservationsKept
BY DEF KInv, Kept, ReservationsKept, HeldOn, Placed, Moves

(* However often webhooks and sync rounds overwrite, lower and reread balances, and
   whichever of them fail: pending_amount covers every transfer that has been given the
   wallet and every vault-to-vault transfer that was created from it
   (dao/transfer.py:51-82, dao/webhook/update.py:184-188, services/balance_sync.py:149). *)
THEOREM NoReservationIsLost ==
  ASSUME NullIsNoStatus PROVE Spec => []ReservationsKept
<1>1. Init => IInv /\ KInv
  BY InitHolds, KInitHolds
<1>2. IInv /\ KInv /\ [Next]_vars => (IInv /\ KInv)'
  BY NextKeeps, KNextHolds
<1>3. IInv /\ KInv => ReservationsKept
  BY KeptIsCovered
<1> QED
  BY <1>1, <1>2, <1>3, PTL DEF Spec
=============================================================================
