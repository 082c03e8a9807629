---------------------------- MODULE PayoutsLapses ----------------------------
(***************************************************************************)
(* What goes wrong before a payout is paid twice, or after a refusal.      *)
(*                                                                         *)
(* Payouts with one history variable, which nothing reads: lapses[t] keeps *)
(* which of three things have happened to transfer t so far.  The code     *)
(* prevents none of them (no row of the transfers table is locked or       *)
(* versioned while a handler works on it), so the properties below are     *)
(* about their consequences: nothing else leads to the wrong payment.      *)
(***************************************************************************)
EXTENDS PayoutsProperties

VARIABLE lapses

lapseVars == <<vars, lapses>>

\* The session has t to work on.
On(s, t) == t = sess[s].req \/ t \in sess[s].todo \/ sess[s].picked[t] # None

(* The status the session takes t to have: that of the row it has loaded, or of
   what it has committed itself since then. *)
Believed(s, t) ==
  CASE t # sess[s].req                                        -> "pending_balance"
    [] sess[s].op \in {"execute", "executed", "exec_failed"} -> "signing"
    [] OTHER                                                 -> sess[s].seen

\* The row, Fireblocks or the backend has learnt something about t.
Changes(t) == status'[t] # status[t] \/ sent'[t] # sent[t] \/ told'[t] # told[t]

\* A write of SIGNING is one also when the row says so already.
Signs(s) == sess[s].op = "approved" /\ sess'[s].op = "execute"

\* A session acts on a row that another one has changed since it was loaded.
Overtaken(t) ==
  \E s \in Sessions :
    /\ sess'[s] # sess[s] /\ On(s, t)
    /\ Believed(s, t) # status[t]
    /\ Changes(t) \/ Signs(s)

(* A payout is created under the request id of a transaction that custody had
   sent directly and whose row it then lost, or has not stored yet. *)
Orphaned(t) == ~Exists(t) /\ status'[t] \in Approvable /\ sent[t] > 0

\* The backend is told a verdict that does not get into the row.
HalfTold(t) == told'[t] # told[t] /\ status'[t] \notin Final

NewLapses(t) ==
  {l \in {"overtaken"} : Overtaken(t)} \cup {l \in {"orphaned"} : Orphaned(t)}
    \cup {l \in {"half_told"} : HalfTold(t)}

LapseInit == Init /\ lapses = [t \in Transfers |-> {}]

LapseNext == Next /\ lapses' = [t \in Transfers |-> lapses[t] \cup NewLapses(t)]

LapseSpec == LapseInit /\ [][LapseNext]_lapseVars

-----------------------------------------------------------------------------

(* Whatever is called, repeated, lost, overlaps or crashes: Fireblocks gets two
   transactions for one transfer only if some session has acted on a row changed
   behind its back, or the first of them was a direct one without its row.  The
   guard of handle_transfer_approved and the commit of SIGNING before the call
   cover every other order of events (broker/consumer.py:257-268, 282-293). *)
PaidTwiceOnlyAfterLapse ==
  \A t \in Transfers : sent[t] > 1 => lapses[t] \cap {"overtaken", "orphaned"} # {}

(* A payout the backend was told is cancelled, rejected or failed reaches Fireblocks
   afterwards only if it has lapsed: the row changed under a handler, a direct
   transaction lost its row, or a handler told the backend and did not commit
   (dao/transfer.py:535, 553-554, api/transfer.py:865, broker/consumer.py:257-268). *)
RefusedPaidOnlyAfterLapse ==
  [][\A t \in Transfers :
       sent'[t] > sent[t] /\ told[t] # {} => lapses'[t] # {}]_lapseVars
=============================================================================
