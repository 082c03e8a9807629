--------------------------- MODULE PayoutPromise ---------------------------
(***************************************************************************)
(* What the custody service promises its backend of every payout, with no  *)
(* word on rows, sessions, queues and webhooks: it is open until it is     *)
(* cancelled or started, it is paid at most once and only between its      *)
(* start and its end, and the one verdict the backend may hear fits that:  *)
(* a cancelled payout was never paid and never will be, a completed one    *)
(* was.  A failed one may have been paid: the service does not know when   *)
(* the provider's answer is lost.                                          *)
(***************************************************************************)
EXTENDS Integers

CONSTANT Transfers

VARIABLES
  phase,    \* of the life of each payout
  paid,     \* transactions the provider has made of it
  verdict   \* what the backend was told of its end

promise == <<phase, paid, verdict>>

Init ==
  /\ phase = [t \in Transfers |-> "absent"]
  /\ paid = [t \in Transfers |-> 0]
  /\ verdict = [t \in Transfers |-> {}]

Stays(t) == phase'[t] = phase[t] /\ paid'[t] = paid[t] /\ verdict'[t] = verdict[t]

Turns(t, from, to) ==
  phase[t] = from /\ phase'[t] = to /\ paid'[t] = paid[t]

Open(t)  == Turns(t, "absent", "open") /\ verdict'[t] = verdict[t]
Start(t) == Turns(t, "open", "started") /\ verdict'[t] = verdict[t]

Pay(t) ==
  /\ phase[t] = "started" /\ phase'[t] = "started"
  /\ paid[t] = 0 /\ paid'[t] = 1
  /\ verdict'[t] = verdict[t]

\* The verdict is given with the end, if anybody is told.
Hears(t, what) == verdict[t] = {} /\ verdict'[t] \subseteq {what}

Cancel(t)   == Turns(t, "open", "over") /\ Hears(t, "cancelled")
Complete(t) == Turns(t, "started", "over") /\ paid[t] = 1 /\ Hears(t, "completed")
Fail(t)     == Turns(t, "started", "over") /\ Hears(t, "failed")

\* Payouts are independent of each other.
Next ==
  \A t \in Transfers :
    \/ Stays(t) \/ Open(t) \/ Start(t) \/ Pay(t)
    \/ Cancel(t) \/ Complete(t) \/ Fail(t)

Spec == Init /\ [][Next]_promise
=============================================================================
