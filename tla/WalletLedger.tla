---------------------------- MODULE WalletLedger ----------------------------
(***************************************************************************)
(* What the wallets table promises to the rest of the custody service.     *)
(* A row has a balance and a pending_amount (money promised to transfers   *)
(* that have not been confirmed yet).  Every writer of a row, on any pod,  *)
(* does one of the five steps below, and a reservation is never granted    *)
(* beyond balance - pending_amount as they are when it is granted.         *)
(*                                                                         *)
(* Nothing here says which transfer a reservation belongs to: that is the  *)
(* business of the module Payouts, which implements this one.              *)
(***************************************************************************)
EXTENDS Integers

CONSTANTS
  Wallets,     \* the rows of the wallets table for one asset
  Amounts,     \* the amounts a transfer can have
  Totals       \* the balances the custody provider can report

VARIABLES balance, pending

ledger == <<balance, pending>>

Init ==
  /\ balance \in [Wallets -> Nat]
  /\ pending = [w \in Wallets |-> 0]

(***************************************************************************)
(* One transaction reserves on one or several wallets.  A row may grow     *)
(* only within what was available on it.                                   *)
(***************************************************************************)
Reserve ==
  /\ pending' \in [Wallets -> Nat]
  /\ \A w \in Wallets : /\ pending'[w] >= pending[w]
                        /\ pending'[w] > pending[w] => pending'[w] <= balance[w]
  /\ UNCHANGED balance

(* The reservation of a rejected or cancelled transfer is given back. *)
Release(w, amount) ==
  /\ pending[w] >= amount
  /\ pending' = [pending EXCEPT ![w] = @ - amount]
  /\ UNCHANGED balance

(* The reservation of a confirmed transfer is spent. *)
Settle(w, amount) ==
  /\ pending[w] >= amount
  /\ balance[w] >= amount
  /\ pending' = [pending EXCEPT ![w] = @ - amount]
  /\ balance' = [balance EXCEPT ![w] = @ - amount]

(* Balances are replaced by what the provider reports. *)
Refresh ==
  /\ balance' \in [Wallets -> Nat]
  /\ \A w \in Wallets : balance'[w] = balance[w] \/ balance'[w] \in Totals
  /\ UNCHANGED pending

(* An administrator forgets the reservations of a wallet. *)
Forget(w) ==
  /\ pending' = [pending EXCEPT ![w] = 0]
  /\ UNCHANGED balance

Next ==
  \/ Reserve
  \/ \E w \in Wallets, amount \in Amounts : Release(w, amount) \/ Settle(w, amount)
  \/ Refresh
  \/ \E w \in Wallets : Forget(w)

Spec == Init /\ [][Next]_ledger
=============================================================================
