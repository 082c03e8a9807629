-------------------------------- MODULE Sums --------------------------------
(* Sums over finite sets of rows: what the reservations made on a wallet come
   to, which its column pending_amount must cover. *)
EXTENDS Integers, FiniteSetsExt

SumOf(f, S) == MapThenSumSet(LAMBDA x : f[x], S)
=============================================================================
