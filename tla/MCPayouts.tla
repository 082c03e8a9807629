----------------------------- MODULE MCPayouts -----------------------------
(* Small instances of Payouts for TLC: values for the constants. *)
EXTENDS PayoutsProperties, TLC

CONSTANTS t1, t2, t3, w1, w2, s1, s2

\* A small transfer and one that needs most of a wallet.
Amount2 == t1 :> 1 @@ t2 :> 2
Amount3 == t1 :> 1 @@ t2 :> 2 @@ t3 :> 1

\* The transfers of one amount are alike, and so are the sessions.
SessionSymmetry == Permutations(Sessions)
=============================================================================
