--------------------------- MODULE MCPayoutsLapses ---------------------------
(* A small instance of PayoutsLapses for TLC: one transfer, since a lapse is about
   one. *)
EXTENDS MCPayouts, PayoutsLapses

Amount1 == t1 :> 2

\* A lapse is never taken back: what comes after the first of these two satisfies the
\* two properties of PayoutsLapses, and is not explored.
Undecided == \A t \in Transfers : lapses[t] \cap {"overtaken", "orphaned"} = {}
=============================================================================
