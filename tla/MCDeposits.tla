----------------------------- MODULE MCDeposits -----------------------------
(* A small instance of Deposits for TLC. *)
EXTENDS DepositsProperties, TLC

CONSTANTS d1, m1, p1, p2, hot, cold, user, s1, s2

Kinds1 == d1 :> "deposit" @@ m1 :> "move"
Amount1 == d1 :> 2 @@ m1 :> 1
Source1 == d1 :> None @@ m1 :> cold
Dest1 == d1 :> hot @@ m1 :> hot
Start1 == hot :> 0 @@ cold :> 1
Arrival1 == <<p1>>
Need1 == p1 :> 2
Copies1 ==
  LET once == [st \in Statuses |-> {1}]
  IN  d1 :> once @@ m1 :> [once EXCEPT !["COMPLETED"] = {1, 2}]
=============================================================================
