------------------------------ MODULE MCStartUp ------------------------------
(* A small instance of StartUp for TLC. *)
EXTENDS StartUpProperties, TLC

CONSTANTS podA, podB, t1, t2, hotDefault, hotTwo, r1, r2, eth, usdt

PodOf1 == t1 :> podA @@ t2 :> podB
Scene(ofR1, ofR2, ofTasks) ==
  r1 :> ofR1 @@ r2 :> ofR2 @@ t1 :> ofTasks @@ t2 :> ofTasks

Scenes1 ==
  { Scene({}, {}, {"refresh"}),
    Scene({"create"}, {"import"}, {}),
    Scene({"create", "patch"}, {}, {}),
    Scene({"import", "patch"}, {"import"}, {}),
    Scene({"activate"}, {"ensure"}, {}) }

TypeOf1 == hotDefault :> "hot" @@ hotTwo :> "hot"
=============================================================================
