---------------------------- MODULE AssetRegistry ----------------------------
(***************************************************************************)
(* The table assets, filled by every pod when it starts: native coins in   *)
(* one transaction, tokens in the next.  A phase looks for what is missing *)
(* and inserts it; when another pod has committed the same rows meanwhile, *)
(* the unique constraint fails, everything the phase had is rolled back,   *)
(* and the pod goes on without the rest.                                   *)
(***************************************************************************)
EXTENDS FiniteSets

CONSTANTS
  Pods,
  Natives,  \* coins of the backend's list that are in the mapping
  Tokens    \* tokens of that list that Fireblocks knows

VARIABLES
  registered,  \* rows of the table assets
  missing      \* what each pod's phase found missing

registry == <<registered, missing>>

RegistryInit == registered = {} /\ missing = [p \in Pods |-> {}]

(* The select of a phase. *)
Look(p, phase) ==
  /\ missing' = [missing EXCEPT ![p] = phase \ registered]
  /\ UNCHANGED registered

Conflict(p) == missing[p] \cap registered # {}

(* The inserts and the commit of a phase. *)
Register(p) ==
  /\ ~Conflict(p)
  /\ registered' = registered \cup missing[p]
  /\ UNCHANGED missing

(* IntegrityError: "we do not fail the start". *)
GiveUp(p) == Conflict(p) /\ UNCHANGED registry
=============================================================================
