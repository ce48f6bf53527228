------------------------------ MODULE Reconcile -----------------------------
(***************************************************************************)
(* What a stack hook promises of the service it sets up, whatever service  *)
(* that is: while it runs, each of its steps moves settings it was asked   *)
(* for to values it was asked for and touches nothing else, and it ends    *)
(* well only when every setting it was asked for has such a value. It may  *)
(* fail at any point, and be run again. Nothing is said of a run in which  *)
(* somebody else changes the service too.                                  *)
(***************************************************************************)
CONSTANTS
  Settings,   \* what the service keeps
  Values      \* a setting -> the values it can have

VARIABLES
  live,       \* setting -> the value it has
  wanted,     \* setting -> the values the run may leave it with
  phase       \* "idle", "running", "ok" or "failed"

Holds == \A s \in Settings : live[s] \in wanted[s]

(* A step moves only settings it is asked for, each to an asked value.     *)
Moves ==
  /\ phase = "running" /\ phase' \in {"running", "failed"}
  /\ \A s \in Settings : live'[s] # live[s] =>
                            wanted[s] # Values[s] /\ live'[s] \in wanted[s]
  /\ UNCHANGED wanted

Succeeds ==
  /\ phase = "running" /\ phase' = "ok" /\ Holds
  /\ UNCHANGED <<live, wanted>>

(* Between runs anybody may change anything; during one that ends it, as   *)
(* far as the promise goes.                                                *)
Elsewhere == phase' # "ok" /\ (phase # "running" \/ phase' = "idle")

Init == phase = "idle"
Next == Moves \/ Succeeds \/ Elsewhere
Spec == Init /\ [][Next]_<<live, wanted, phase>>
=============================================================================
