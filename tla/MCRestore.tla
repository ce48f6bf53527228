----------------------------- MODULE MCRestore -----------------------------
(* Instances of Restore for TLC.                                           *)
EXTENDS Restore, TLC

CONSTANTS data, db      \* two folders of one service

(* Nothing tells one folder from the other.                                *)
AnyFolder == Permutations(Folders)
=============================================================================
