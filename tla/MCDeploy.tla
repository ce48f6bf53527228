------------------------------ MODULE MCDeploy ------------------------------
(* Instances of Deploy for TLC.                                            *)
EXTENDS Deploy

CONSTANTS
  a, b,         \* stacks, and the projects they run as by default
  alias,        \* a deployAs alias of a
  ca,           \* a server level file of a
  eaAlias, eb,  \* what config.json may list: a deployed as the alias, and b
  ehand,        \* b's folder, run by hand under the alias
  v1, v2        \* contents

MCNameOf == [e \in Entries |-> IF e = eaAlias THEN a ELSE b]
MCProjectOf == [e \in Entries |-> IF e = eb THEN b ELSE alias]
(* ehand has the container name of eb, and so is never up beside it.       *)
MCContainerOf == [e \in Entries |-> IF e = eaAlias THEN a ELSE b]
(* a watches its server level file, b its own folder's.  a's before hook   *)
(* generates the file a watches.                                           *)
MCWatch == [e \in Entries |-> CASE e = eaAlias -> {ca}
                                [] e = eb -> {b}
                                [] OTHER -> {}]
MCHookWrites == [e \in Entries |-> IF e = eaAlias THEN {ca} ELSE {}]
NoHookWrites == [e \in Entries |-> {}]
=============================================================================
