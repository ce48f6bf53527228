------------------------------ MODULE MCBackup ------------------------------
(* Instances of Backup for TLC.                                            *)
EXTENDS Backup

CONSTANTS
  stack, list,          \* a compose stack's config, and one with a list
  home, old,            \* apps roots the stack has been deployed from
  a1, a2, a3,           \* the stack's; a3 was made with other overrides
  b, look,              \* the stack's from the old root, and a lookalike
  l1, l2,               \* the containers of the list
  f, over, other,       \* compose files
  r1, r2

MCModeOf == [c \in Configs |-> IF c = stack THEN "compose" ELSE "list"]
MCOwn == [c \in Configs |-> IF c = stack THEN Containers \ {look, l1, l2}
                            ELSE {}]
MCLike == [c \in Configs |-> IF c = stack THEN Containers \cap {look} ELSE {}]
MCNamed == [c \in Configs |-> IF c = list THEN {l1, l2} ELSE {}]
MCOriginOf == [k \in Containers |-> IF k \in {b, look} THEN old ELSE home]
MCFilesOf == [k \in Containers |-> CASE k = a2 -> {f, over}
                                     [] k = a3 -> {f, other}
                                     [] OTHER -> {f}]
MCRepoOf == [c \in Configs |-> IF c = stack THEN r1 ELSE r2]

(* At most one of the containers that make the stack hard to tell runs, and*)
(* of the list at least the first.  The repository and the files to build  *)
(* the stack from vary where the stack is plainly up.                      *)
MCInit ==
  /\ Init
  /\ exists \cap {a3, b, look} \subseteq running
  /\ Cardinality({a3, b, look} \cap running) <= 1
  /\ {a1, l1} \subseteq exists /\ exists \cap {l1, l2} \subseteq running
  /\ status[stack] = "inProgress"
  /\ repo[r2] = "ok"
  /\ repo[r1] # "ok" \/ ~rebuildable => {a1, a2} = running \ {l1, l2}
MCSpec == MCInit /\ [][Next]_vars /\ WF_vars(Runner)
=============================================================================
