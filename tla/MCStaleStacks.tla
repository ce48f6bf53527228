--------------------------- MODULE MCStaleStacks ---------------------------
(* An instance of StaleStacks for TLC.                                     *)
EXTENDS StaleStacks

CONSTANTS
  listed, old, gone, bad,    \* names
  alias, pOld,               \* a listed stack's deployAs, an old project
  mal,                       \* a project no stack can have
  cOld,                      \* what an old stack is made of
  cPlanted,                  \* started from its folder under a listed alias
  cPartial,                  \* of the same project, with too few labels
  cGone, cOdd,               \* a stack's that may have no folder
  cListed                    \* a listed stack under its alias

MCDirOf == [c \in Containers |-> CASE c \in {cOld, cPlanted, cPartial} -> old
                                   [] c = cListed -> listed
                                   [] OTHER -> gone]
MCProjOf == [c \in Containers |-> CASE c \in {cPlanted, cListed} -> alias
                                    [] c = cOdd -> mal
                                    [] OTHER -> pOld]

(* Of the states to start from: the listed stack runs, and an entry with a *)
(* name no stack can have is a folder if it is there.                      *)
MCInit == Init /\ cListed \in up /\ entry[bad] # "other"
MCSpec == MCInit /\ [][Next]_vars /\ WF_vars(Script)
=============================================================================
