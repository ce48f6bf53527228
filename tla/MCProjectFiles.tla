--------------------------- MODULE MCProjectFiles ---------------------------
(* Instances of ProjectFiles for TLC.                                      *)
EXTENDS ProjectFiles

CONSTANTS
  mirror, git, proxy,   \* each requires the next, the first both
  one, other,           \* require each other
  own,                  \* the project's own stack
  bad,                  \* a stack with a reserved prefix
  kGit, kTag, kServer, kShared, kOwn

MCRequires == [s \in Stacks |-> CASE s = mirror -> {git, proxy} \cap Stacks
                                  [] s = git -> {proxy}
                                  [] s = one -> {other}
                                  [] s = other -> {one}
                                  [] OTHER -> {}]

Plain(keys) == [keys |-> keys, optional |-> {}, asked |-> {}, tags |-> {}]

(* git's key has no default, and one takes the shared key as optional.     *)
MCCatalogMeta ==
  [s \in Catalog |->
     CASE s = git -> [Plain({kGit, kTag}) EXCEPT !.asked = {kGit},
                                                 !.tags = {kTag}]
       [] s = proxy -> Plain({kServer})
       [] s = one -> [Plain({kShared}) EXCEPT !.optional = {kShared}]
       [] s = other -> Plain({kShared})
       [] OTHER -> Plain({})]

(* The project has a git of its own as well, which reads one key more.     *)
MCOwnMeta ==
  [s \in Local |-> IF s = own THEN Plain({kShared, kGit})
                   ELSE Plain({kGit, kOwn})]
=============================================================================
