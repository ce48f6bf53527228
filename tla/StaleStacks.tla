---------------------------- MODULE StaleStacks ----------------------------
(***************************************************************************)
(* The script a full deploy runs on the server to stop and remove every    *)
(* stack config.json no longer lists (cli/deploy/stale-stacks.ts), command *)
(* by command, while other people work on the same server.                 *)
(*                                                                         *)
(* An entry of stacks/ is a "dir" (a directory or a link to one), some     *)
(* "other" thing, or "none".  A container is known by two of its labels,   *)
(* which anyone with docker on the server may have set: the stack folder   *)
(* it was started from, DirOf, and its compose project, ProjOf.            *)
(***************************************************************************)
EXTENDS Naturals, FiniteSets

CONSTANTS
  Names,        \* names of entries of stacks/, and of the folders in labels
  Unsafe,       \* the ones that cannot be a stack's name
  Active,       \* activeStackNames: the full list of config.json
  Projects,     \* compose projects
  Malformed,    \* the ones compose would read as another name
  Aliases,      \* activeProjects: the deployAs of config.json's entries
  Containers,
  DirOf, ProjOf,
  Whole,        \* containers with all the labels compose looks for
  Elsewhere,    \* the DirOf of a container outside stacks/
  None,
  MaxFaults,    \* bound: docker and rm commands that fail
  MaxMeddles    \* bound: what others do on the server meanwhile

ASSUME StaleStacksAssumption ==
  /\ Unsafe \subseteq Names /\ Active \subseteq Names \ Unsafe
  /\ Active \subseteq Projects /\ Aliases \subseteq Projects
  /\ Malformed \subseteq Projects \ (Active \cup Aliases)
  /\ DirOf \in [Containers -> Names \cup {Elsewhere}]
  /\ ProjOf \in [Containers -> Projects]
  /\ Whole \subseteq Containers
  /\ Elsewhere \notin Names /\ None \notin Names /\ None \notin Projects
  /\ MaxFaults \in Nat /\ MaxMeddles \in Nat

Protected == Active \cup Aliases
Stale == Names \ (Active \cup Unsafe)

VARIABLES
  stacks,       \* what PATH_APPS/stacks is
  entry,        \* what each name is in it
  up,           \* the containers that exist
  pc,           \* the command the script is at
  pass,         \* 1: the folders, 2: the containers whose folder is gone
  queue,        \* names this pass has still to look at
  name,         \* the stack stop_and_remove works on
  rows,         \* its containers, as docker ps listed them
  proj,         \* the project just stopped
  seen,         \* the projects stopped for this stack
  skipped,      \* a container of this stack is left alone
  failed,       \* FAILED
  \* what the operator is told, by name; None stands for the whole scan
  reported, failures,
  \* history and bounds
  worked,       \* names stop_and_remove was called for
  touched,      \* names others have worked on meanwhile
  faults, meddles

scriptVars == <<pc, pass, queue, name, rows, proj, seen, skipped, failed,
                reported, failures, worked>>
serverVars == <<stacks, entry, up>>
boundVars  == <<touched, faults, meddles>>
vars == <<serverVars, scriptVars, boundVars>>

Fault == faults < MaxFaults /\ faults' = faults + 1

Init ==
  /\ stacks \in {"dir", "link", "none"}
  /\ entry \in [Names -> {"dir", "other", "none"}]
  /\ stacks # "dir" => entry = [n \in Names |-> "none"]
  /\ up \in SUBSET Containers
  /\ pc = "start" /\ pass = 1 /\ queue = {}
  /\ name = None /\ rows = {} /\ proj = None /\ seen = {} /\ skipped = FALSE
  /\ failed = FALSE /\ reported = {} /\ failures = {}
  /\ worked = {} /\ touched = {} /\ faults = 0 /\ meddles = 0

-----------------------------------------------------------------------------
(* A symlinked stacks/ is refused before anything is touched.              *)
Refuse ==
  /\ pc = "start"
  /\ stacks = "link"
  /\ pc' = "done" /\ failed' = TRUE /\ failures' = failures \cup {None}
  /\ UNCHANGED <<serverVars, boundVars, pass, queue, name, rows, proj, seen,
                 skipped, reported, worked>>

Enter ==
  /\ pc = "start"
  /\ stacks # "link"
  /\ pc' = "next" /\ queue' = {n \in Names : entry[n] # "none"}
  /\ UNCHANGED <<serverVars, boundVars, pass, name, rows, proj, seen, skipped,
                 failed, reported, failures, worked>>

(* Mutant: the second pass does not ask for a folder.                      *)
PassedAgain(n) ==
  IF pass = 1 THEN entry[n] # "dir" \/ n \in Active ELSE n \in Active

(* What the loop makes of a name.  The first pass skips what is no         *)
(* directory, the second what is one: the first has handled it.            *)
Passed(n) ==
  IF pass = 1 THEN entry[n] # "dir" \/ n \in Active
              ELSE (n \notin Unsafe /\ entry[n] = "dir") \/ n \in Active

LookAt(n) ==
  /\ pc = "next"
  /\ n \in queue
  /\ queue' = queue \ {n}
  /\ IF Passed(n) \/ n \in Unsafe
     THEN /\ reported' =
               IF ~Passed(n) \/ (pass = 1 /\ entry[n] = "other")
               THEN reported \cup {n} ELSE reported
          /\ UNCHANGED <<pc, name, worked>>
     ELSE /\ pc' = "ps" /\ name' = n /\ worked' = worked \cup {n}
          /\ UNCHANGED reported
  /\ UNCHANGED <<serverVars, boundVars, pass, rows, proj, seen, skipped,
                 failed, failures>>

-----------------------------------------------------------------------------
(* stop_and_remove                                                         *)

Return ==
  /\ pc' = "next" /\ name' = None /\ rows' = {} /\ proj' = None
  /\ seen' = {} /\ skipped' = FALSE

(* One stack's failure is remembered; the loop goes on with the next.      *)
Failure ==
  /\ Return
  /\ failed' = TRUE /\ failures' = failures \cup {name}
  /\ UNCHANGED <<stacks, pass, queue, reported, worked, touched, meddles>>

List ==
  /\ pc = "ps"
  /\ rows' = {c \in up : DirOf[c] = name}
  /\ pc' = "rows"
  /\ UNCHANGED <<serverVars, boundVars, pass, queue, name, proj, seen, skipped,
                 failed, reported, failures, worked>>

(* Mutant: a docker ps that fails has printed nothing.                     *)
ListFailsEmpty ==
  /\ pc = "ps"
  /\ Fault
  /\ rows' = {} /\ pc' = "rows"
  /\ UNCHANGED <<serverVars, touched, meddles, pass, queue, name, proj, seen,
                 skipped, failed, reported, failures, worked>>

ListFails ==
  /\ pc = "ps"
  /\ Fault
  /\ Failure
  /\ UNCHANGED <<entry, up>>

(* Mutant: a listed stack's deployAs is not protected.                     *)
MayStopAlias(c) == ProjOf[c] \notin Malformed \cup Active \cup seen

MayStop(c) == ProjOf[c] \notin Malformed \cup Protected \cup seen

(* A container the script may not stop, or whose project it has stopped.   *)
SkipRow(c) ==
  /\ pc = "rows"
  /\ c \in rows
  /\ ~MayStop(c)
  /\ rows' = rows \ {c}
  /\ IF ProjOf[c] \in seen THEN UNCHANGED <<skipped, reported>>
     ELSE skipped' = TRUE /\ reported' = reported \cup {name}
  /\ UNCHANGED <<serverVars, boundVars, pc, pass, queue, name, proj, seen,
                 failed, failures, worked>>

(* docker compose -p <project> down: every container of that project, of   *)
(* any folder, that has the labels compose knows containers by.            *)
Downed(p) == {c \in up \cap Whole : ProjOf[c] = p}

Down(c) ==
  /\ pc = "rows"
  /\ c \in rows
  /\ MayStop(c)
  /\ rows' = rows \ {c} /\ seen' = seen \cup {ProjOf[c]}
  /\ up' = up \ Downed(ProjOf[c])
  /\ proj' = ProjOf[c] /\ pc' = "check"
  /\ UNCHANGED <<stacks, entry, boundVars, pass, queue, name, skipped, failed,
                 reported, failures, worked>>

DownFails(c) ==
  /\ pc = "rows"
  /\ c \in rows
  /\ MayStop(c)
  /\ Fault
  /\ \E some \in SUBSET Downed(ProjOf[c]) : up' = up \ some
  /\ Failure
  /\ UNCHANGED entry

(* Mutant: compose down is taken at its word.                              *)
CheckNothing ==
  /\ pc = "check"
  /\ pc' = "rows" /\ proj' = None
  /\ UNCHANGED <<serverVars, boundVars, pass, queue, name, rows, seen, skipped,
                 failed, reported, failures, worked>>

(* compose down exits 0 also when it left a container behind.              *)
Check ==
  /\ pc = "check"
  /\ pc' = "rows" /\ proj' = None
  /\ IF \E c \in up : ProjOf[c] = proj
     THEN skipped' = TRUE /\ reported' = reported \cup {name}
     ELSE UNCHANGED <<skipped, reported>>
  /\ UNCHANGED <<serverVars, boundVars, pass, queue, name, rows, seen, failed,
                 failures, worked>>

CheckFails ==
  /\ pc = "check"
  /\ Fault
  /\ Failure
  /\ UNCHANGED <<entry, up>>

(* Something was left alone and reported: the folder stays, and that is no *)
(* failure.                                                                *)
KeepFolder ==
  /\ pc = "rows"
  /\ rows = {}
  /\ skipped
  /\ Return
  /\ UNCHANGED <<serverVars, boundVars, pass, queue, failed, reported,
                 failures, worked>>

(* Mutant: the script stays at the stack it has removed.                   *)
RemoveStays ==
  /\ pc = "rows"
  /\ rows = {}
  /\ ~skipped
  /\ entry' = [entry EXCEPT ![name] = "none"]
  /\ pc' = "next" /\ seen' = {}
  /\ UNCHANGED <<stacks, up, boundVars, pass, queue, name, rows, proj, skipped,
                 failed, reported, failures, worked>>

Remove ==
  /\ pc = "rows"
  /\ rows = {}
  /\ ~skipped
  /\ entry' = [entry EXCEPT ![name] = "none"]
  /\ Return
  /\ UNCHANGED <<stacks, up, boundVars, pass, queue, failed, reported,
                 failures, worked>>

RemoveFails ==
  /\ pc = "rows"
  /\ rows = {}
  /\ ~skipped
  /\ entry[name] # "none"
  /\ Fault
  /\ Failure
  /\ UNCHANGED <<entry, up>>

-----------------------------------------------------------------------------
(* The second pass: the folders that containers name as theirs.            *)
Scan ==
  /\ pc = "next"
  /\ queue = {}
  /\ pass = 1
  /\ pass' = 2
  /\ queue' = {DirOf[c] : c \in up} \ {Elsewhere}
  /\ UNCHANGED <<serverVars, boundVars, pc, name, rows, proj, seen, skipped,
                 failed, reported, failures, worked>>

ScanFails ==
  /\ pc = "next"
  /\ queue = {}
  /\ pass = 1
  /\ Fault
  /\ pc' = "done" /\ failed' = TRUE /\ failures' = failures \cup {None}
  /\ UNCHANGED <<serverVars, pass, queue, name, rows, proj, seen, skipped,
                 reported, touched, meddles, worked>>

(* Mutant: a failure leaves the loop, with nobody to end the script.       *)
ExitClean ==
  /\ pc = "next"
  /\ queue = {}
  /\ pass = 2
  /\ ~failed
  /\ pc' = "done"
  /\ UNCHANGED <<serverVars, boundVars, pass, queue, name, rows, proj, seen,
                 skipped, failed, reported, failures, worked>>

Exit ==
  /\ pc = "next"
  /\ queue = {}
  /\ pass = 2
  /\ pc' = "done"
  /\ UNCHANGED <<serverVars, boundVars, pass, queue, name, rows, proj, seen,
                 skipped, failed, reported, failures, worked>>

-----------------------------------------------------------------------------
(* Others on the same server, a second deploy from another machine among   *)
(* them: nothing locks the server.                                         *)
Meddle(n) ==
  /\ meddles < MaxMeddles /\ meddles' = meddles + 1
  /\ touched' = touched \cup {n}
  /\ pc # "done"
  /\ UNCHANGED <<scriptVars, stacks, faults>>

HandUp(c) ==
  /\ c \notin up
  /\ up' = up \cup {c}
  /\ Meddle(DirOf[c])
  /\ UNCHANGED entry

HandDown(c) ==
  /\ c \in up
  /\ up' = up \ {c}
  /\ Meddle(DirOf[c])
  /\ UNCHANGED entry

HandFolder(n, kind) ==
  /\ stacks = "dir"
  /\ entry[n] # kind
  /\ entry' = [entry EXCEPT ![n] = kind]
  /\ Meddle(n)
  /\ UNCHANGED up

-----------------------------------------------------------------------------
Script ==
  \/ Refuse \/ Enter \/ List \/ ListFails \/ Check \/ CheckFails
  \/ KeepFolder \/ Remove \/ RemoveFails \/ Scan \/ ScanFails \/ Exit
  \/ \E n \in Names : LookAt(n)
  \/ \E c \in Containers : SkipRow(c) \/ Down(c) \/ DownFails(c)

Others ==
  \/ \E c \in Containers : HandUp(c) \/ HandDown(c)
  \/ \E n \in Names, kind \in {"dir", "other", "none"} : HandFolder(n, kind)

Next == Script \/ Others

Spec == Init /\ [][Next]_vars
FairSpec == Spec /\ WF_vars(Script)

-----------------------------------------------------------------------------
TypeOK ==
  /\ stacks \in {"dir", "link", "none"}
  /\ entry \in [Names -> {"dir", "other", "none"}]
  /\ up \subseteq Containers /\ rows \subseteq Containers
  /\ pc \in {"start", "next", "ps", "rows", "check", "done"}
  /\ pass \in {1, 2}
  /\ queue \subseteq Names
  /\ name \in Stale \cup {None}
  /\ pc \in {"ps", "rows", "check"} <=> name # None
  /\ proj \in Projects \cup {None}
  /\ pc = "check" <=> proj # None
  /\ seen \subseteq Projects
  /\ skipped \in BOOLEAN /\ failed \in BOOLEAN
  /\ worked \subseteq Stale
  /\ reported \subseteq Names /\ failures \subseteq Names \cup {None}
  /\ touched \subseteq Names \cup {Elsewhere}
  /\ faults \in 0..MaxFaults /\ meddles \in 0..MaxMeddles

(* A container of a project an active stack runs under is stopped by       *)
(* nobody but the people on the server, whatever folder its labels name.   *)
ProtectedStay ==
  [][ meddles' = meddles =>
        \A c \in up \ up' : ProjOf[c] \notin Protected ]_vars

(* The script takes a folder away only when nothing that runs from it is   *)
(* left: its compose file is what the owner needs to stop the rest.        *)
NoFolderFromUnderAContainer ==
  [][ \A n \in Names :
        entry[n] = "dir" /\ entry'[n] = "none" /\ meddles' = meddles =>
          /\ n \in Stale
          /\ n \notin touched => \A c \in up : DirOf[c] # n ]_vars

(* Of every stack that is not listed nothing is left, or the operator is   *)
(* told: a docker command that fails never reads as "nothing there", and   *)
(* one stack's failure hides no other.                                     *)
NothingLeftUnsaid ==
  pc = "done" =>
    \A n \in Stale \ (touched \cup reported \cup failures) :
      /\ None \notin failures => \A c \in up : DirOf[c] # n
      /\ stacks = "dir" => entry[n] # "dir"

(* A stack is stopped and removed once: the second pass leaves alone what  *)
(* the first has handled, also when that failed or was left half done.     *)
OncePerStack ==
  [][ \A n \in worked \ touched : name' = n => name = n ]_vars

(* The script ends.                                                        *)
ScriptEnds == <>(pc = "done")
=============================================================================
