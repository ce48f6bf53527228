------------------------------ MODULE Restore ------------------------------
(***************************************************************************)
(* Restores of one service from its backup (scripts/backup/restore.ts):    *)
(* stop the containers, unpack every folder of the snapshot beside its     *)
(* place, put them all in place or none (src/restore.ts: applyRestore),    *)
(* start the containers again.                                             *)
(*                                                                         *)
(* What is in a folder is told by its generation: 0 is the data the        *)
(* service had first, r what the r-th restore unpacked, None no folder.    *)
(* The folders are apart: none is inside another, so the order of the loop *)
(* over them does not matter.                                              *)
(***************************************************************************)
EXTENDS Naturals

CONSTANTS
  Folders,      \* the sourcePaths of the service's backup config
  None,         \* no such folder
  MaxRuns,      \* bound: restores, one after another
  MaxFaults,    \* bound: commands and renames that fail, crashes
  MaxMeddles    \* bound: the containers are started by somebody else

ASSUME RestoreAssumption ==
  /\ None \notin Nat /\ None \notin Folders
  /\ MaxRuns \in Nat /\ MaxFaults \in Nat /\ MaxMeddles \in Nat

VARIABLES
  \* the server
  place,        \* what is at each folder's place
  kept,         \* the generations beside it, as <folder>.backup-<time>
  containers,   \* how many of the service's containers run
  \* the restore
  listed,       \* the config names its containers, it is no compose stack
  pc, run,
  todo,         \* folders this loop has not handled
  cur,          \* the folder being swapped, or put back
  temp,         \* what is unpacked beside each folder
  stepKept,     \* step.kept: what this run has renamed away
  done,         \* folders whose swap has begun
  stuck,        \* folders the rollback could not put back
  toStart,      \* the stop has found something to start again
  failed,       \* the error the try block ends with
  startFailed,  \* config.status after the start
  exit,
  \* history and bounds
  was,          \* place when this run began
  ranBefore,    \* all the containers ran when it began
  warm,         \* somebody else has started containers since
  faults, meddles

dataVars  == <<place, kept>>
swapVars  == <<temp, stepKept, done, stuck>>
errorVars == <<failed, startFailed, exit>>
seenVars  == <<was, ranBefore, warm>>
boundVars == <<faults, meddles>>
fixedVars == <<listed, run>>
vars == <<dataVars, containers, fixedVars, pc, todo, cur, swapVars, toStart,
          errorVars, seenVars, boundVars>>

Generations == 0..MaxRuns
Nothing == [f \in Folders |-> None]

Fault == faults < MaxFaults /\ faults' = faults + 1

(* Restores are often made because a folder is gone.                       *)
Init ==
  /\ place \in [Folders -> {0, None}] /\ kept = [f \in Folders |-> {}]
  /\ containers \in {"all", "none"}
  /\ listed \in BOOLEAN
  /\ pc = "idle" /\ run = 0 /\ todo = {} /\ cur = None
  /\ temp = Nothing /\ stepKept = Nothing /\ done = {} /\ stuck = {}
  /\ toStart = FALSE /\ failed = FALSE /\ startFailed = FALSE /\ exit = "none"
  /\ was = Nothing /\ ranBefore = FALSE /\ warm = FALSE
  /\ faults = 0 /\ meddles = 0

-----------------------------------------------------------------------------
(* Nothing is touched before the owner has said yes: an unknown service or *)
(* snapshot, or one that does not hold the config's folders, ends it here. *)
Refuse ==
  /\ pc = "idle"
  /\ exit' = "refused"
  /\ UNCHANGED <<dataVars, containers, fixedVars, pc, todo, cur, swapVars,
                 toStart, failed, startFailed, seenVars, boundVars>>

Begin ==
  /\ pc = "idle"
  /\ run < MaxRuns /\ run' = run + 1
  /\ pc' = "stop"
  /\ exit' = "none"
  /\ was' = place /\ ranBefore' = (containers = "all") /\ warm' = FALSE
  /\ UNCHANGED <<dataVars, containers, listed, todo, cur, swapVars, toStart,
                 failed, startFailed, boundVars>>

(* manageContainers "stop".  A compose stack none of whose containers runs *)
(* is not started afterwards.                                              *)
Stop ==
  /\ pc = "stop"
  /\ toStart' = (listed \/ containers # "none")
  /\ containers' = "none"
  /\ pc' = "unpack" /\ todo' = Folders
  /\ UNCHANGED <<dataVars, fixedVars, cur, swapVars, errorVars, seenVars,
                 boundVars>>

(* The stop fails, and has stopped some of the containers.                 *)
StopPart ==
  /\ pc = "stop"
  /\ Fault
  /\ toStart' \in {listed, TRUE}
  /\ \/ UNCHANGED containers
     \/ toStart' /\ containers' \in {"none", "some"}
        /\ (containers = "none" => containers' = "none")
  /\ UNCHANGED <<dataVars, fixedVars, cur, swapVars, startFailed, exit,
                 seenVars, meddles>>

(* Mutant: the restore goes on with what has not stopped.                  *)
StopGoesOn == StopPart /\ pc' = "unpack" /\ todo' = Folders /\ failed' = TRUE

StopFails == StopPart /\ pc' = "start" /\ failed' = TRUE /\ UNCHANGED todo

-----------------------------------------------------------------------------
(* The try block ends with an error; the finally starts the containers.    *)
Throw ==
  /\ pc' = "start" /\ failed' = TRUE /\ todo' = {}
  /\ UNCHANGED <<dataVars, containers, fixedVars, startFailed, exit, seenVars,
                 toStart, meddles>>

(* restic may end well without the folder: the snapshot has no such path.  *)
Unpack(f) ==
  /\ pc = "unpack"
  /\ f \in todo
  /\ todo' = todo \ {f}
  /\ \E got \in {run, None} : temp' = [temp EXCEPT ![f] = got]
  /\ UNCHANGED <<dataVars, containers, fixedVars, pc, cur, stepKept, done,
                 stuck, toStart, errorVars, seenVars, boundVars>>

UnpackFails ==
  /\ pc = "unpack"
  /\ todo # {}
  /\ Fault
  /\ Throw
  /\ UNCHANGED <<cur, swapVars>>

(* applyRestore looks at all the folders before it touches one.            *)
Unpacked ==
  /\ pc = "unpack"
  /\ todo = {}
  /\ \A f \in Folders : temp[f] # None
  /\ pc' = "swap" /\ todo' = Folders
  /\ UNCHANGED <<dataVars, containers, fixedVars, cur, swapVars, toStart,
                 errorVars, seenVars, boundVars>>

NotUnpacked ==
  /\ pc = "unpack"
  /\ todo = {}
  /\ \E f \in Folders : temp[f] = None
  /\ Throw
  /\ UNCHANGED <<cur, swapVars, faults>>

-----------------------------------------------------------------------------
(* The swap: what is in place is renamed, then the restored folder is.     *)

(* Mutant: every restore keeps the old data under the same name.           *)
KeepOne(f) ==
  /\ pc = "swap"
  /\ cur = None /\ f \in todo
  /\ IF place[f] = None THEN UNCHANGED <<kept, place, stepKept>>
     ELSE /\ kept' = [kept EXCEPT ![f] = {place[f]}]
          /\ stepKept' = [stepKept EXCEPT ![f] = place[f]]
          /\ place' = [place EXCEPT ![f] = None]
  /\ done' = done \cup {f} /\ cur' = f
  /\ UNCHANGED <<containers, fixedVars, pc, todo, temp, stuck, toStart,
                 errorVars, seenVars, boundVars>>

(* Mutant: a folder counts as swapped when its swap is over.               *)
KeepUnlisted(f) ==
  /\ pc = "swap"
  /\ cur = None /\ f \in todo
  /\ IF place[f] = None THEN UNCHANGED <<kept, place, stepKept>>
     ELSE /\ kept' = [kept EXCEPT ![f] = @ \cup {place[f]}]
          /\ stepKept' = [stepKept EXCEPT ![f] = place[f]]
          /\ place' = [place EXCEPT ![f] = None]
  /\ cur' = f
  /\ UNCHANGED <<containers, fixedVars, pc, todo, temp, done, stuck, toStart,
                 errorVars, seenVars, boundVars>>

Keep(f) ==
  /\ pc = "swap"
  /\ cur = None /\ f \in todo
  /\ IF place[f] = None THEN UNCHANGED <<kept, place, stepKept>>
     ELSE /\ kept' = [kept EXCEPT ![f] = @ \cup {place[f]}]
          /\ stepKept' = [stepKept EXCEPT ![f] = place[f]]
          /\ place' = [place EXCEPT ![f] = None]
  /\ done' = done \cup {f} /\ cur' = f
  /\ UNCHANGED <<containers, fixedVars, pc, todo, temp, stuck, toStart,
                 errorVars, seenVars, boundVars>>

PutIn(f) ==
  /\ pc = "swap"
  /\ cur = f
  /\ place' = [place EXCEPT ![f] = temp[f]]
  /\ temp' = [temp EXCEPT ![f] = None]
  /\ todo' = todo \ {f} /\ cur' = None
  /\ UNCHANGED <<kept, containers, fixedVars, pc, stepKept, done, stuck,
                 toStart, errorVars, seenVars, boundVars>>

(* A mkdir, a look or a rename of either kind fails: all goes back.        *)
SwapFails ==
  /\ pc = "swap"
  /\ todo # {}
  /\ Fault
  /\ pc' = "undo" /\ cur' = None /\ todo' = {}
  /\ UNCHANGED <<dataVars, containers, fixedVars, swapVars, toStart, errorVars,
                 seenVars, meddles>>

Swapped ==
  /\ pc = "swap"
  /\ todo = {}
  /\ pc' = "chown"
  /\ UNCHANGED <<dataVars, containers, fixedVars, todo, cur, swapVars, toStart,
                 errorVars, seenVars, boundVars>>

-----------------------------------------------------------------------------
(* The rollback, for the last folder as well, whose restored data may not  *)
(* have moved.                                                             *)
TakeOut(f) ==
  /\ pc = "undo"
  /\ cur = None /\ f \in done
  /\ IF temp[f] = None
     THEN /\ temp' = [temp EXCEPT ![f] = place[f]]
          /\ place' = [place EXCEPT ![f] = None]
     ELSE UNCHANGED <<temp, place>>
  /\ cur' = f
  /\ UNCHANGED <<kept, containers, fixedVars, pc, todo, stepKept, done, stuck,
                 toStart, errorVars, seenVars, boundVars>>

PutBack(f) ==
  /\ pc = "undo"
  /\ cur = f
  /\ IF stepKept[f] = None THEN UNCHANGED dataVars
     ELSE /\ place' = [place EXCEPT ![f] = stepKept[f]]
          /\ kept' = [kept EXCEPT ![f] = @ \ {stepKept[f]}]
  /\ done' = done \ {f} /\ cur' = None
  /\ UNCHANGED <<containers, fixedVars, pc, todo, temp, stepKept, stuck,
                 toStart, errorVars, seenVars, boundVars>>

(* Mutant: a folder that cannot be put back is passed over.                *)
UndoPasses(f) ==
  /\ pc = "undo"
  /\ f \in done /\ cur \in {None, f}
  /\ Fault
  /\ done' = done \ {f} /\ cur' = None
  /\ UNCHANGED <<dataVars, containers, fixedVars, pc, todo, temp, stepKept,
                 stuck, toStart, errorVars, seenVars, meddles>>

(* The rename in either direction fails; the other folders still go back.  *)
UndoFails(f) ==
  /\ pc = "undo"
  /\ f \in done /\ cur \in {None, f}
  /\ Fault
  /\ done' = done \ {f} /\ cur' = None
  /\ stuck' = stuck \cup {f}
  /\ UNCHANGED <<dataVars, containers, fixedVars, pc, todo, temp, stepKept,
                 toStart, errorVars, seenVars, meddles>>

Undone ==
  /\ pc = "undo"
  /\ done = {}
  /\ Throw
  /\ UNCHANGED <<cur, swapVars, faults>>

-----------------------------------------------------------------------------
Chown ==
  /\ pc = "chown"
  /\ pc' = "start"
  /\ UNCHANGED <<dataVars, containers, fixedVars, todo, cur, swapVars, toStart,
                 errorVars, seenVars, boundVars>>

ChownFails ==
  /\ pc = "chown"
  /\ Fault
  /\ Throw
  /\ UNCHANGED <<cur, swapVars>>

(* The finally block: the containers first, whatever the try ended with.   *)
Start ==
  /\ pc = "start"
  /\ containers' = IF toStart THEN "all" ELSE containers
  /\ pc' = "clean"
  /\ UNCHANGED <<dataVars, fixedVars, todo, cur, swapVars, toStart, errorVars,
                 seenVars, boundVars>>

(* Mutant: the status of the start is not looked at.                       *)
StartFailsQuietly ==
  /\ pc = "start"
  /\ toStart
  /\ Fault
  /\ containers' \in {containers, "some"}
  /\ pc' = "clean"
  /\ UNCHANGED <<dataVars, fixedVars, todo, cur, swapVars, toStart, errorVars,
                 seenVars, meddles>>

StartFails ==
  /\ pc = "start"
  /\ toStart
  /\ Fault
  /\ containers' \in {containers, "some"}
  /\ startFailed' = TRUE
  /\ pc' = "clean"
  /\ UNCHANGED <<dataVars, fixedVars, todo, cur, swapVars, toStart, failed,
                 exit, seenVars, meddles>>

(* Nothing of the process is left.                                         *)
Over ==
  /\ pc' = "idle" /\ todo' = {} /\ cur' = None
  /\ temp' = Nothing /\ stepKept' = Nothing /\ done' = {} /\ stuck' = {}
  /\ toStart' = FALSE /\ failed' = FALSE /\ startFailed' = FALSE
  /\ UNCHANGED <<dataVars, containers, fixedVars, seenVars, meddles>>

(* Mutant: the next restore begins with what this one remembers.           *)
EndRemembers ==
  /\ pc = "clean"
  /\ exit' = IF failed \/ startFailed THEN "failed" ELSE "ok"
  /\ pc' = "idle" /\ todo' = {} /\ cur' = None
  /\ UNCHANGED <<dataVars, containers, fixedVars, swapVars, toStart, failed,
                 startFailed, seenVars, boundVars>>

(* The unpacked folders that are left go; one that cannot is only logged.  *)
End ==
  /\ pc = "clean"
  /\ exit' = IF failed \/ startFailed THEN "failed" ELSE "ok"
  /\ Over
  /\ UNCHANGED faults

(* The process is killed, or throws outside the try: all stays as it is.   *)
Crash ==
  /\ pc # "idle"
  /\ Fault
  /\ exit' = "killed"
  /\ Over

-----------------------------------------------------------------------------
(* Somebody else, or the nightly backup, starts the containers.            *)
OthersStart ==
  /\ meddles < MaxMeddles /\ meddles' = meddles + 1
  /\ containers # "all"
  /\ containers' = "all" /\ warm' = TRUE
  /\ UNCHANGED <<dataVars, fixedVars, pc, todo, cur, swapVars, toStart,
                 errorVars, was, ranBefore, faults>>

-----------------------------------------------------------------------------
Restorer ==
  \/ Stop \/ StopFails
  \/ UnpackFails \/ Unpacked \/ NotUnpacked
  \/ SwapFails \/ Swapped \/ Undone
  \/ Chown \/ ChownFails \/ Start \/ StartFails \/ End \/ Crash
  \/ \E f \in Folders : \/ Unpack(f) \/ Keep(f) \/ PutIn(f)
                        \/ TakeOut(f) \/ PutBack(f) \/ UndoFails(f)

Next == Refuse \/ Begin \/ Restorer \/ OthersStart

Spec == Init /\ [][Next]_vars
FairSpec == Spec /\ WF_vars(Restorer)

-----------------------------------------------------------------------------
TypeOK ==
  /\ place \in [Folders -> Generations \cup {None}]
  /\ kept \in [Folders -> SUBSET Generations]
  /\ containers \in {"all", "some", "none"}
  /\ listed \in BOOLEAN /\ run \in 0..MaxRuns
  /\ pc \in {"idle", "stop", "unpack", "swap", "undo", "chown", "start",
             "clean"}
  /\ todo \subseteq Folders /\ cur \in Folders \cup {None}
  /\ temp \in [Folders -> Generations \cup {None}]
  /\ stepKept \in [Folders -> Generations \cup {None}]
  /\ done \subseteq Folders /\ stuck \subseteq Folders
  /\ toStart \in BOOLEAN /\ failed \in BOOLEAN /\ startFailed \in BOOLEAN
  /\ exit \in {"none", "ok", "failed", "refused", "killed"}
  /\ was \in [Folders -> Generations \cup {None}]
  /\ ranBefore \in BOOLEAN /\ warm \in BOOLEAN
  /\ pc = "idle" => /\ temp = Nothing /\ stepKept = Nothing
                    /\ done = {} /\ stuck = {} /\ ~failed /\ ~startFailed
  /\ faults \in 0..MaxFaults /\ meddles \in 0..MaxMeddles

(* The generations of f that are on the server.                            *)
Held(f) == ({place[f]} \cup kept[f]) \ {None}

(* No restore ever loses data: what a service had in a folder, and what an *)
(* earlier restore put there, is in its place or beside it at every        *)
(* moment, whatever fails and whenever the process dies.  Only what this   *)
(* run has unpacked itself may go away again.                              *)
NothingLost == [][\A f \in Folders : Held(f) \ {run} \subseteq Held(f)']_vars

(* When the containers are started, the service has either all of the      *)
(* snapshot or all of what it had, except for folders the restore names as *)
(* stuck, with the place where their data is.                              *)
AllOrAsItWas ==
  pc \in {"start", "clean"} =>
    \/ \A f \in Folders : place[f] = run
    \/ /\ \A f \in Folders \ stuck : place[f] = was[f]
       /\ \A f \in stuck : was[f] \in {None} \cup kept[f]
       /\ failed

(* No folder is taken from under a running container, but for the ones     *)
(* that others have started.                                               *)
SwappedCold ==
  [][ place' # place => containers = "none" \/ warm ]_vars

(* A restore that ends by itself has started again what ran, or says it    *)
(* has not; one that reports success has put every folder in place.        *)
EndsAsReported ==
  [][ pc = "clean" /\ exit' \in {"ok", "failed"} =>
        /\ ranBefore => containers = "all" \/ startFailed
        /\ exit' = "ok" => /\ \A f \in Folders : place[f] = run
                           /\ ranBefore => containers = "all" ]_vars

(* scripts/backup/src/restore.ts:58-59: every folder already swapped goes  *)
(* back as it was, "so the service never starts on half of a snapshot".    *)
NeverOnHalf ==
  [][ pc = "start" /\ pc' = "clean" /\ containers' = "all" =>
        \/ \A f \in Folders : place[f] = run
        \/ \A f \in Folders : place[f] # run ]_vars
=============================================================================
