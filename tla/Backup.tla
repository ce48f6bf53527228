------------------------------- MODULE Backup -------------------------------
(***************************************************************************)
(* The nightly backup (scripts/backup/+main.ts): one config after another, *)
(* stop the stack, copy its data with restic, start it again, and report.  *)
(*                                                                         *)
(* A config names what to stop: the compose stack in its folder            *)
(* ("compose"), or a list of containers ("list"), which may be empty.      *)
(* docker knows a container by its labels: Own[c] are the ones created     *)
(* from the compose file of c's stack, OriginOf is the compose project and *)
(* apps root they say, FilesOf the compose files they were created from.   *)
(* Like[c] are the ones that only look like the stack's: its project name  *)
(* or folder, but another compose file.  A container stands for its        *)
(* service.                                                                *)
(*                                                                         *)
(* A restic repository is "ok", "damaged" (it opens, check fails), absent  *)
(* ("none"), or "orphan": its keys or data are there, its config is not.   *)
(***************************************************************************)
EXTENDS Naturals, FiniteSets

CONSTANTS
  Configs, Containers, Origins, Files, Repos,
  ModeOf, Own, Like, Named, OriginOf, FilesOf, RepoOf,
  None,
  MaxFaults,    \* bound: commands that fail
  MaxMeddles    \* bound: what Watchtower and people do meanwhile

ASSUME BackupAssumption ==
  /\ ModeOf \in [Configs -> {"compose", "list"}]
  /\ Own \in [Configs -> SUBSET Containers]
  /\ Like \in [Configs -> SUBSET Containers]
  /\ Named \in [Configs -> SUBSET Containers]
  /\ OriginOf \in [Containers -> Origins]
  /\ FilesOf \in [Containers -> SUBSET Files]
  /\ RepoOf \in [Configs -> Repos]
  /\ None \notin Origins /\ None \notin Configs
  /\ MaxFaults \in Nat /\ MaxMeddles \in Nat

VARIABLES
  \* the server
  exists, running,  \* containers
  rebuildable,      \* the compose and env files `up -d` needs are there
  repo,
  \* the backup process
  pc,
  todo,         \* configs not processed yet
  cur,          \* the one being processed
  status,       \* of each config
  errorAtStep,
  target,       \* cur's entry of composeTargets: the origin it ran from
  ran,          \* what ran before the stop (compose: target.services)
  left,         \* containers of a list this loop has not handled
  exit,
  \* history and bounds
  copied,       \* configs restic has made a snapshot for
  checked,      \* configs whose repository was found sound after it
  warm,         \* containers others have started since cur's stop began
  late,         \* containers others have taken after this run started them
  swapped,      \* repositories others have changed since cur's guard looked
  faults, meddles

dockerVars == <<exists, running>>
serverVars == <<exists, running, rebuildable, repo>>
resultVars == <<status, errorAtStep, copied, checked>>
stackVars  == <<target, ran, left>>
seenVars   == <<warm, late, swapped>>
boundVars  == <<faults, meddles>>
vars == <<serverVars, pc, todo, cur, resultVars, stackVars, exit, seenVars,
          boundVars>>

Fault == faults < MaxFaults /\ faults' = faults + 1

Mode == ModeOf[cur]
Repo == repo[RepoOf[cur]]

-----------------------------------------------------------------------------
(* Any state an earlier run, a crash of one, or people may have left.      *)
Init ==
  /\ exists \in SUBSET Containers /\ running \in SUBSET exists
  /\ rebuildable \in BOOLEAN
  /\ repo \in [Repos -> {"none", "orphan", "ok", "damaged"}]
  /\ pc = "next" /\ todo = Configs /\ cur = None
  /\ status \in [Configs -> {"inProgress", "error"}]
  /\ errorAtStep = [c \in Configs |-> IF status[c] = "error" THEN "config"
                                      ELSE "none"]
  /\ target = None /\ ran = {} /\ left = {}
  /\ exit = "none"
  /\ copied = {} /\ checked = {} /\ warm = {} /\ late = {} /\ swapped = {}
  /\ faults = 0 /\ meddles = 0

(* Mutant: the step is not remembered.                                     *)
MarkedBare(step) ==
  /\ status' = [status EXCEPT ![cur] = "error"]
  /\ UNCHANGED errorAtStep

(* markBackupFailed.                                                       *)
Marked(step) ==
  /\ status' = [status EXCEPT ![cur] = "error"]
  /\ errorAtStep' = [errorAtStep EXCEPT ![cur] = step]

GoTo(next) == pc' = next /\ UNCHANGED <<todo, cur, exit>>

-----------------------------------------------------------------------------
(* processBackups                                                          *)

(* A config that did not load is passed over.                              *)
SkipBroken(c) ==
  /\ pc = "next"
  /\ c \in todo
  /\ status[c] = "error"
  /\ todo' = todo \ {c}
  /\ UNCHANGED <<serverVars, pc, cur, resultVars, stackVars, exit, seenVars,
                 boundVars>>

(* A config without a name or sources, or whose sources are not there.     *)
BadConfig(c) ==
  /\ pc = "next"
  /\ c \in todo
  /\ status[c] # "error"
  /\ todo' = todo \ {c}
  /\ status' = [status EXCEPT ![c] = "error"]
  /\ errorAtStep' = [errorAtStep EXCEPT ![c] = "config"]
  /\ UNCHANGED <<serverVars, pc, cur, copied, checked, stackVars, exit,
                 seenVars, boundVars>>

Begin(c) ==
  /\ pc = "next"
  /\ c \in todo
  /\ status[c] # "error"
  /\ todo' = todo \ {c}
  /\ cur' = c /\ pc' = "stop"
  /\ left' = IF ModeOf[c] = "list" THEN Named[c] ELSE {}
  /\ ran' = IF ModeOf[c] = "list" THEN Named[c] \cap running ELSE {}
  /\ UNCHANGED <<serverVars, resultVars, target, exit, seenVars, boundVars>>

-----------------------------------------------------------------------------
(* manageContainers "stop"                                                 *)

(* executeBackupWorkflow returns; its finally starts the containers.       *)
Fail(step) ==
  /\ Marked(step)
  /\ GoTo("start")
  /\ left' = IF Mode = "list" THEN Named[cur] ELSE {}
  /\ UNCHANGED <<rebuildable, copied, checked, target, ran, seenVars, meddles>>

OwnUp(c) == Own[c] \cap running
FoundOrigins(c) == {OriginOf[k] : k \in OwnUp(c)}
OfOrigin(ks, o) == {k \in ks : OriginOf[k] = o}

(* The containers of one origin fit together when the compose files of one *)
(* of them hold those of all the others.                                   *)
FitTogether(ks) == \E k \in ks : \A j \in ks : FilesOf[j] \subseteq FilesOf[k]

(* Mutant: the first of several origins is taken.                          *)
RefusedFewer(c) ==
  \/ \E o \in FoundOrigins(c) : ~FitTogether(OfOrigin(OwnUp(c), o))
  \/ FoundOrigins(c) = {} /\ Like[c] \cap running # {}

(* Nobody can say what the stack is: nothing is stopped, the backup fails. *)
Refused(c) ==
  \/ \E o \in FoundOrigins(c) : ~FitTogether(OfOrigin(OwnUp(c), o))
  \/ FoundOrigins(c) = {} /\ Like[c] \cap running # {}
  \/ \E o, p \in FoundOrigins(c) : o # p

(* findRunningTarget: the stack's running containers say where it runs.    *)
Find ==
  /\ pc = "stop"
  /\ Mode = "compose"
  /\ ~Refused(cur)
  /\ ran' = OwnUp(cur)
  /\ IF OwnUp(cur) = {}
     THEN GoTo("chown") /\ UNCHANGED target
     ELSE \E o \in FoundOrigins(cur) :
            target' = o /\ GoTo("composeStop")
  /\ UNCHANGED <<serverVars, resultVars, left, seenVars, boundVars>>

FindRefuses ==
  /\ pc = "stop"
  /\ Mode = "compose"
  /\ Refused(cur)
  /\ Fail("compose_stop")
  /\ UNCHANGED <<dockerVars, repo, faults>>

FindFails ==
  /\ pc = "stop"
  /\ Mode = "compose"
  /\ Fault
  /\ Fail("compose_stop")
  /\ UNCHANGED <<dockerVars, repo>>

Services(o) == OfOrigin(Containers, o)

ComposeStop ==
  /\ pc = "composeStop"
  /\ running' = running \ Services(target)
  /\ GoTo("chown")
  /\ UNCHANGED <<exists, rebuildable, repo, resultVars, stackVars, seenVars,
                 boundVars>>

ComposeStopFails ==
  /\ pc = "composeStop"
  /\ Fault
  /\ \E some \in SUBSET Services(target) : running' = running \ some
  /\ Fail("compose_stop")
  /\ UNCHANGED <<exists, repo>>

(* An explicit list is stopped one by one, and no further than the first   *)
(* that does not stop.                                                     *)
ListStop(k) ==
  /\ pc = "stop"
  /\ k \in left \cap exists
  /\ running' = running \ {k}
  /\ left' = left \ {k}
  /\ UNCHANGED <<exists, rebuildable, repo, pc, todo, cur, resultVars, target,
                 ran, exit, seenVars, boundVars>>

ListStopFails(k) ==
  /\ pc = "stop"
  /\ k \in left
  /\ IF k \in exists THEN Fault ELSE UNCHANGED faults
  /\ Fail("docker_stop")
  /\ UNCHANGED <<dockerVars, repo>>

ListStopped ==
  /\ pc = "stop"
  /\ Mode = "list"
  /\ left = {}
  /\ GoTo("chown")
  /\ UNCHANGED <<serverVars, resultVars, stackVars, seenVars, boundVars>>

-----------------------------------------------------------------------------
(* changeOwnership and performResticBackup: a chain of commands, each of   *)
(* which ends the workflow when it fails.                                  *)
Step == [chown |-> "chown", probe |-> "restic_check", init |-> "restic_init",
         verify |-> "restic_check", check1 |-> "restic_check_integrity_before",
         copy |-> "restic_backup", forget |-> "restic_forget",
         check2 |-> "restic_check_integrity_after"]

(* restic, or sudo, fails for a reason of its own.  A repository it wrote  *)
(* to may be left damaged, and restic may have made the snapshot although  *)
(* it could not read all the data.                                         *)
CommandFails ==
  /\ pc \in DOMAIN Step
  /\ Fault
  /\ Marked(Step[pc])
  /\ GoTo("start")
  /\ left' = IF Mode = "list" THEN Named[cur] ELSE {}
  /\ \/ UNCHANGED repo
     \/ /\ pc \in {"init", "copy", "forget"} /\ Repo # "none"
        /\ repo' = [repo EXCEPT ![RepoOf[cur]] = "damaged"]
     \/ /\ pc = "init" /\ Repo = "none"
        /\ repo' = [repo EXCEPT ![RepoOf[cur]] = "orphan"]
  /\ copied' \in {copied, IF pc = "copy" THEN copied \cup {cur} ELSE copied}
  /\ UNCHANGED <<exists, running, rebuildable, checked, target, ran, seenVars,
                 meddles>>

(* A command that does its work and leads to the next.                     *)
Worked(at, next) ==
  /\ pc = at
  /\ GoTo(next)
  /\ UNCHANGED <<dockerVars, rebuildable, stackVars, warm, late, boundVars>>

(* Mutant: a command that fails ends the workflow, and marks nothing.      *)
CommandRefusedQuietly ==
  /\ \/ pc = "init" /\ Repo \in {"ok", "damaged"}
     \/ pc = "verify" /\ Repo \in {"none", "orphan"}
     \/ pc \in {"check1", "check2"} /\ Repo # "ok"
     \/ pc \in {"copy", "forget"} /\ Repo \in {"none", "orphan"}
  /\ GoTo("start")
  /\ UNCHANGED <<serverVars, resultVars, stackVars, seenVars, boundVars>>

(* The repository is not what the command needs: it fails by itself.       *)
CommandRefused ==
  /\ \/ pc = "init" /\ Repo \in {"ok", "damaged"}
     \/ pc = "verify" /\ Repo \in {"none", "orphan"}
     \/ pc \in {"check1", "check2"} /\ Repo # "ok"
     \/ pc \in {"copy", "forget"} /\ Repo \in {"none", "orphan"}
  /\ Fail(Step[pc])
  /\ UNCHANGED <<dockerVars, repo, faults>>

Chown == Worked("chown", "probe") /\ UNCHANGED <<repo, resultVars, swapped>>

(* restic cat config.  Its error is remembered, and cleared by a repository*)
(* that could be made.                                                     *)
Probe ==
  /\ Worked("probe", "check1")
  /\ Repo \in {"ok", "damaged"}
  /\ UNCHANGED <<repo, resultVars, swapped>>

ProbeMissing ==
  /\ Worked("probe", "guard")
  /\ Repo \in {"none", "orphan"}
  /\ Marked("restic_check")
  /\ UNCHANGED <<repo, copied, checked, swapped>>

(* Mutant: a folder with orphaned keys or data is initialised as well.     *)
GuardOpen ==
  /\ Worked("guard", "init")
  /\ swapped' = swapped \ {RepoOf[cur]}
  /\ UNCHANGED <<repo, resultVars>>

(* hasNonEmptyResticSubdir.                                                *)
Guard ==
  /\ Worked("guard", "init")
  /\ Repo = "none"
  /\ swapped' = swapped \ {RepoOf[cur]}
  /\ UNCHANGED <<repo, resultVars>>

GuardRefuses ==
  /\ pc = "guard"
  /\ Repo # "none"
  /\ Fail("init")
  /\ UNCHANGED <<dockerVars, repo, faults>>

InitRepo ==
  /\ Worked("init", "verify")
  /\ Repo \in {"none", "orphan"}
  /\ repo' = [repo EXCEPT ![RepoOf[cur]] = IF Repo = "none" THEN "ok"
                                           ELSE "damaged"]
  /\ status' = [status EXCEPT ![cur] = "inProgress"]
  /\ errorAtStep' = [errorAtStep EXCEPT ![cur] = "none"]
  /\ UNCHANGED <<copied, checked, swapped>>

Verify ==
  /\ Worked("verify", "check1")
  /\ Repo \in {"ok", "damaged"}
  /\ UNCHANGED <<repo, resultVars, swapped>>

CheckBefore ==
  /\ Worked("check1", "copy")
  /\ Repo = "ok"
  /\ UNCHANGED <<repo, resultVars, swapped>>

Copy ==
  /\ Worked("copy", "forget")
  /\ Repo \in {"ok", "damaged"}
  /\ copied' = copied \cup {cur}
  /\ UNCHANGED <<repo, status, errorAtStep, checked, swapped>>

Forget ==
  /\ Worked("forget", "check2")
  /\ Repo \in {"ok", "damaged"}
  /\ UNCHANGED <<repo, resultVars, swapped>>

(* The second check; handing the files to their owner after it only warns. *)
CheckAfter ==
  /\ pc = "check2"
  /\ Repo = "ok"
  /\ GoTo("start")
  /\ left' = IF Mode = "list" THEN Named[cur] ELSE {}
  /\ checked' = checked \cup {cur}
  /\ UNCHANGED <<serverVars, status, errorAtStep, copied, target, ran,
                 seenVars, boundVars>>

-----------------------------------------------------------------------------
(* manageContainers "start", in the workflow's finally.                    *)

Settle ==
  /\ pc' = "next" /\ cur' = None
  /\ target' = None /\ left' = {} /\ ran' = {}
  /\ warm' = {} /\ late' = {} /\ swapped' = {}
  /\ UNCHANGED <<rebuildable, repo, todo, exit, copied, checked, meddles>>

(* The workflow is over.  A status no step has changed is a success.       *)
Done ==
  /\ Settle
  /\ status' = [status EXCEPT ![cur] = IF @ = "inProgress" THEN "success"
                                       ELSE @]
  /\ UNCHANGED errorAtStep

NotStarted(step) == Settle /\ Marked(step)

Starting(next) ==
  /\ GoTo(next)
  /\ UNCHANGED <<rebuildable, repo, resultVars, stackVars, seenVars, meddles>>

(* Mutant: a stack that was found stopped is started from its folder.      *)
StartsAnyway ==
  /\ pc = "start"
  /\ Mode = "compose" /\ target = None
  /\ running' = running \cup (Own[cur] \cap exists)
  /\ Done
  /\ UNCHANGED <<exists, faults>>

NothingToStart ==
  /\ pc = "start"
  /\ Mode = "compose" /\ target = None
  /\ Done
  /\ UNCHANGED <<dockerVars, faults>>

ComposeStarts == pc = "start" /\ Mode = "compose" /\ target # None

(* Mutant: exit code 0 is taken for a stack that runs.                     *)
ComposeStartTrusted ==
  /\ ComposeStarts
  /\ running' = running \cup (Services(target) \cap exists)
  /\ Done
  /\ UNCHANGED <<exists, faults>>

(* compose start: every container of the project there is, also one that   *)
(* did not run before.  It may exit 0 with one missing.                    *)
ComposeStart ==
  /\ ComposeStarts
  /\ running' = running \cup (Services(target) \cap exists)
  /\ Starting("recheck")
  /\ UNCHANGED <<exists, faults>>

(* It may also fail because of the missing one, and start some of the rest.*)
ComposeStartMissing ==
  /\ ComposeStarts
  /\ ~(Services(target) \subseteq exists)
  /\ \E some \in SUBSET (Services(target) \cap exists) :
       running' = running \cup some
  /\ Starting("up")
  /\ UNCHANGED <<exists, faults>>

ComposeStartFails ==
  /\ ComposeStarts
  /\ Fault
  /\ \E some \in SUBSET (Services(target) \cap exists) :
       running' = running \cup some
  /\ NotStarted("compose_start")
  /\ UNCHANGED exists

(* ensureServicesRunning: what ran before the stop has to run again.       *)
Recheck ==
  /\ pc = "recheck"
  /\ ran \subseteq running
  /\ Done
  /\ UNCHANGED <<dockerVars, faults>>

RecheckLost ==
  /\ pc = "recheck"
  /\ ~(ran \subseteq running)
  /\ Starting("upLost")
  /\ UNCHANGED <<dockerVars, faults>>

(* Whether what others removed is back is looked at once more.             *)
RecheckAgain ==
  /\ pc = "recheckAgain"
  /\ IF ran \subseteq running THEN Done ELSE NotStarted("compose_start")
  /\ UNCHANGED <<dockerVars, faults>>

RecheckFails ==
  /\ pc \in {"recheck", "recheckAgain"}
  /\ Fault
  /\ NotStarted("compose_start")
  /\ UNCHANGED dockerVars

(* runUpFallback: up -d makes every service of the stack again, but only   *)
(* with the files it was deployed with.                                    *)
Up ==
  /\ pc \in {"up", "upLost"}
  /\ rebuildable
  /\ exists' = exists \cup Services(target)
  /\ running' = running \cup Services(target)
  /\ IF pc = "up" THEN Done ELSE Starting("recheckAgain")
  /\ UNCHANGED faults

CannotRebuild ==
  /\ pc \in {"up", "upLost"}
  /\ ~rebuildable
  /\ NotStarted("compose_start")
  /\ UNCHANGED <<dockerVars, faults>>

UpFails ==
  /\ pc \in {"up", "upLost"}
  /\ rebuildable
  /\ Fault
  /\ \E some \in SUBSET Services(target) :
       exists' = exists \cup some /\ running' = running \cup some
  /\ NotStarted("compose_start")

(* Every container of a list is started, whichever of them fail.           *)
ListStart(k) ==
  /\ pc = "start"
  /\ k \in left \cap exists
  /\ running' = running \cup {k}
  /\ left' = left \ {k}
  /\ UNCHANGED <<exists, rebuildable, repo, pc, todo, cur, resultVars, target,
                 ran, exit, seenVars, boundVars>>

(* Mutant: a container that does not start is tried until it does.         *)
ListStartRetries(k) ==
  /\ pc = "start"
  /\ k \in left
  /\ IF k \in exists THEN Fault ELSE UNCHANGED faults
  /\ Marked("docker_start")
  /\ UNCHANGED <<serverVars, pc, todo, cur, copied, checked, stackVars, exit,
                 seenVars, meddles>>

ListStartFails(k) ==
  /\ pc = "start"
  /\ k \in left
  /\ IF k \in exists THEN Fault ELSE UNCHANGED faults
  /\ Marked("docker_start")
  /\ left' = left \ {k}
  /\ UNCHANGED <<serverVars, pc, todo, cur, copied, checked, target, ran, exit,
                 seenVars, meddles>>

ListStarted ==
  /\ pc = "start"
  /\ Mode = "list"
  /\ left = {}
  /\ Done
  /\ UNCHANGED <<dockerVars, faults>>

-----------------------------------------------------------------------------
(* buildResult: the exit code, and the report with it.                     *)
Report ==
  /\ pc = "next"
  /\ todo = {}
  /\ pc' = "done"
  /\ exit' = IF Configs # {} /\ \A c \in Configs : status[c] = "success"
             THEN "ok" ELSE "failed"
  /\ UNCHANGED <<serverVars, todo, cur, resultVars, stackVars, seenVars,
                 boundVars>>

(* The process is killed, or throws where nobody catches: the stack stays  *)
(* as it is.                                                               *)
Crash ==
  /\ pc # "done"
  /\ Fault
  /\ pc' = "done" /\ exit' = "fatal"
  /\ UNCHANGED <<serverVars, todo, cur, resultVars, stackVars, seenVars,
                 meddles>>

-----------------------------------------------------------------------------
(* Watchtower, a deploy and people at work on the same server, and a disk  *)
(* that is mounted, unmounted or synced.                                   *)
Meddle ==
  /\ meddles < MaxMeddles /\ meddles' = meddles + 1
  /\ pc # "done"
  /\ UNCHANGED <<rebuildable, pc, todo, cur, resultVars, stackVars, exit,
                 faults>>

StartedByUs(k) == pc = "start" /\ Mode = "list" /\ k \in Named[cur] \ left

Removed(k) ==
  /\ k \in exists
  /\ Meddle
  /\ exists' = exists \ {k} /\ running' = running \ {k}
  /\ late' = IF StartedByUs(k) THEN late \cup {k} ELSE late
  /\ UNCHANGED <<repo, warm, swapped>>

Stopped(k) ==
  /\ k \in running
  /\ Meddle
  /\ running' = running \ {k}
  /\ late' = IF StartedByUs(k) THEN late \cup {k} ELSE late
  /\ UNCHANGED <<exists, repo, warm, swapped>>

Started(k) ==
  /\ k \notin running
  /\ Meddle
  /\ exists' = exists \cup {k} /\ running' = running \cup {k}
  /\ warm' = IF cur = None THEN {} ELSE warm \cup {k}
  /\ UNCHANGED <<repo, late, swapped>>

DiskChanged(r) ==
  /\ Meddle
  /\ \E state \in {"none", "orphan", "ok", "damaged"} \ {repo[r]} :
       repo' = [repo EXCEPT ![r] = state]
  /\ swapped' = IF cur = None THEN {} ELSE swapped \cup {r}
  /\ UNCHANGED <<dockerVars, warm, late>>

-----------------------------------------------------------------------------
Runner ==
  \/ \E c \in Configs : SkipBroken(c) \/ BadConfig(c) \/ Begin(c)
  \/ Find \/ FindRefuses \/ FindFails
  \/ ComposeStop \/ ComposeStopFails \/ ListStopped
  \/ CommandFails \/ CommandRefused
  \/ Chown \/ Probe \/ ProbeMissing \/ Guard \/ GuardRefuses \/ InitRepo
  \/ Verify \/ CheckBefore \/ Copy \/ Forget \/ CheckAfter
  \/ NothingToStart
  \/ ComposeStart \/ ComposeStartMissing \/ ComposeStartFails
  \/ Recheck \/ RecheckLost \/ RecheckAgain \/ RecheckFails
  \/ Up \/ CannotRebuild \/ UpFails
  \/ ListStarted
  \/ \E k \in Containers :
       ListStop(k) \/ ListStopFails(k) \/ ListStart(k) \/ ListStartFails(k)
  \/ Report \/ Crash

Others ==
  \/ \E k \in Containers : Removed(k) \/ Stopped(k) \/ Started(k)
  \/ \E r \in Repos : DiskChanged(r)

Next == Runner \/ Others

Spec == Init /\ [][Next]_vars
FairSpec == Spec /\ WF_vars(Runner)

-----------------------------------------------------------------------------
PCs == {"next", "stop", "composeStop", "guard", "start", "recheck",
        "recheckAgain", "up", "upLost", "done"} \cup DOMAIN Step
Steps == {"none", "config", "compose_stop", "docker_stop", "init",
          "compose_start", "docker_start"} \cup {Step[p] : p \in DOMAIN Step}

TypeOK ==
  /\ exists \subseteq Containers /\ running \subseteq exists
  /\ rebuildable \in BOOLEAN
  /\ repo \in [Repos -> {"none", "orphan", "ok", "damaged"}]
  /\ pc \in PCs
  /\ todo \subseteq Configs
  /\ cur \in Configs \cup {None}
  /\ pc \notin {"next", "done"} => cur # None
  /\ status \in [Configs -> {"inProgress", "success", "error"}]
  /\ errorAtStep \in [Configs -> Steps]
  /\ \A c \in Configs : status[c] = "error" <=> errorAtStep[c] # "none"
  /\ target \in Origins \cup {None}
  /\ pc \in {"recheck", "recheckAgain", "up", "upLost"} => target # None
  /\ ran \subseteq Containers /\ left \subseteq Containers
  /\ exit \in {"none", "ok", "failed", "fatal"}
  /\ copied \subseteq Configs /\ checked \subseteq Configs
  /\ warm \subseteq Containers /\ late \subseteq Containers
  /\ swapped \subseteq Repos
  /\ faults \in 0..MaxFaults /\ meddles \in 0..MaxMeddles

Managed(c) == IF ModeOf[c] = "compose" THEN Own[c] ELSE Named[c]

(* Whatever fails, and whatever Watchtower takes away in between, what ran *)
(* before a config's stop runs again when its workflow is over, or the     *)
(* config is reported as one whose containers did not start.               *)
BackUpOrReported ==
  [][ cur # None /\ cur' = None =>
        \/ ran \subseteq running' \cup late
        \/ errorAtStep'[cur] \in {"compose_start", "docker_start"} ]_vars

(* A stack's data is copied only while its containers are down, but for    *)
(* the ones somebody else has started since: a stop that did not work, or  *)
(* a stack nobody can tell apart, ends the backup before the copy.         *)
CopiedCold ==
  [][ pc = "copy" /\ pc' = "forget" =>
        Managed(cur) \cap running \subseteq warm ]_vars

(* A config counts as a success only if this run copied its data and found *)
(* the repository sound afterwards: the failure that a missing repository  *)
(* is probed with, cleared when it has been made, hides no other.          *)
SuccessIsCopied ==
  /\ \A c \in Configs : status[c] = "success" => c \in copied \cap checked
  /\ exit = "ok" => copied = Configs

(* The backup starts a container only when its config names it, or when    *)
(* something of its compose project ran before: a stack whose containers   *)
(* were all stopped stays stopped.                                         *)
StoppedStaysStopped ==
  [][ meddles' = meddles =>
        \A k \in running' \ running :
          \/ k \in Named[cur]
          \/ \E j \in ran : OriginOf[j] = OriginOf[k] ]_vars

(* The backup never makes a repository of a folder that has keys or data   *)
(* of an earlier one, which would leave it unreadable.                     *)
OrphanLeftAlone ==
  [][ \A r \in Repos \ swapped :
        repo[r] = "orphan" /\ meddles' = meddles => repo'[r] = "orphan" ]_vars

(* The run ends, and with it every config has been looked at.              *)
RunEnds == <>(pc = "done" /\ (exit # "fatal" => todo = {}))

(* scripts/backup/README.md: a running container that "looks like it       *)
(* belongs to the stack" without being created from the stack's compose    *)
(* file: "the backup fails instead of copying the data live".              *)
LookalikeFails ==
  [][ pc = "copy" /\ pc' = "forget" => Like[cur] \cap running \subseteq warm
    ]_vars
=============================================================================
