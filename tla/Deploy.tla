------------------------------- MODULE Deploy -------------------------------
(***************************************************************************)
(* `rostok deploy <server> [stack]`: cli/commands/deploy.ts validates the  *)
(* request, cli/deploy/run-deploy.ts then takes the project's files and    *)
(* config.json to the server and starts the stacks they list.              *)
(*                                                                         *)
(* A config.json entry is an instance of a stack: NameOf is its folder     *)
(* under stacks/, ProjectOf the compose project it runs as (deployAs, or   *)
(* the name).  The files under PATH_APPS are the server level files        *)
(* (ConfigFiles: configs/, compose-override/, .env), synced by one rsync,  *)
(* and one folder per stack, named by the stack, synced by an rsync each.  *)
(* What is inside a file is one of a few Versions, None when it is absent. *)
(*                                                                         *)
(* The order of the entries in config.json is abstracted: a loop over them *)
(* takes them in any order.                                                *)
(***************************************************************************)
EXTENDS Naturals, FiniteSets

CONSTANTS
  Entries,      \* what config.json may list, and what may run on the server
  StackNames,   \* names of stacks, which are also their folders on the server
  Projects,     \* compose project names
  ConfigFiles,  \* server level files, outside stacks/
  Versions,     \* contents of a file or of a stack's folder
  First,        \* the version the project starts with, any of them
  None,         \* no such file or folder
  NameOf,       \* the stack an entry is an instance of
  ProjectOf,    \* the compose project an entry runs as
  Containers,   \* container names
  ContainerOf,  \* the container_name an entry's compose file resolves to
  Watch,        \* an entry's watchFilesAndRestartIfChanged
  HookWrites,   \* the server level files an entry's before hooks generate
  Listable,     \* the entries config.json may list; the others run by hand
  MaxEdits,     \* bound: changes of the project by its owner
  MaxFaults     \* bound: commands that fail, connections that break

Paths == ConfigFiles \cup StackNames
Content == Versions \cup {None}

ASSUME DeployAssumption ==
  /\ NameOf \in [Entries -> StackNames]
  /\ ProjectOf \in [Entries -> Projects]
  /\ ContainerOf \in [Entries -> Containers]
  /\ StackNames \subseteq Projects
  /\ Watch \in [Entries -> SUBSET Paths]
  /\ HookWrites \in [Entries -> SUBSET ConfigFiles]
  /\ Listable \subseteq Entries
  /\ ConfigFiles \cap StackNames = {}
  /\ None \notin Versions /\ First \in Versions
  /\ None \notin StackNames
  /\ MaxEdits \in Nat
  /\ MaxFaults \in Nat

VARIABLES
  \* the project folder on the owner's machine
  configFound,  \* servers/<server>/config.json exists
  config,       \* the entries it lists
  local,        \* the project's files
  \* the server
  remote,       \* the files under PATH_APPS
  running,      \* the entries whose containers exist
  loaded,       \* the watched files a running entry's containers started with
  \* the deploy process
  phase,        \* what it does next
  mode,         \* "full" or "single"
  target,       \* the stack of a single deploy
  found,        \* configFileFound
  all,          \* the entries config.json listed when this deploy read it
  sel,          \* the ones this deploy deploys
  staged,       \* the staging folder
  todo,         \* entries the loop of this phase has not handled
  stale,        \* stack names the cleanup script has not handled
  before,       \* checksumsBefore, by compose project
  restart,      \* restartStacks, compose projects
  failed,       \* a step that does not abort at once has failed
  outcome,      \* how the last deploy ended
  \* history and bounds
  blind,        \* a checksum could not be read, or a restart failed, unnoticed
  wasFresh,     \* the entries that had loaded their watched files at the start
  edits, faults

projectVars == <<configFound, config, local>>
serverVars  == <<remote, running, loaded>>
runVars     == <<mode, target, found, all, sel, wasFresh, outcome>>
sumVars     == <<before, restart, blind>>
deployVars  == <<phase, runVars, sumVars, staged, todo, stale, failed>>
boundVars   == <<edits, faults>>
vars == <<projectVars, serverVars, deployVars, boundVars>>

Phases == {"idle", "preflight", "stage", "before", "sumBefore", "cleanup",
           "rootSync", "stackSync", "sumAfter", "up", "after"}

NoFiles == [p \in Paths |-> None]
NoSums  == [q \in Projects |-> NoFiles]

Names(es) == {NameOf[e] : e \in es}

(* Mutant: deployAs aliases are forgotten.                                 *)
ProtectedNames(es) == Names(es)

(* The projects the cleanup never stops: the names in config.json and     *)
(* their deployAs aliases, of the whole list and not of the filtered one.  *)
Protected(es) == Names(es) \cup {ProjectOf[e] : e \in es}

(* The watched files of e as its containers read them from the server now. *)
OnDisk(e) == [p \in Paths |-> IF p \in Watch[e] THEN remote[p] ELSE None]

(* getRemoteChecksums: a missing file has no checksum, and neither has a   *)
(* file whose ssh call failed.                                             *)
Checksums(e, unread) ==
  [p \in Paths |-> IF p \in Watch[e] \ unread THEN remote[p] ELSE None]

Fault == faults < MaxFaults /\ faults' = faults + 1

-----------------------------------------------------------------------------
(* Contents of two files are never compared, so all start with the same.   *)
Init ==
  /\ configFound = TRUE
  /\ config \in SUBSET Listable
  /\ local = [p \in Paths |-> First]
  /\ remote = NoFiles
  /\ running = {}
  /\ loaded = [e \in Entries |-> NoFiles]
  /\ phase = "idle" /\ mode = "full" /\ target = None
  /\ found = FALSE /\ all = {} /\ sel = {}
  /\ staged = NoFiles
  /\ todo = {} /\ stale = {}
  /\ before = NoSums /\ restart = {}
  /\ failed = FALSE /\ blind = FALSE /\ wasFresh = {} /\ outcome = "none"
  /\ edits = 0 /\ faults = 0

(* The deploy process is over: the staging folder is removed (finally) and *)
(* nothing of the run is remembered.                                       *)
End(result) ==
  /\ phase' = "idle" /\ outcome' = result
  /\ mode' = "full" /\ target' = None
  /\ found' = FALSE /\ all' = {} /\ sel' = {}
  /\ staged' = NoFiles
  /\ todo' = {} /\ stale' = {}
  /\ before' = NoSums /\ restart' = {}
  /\ failed' = FALSE /\ blind' = FALSE /\ wasFresh' = {}
  /\ UNCHANGED <<projectVars, edits>>

GoTo(next, work) == phase' = next /\ todo' = work

-----------------------------------------------------------------------------
(* cli/commands/deploy.ts: validateDeployArgs, then runDeploy.            *)

Valid(m, n) ==
  /\ configFound
  /\ config # {}
  /\ m = "single" => n \in Names(config)

Request(m, n) ==
  /\ phase = "idle"
  /\ Valid(m, n)
  /\ GoTo("preflight", {})
  /\ mode' = m /\ target' = n
  /\ outcome' = "none"
  /\ wasFresh' = {e \in running : loaded[e] = OnDisk(e)}
  /\ UNCHANGED <<projectVars, serverVars, sumVars, boundVars, found, all, sel,
                 staged, stale, failed>>

Refuse(m, n) ==
  /\ phase = "idle"
  /\ ~Valid(m, n)
  /\ outcome' = IF m = "full" THEN "serverRefused" ELSE "stackRefused"
  /\ UNCHANGED <<projectVars, serverVars, sumVars, boundVars, phase, mode,
                 target, found, all, sel, staged, todo, stale, failed,
                 wasFresh>>

(* After the preflight, run-deploy.ts reads config.json again.  The list   *)
(* it got then is the one it works with to the end.                        *)
ReadConfig ==
  LET listed == IF configFound THEN config ELSE {}
      chosen == IF mode = "full" THEN listed
                ELSE {e \in listed : NameOf[e] = target}
  IN
  /\ phase = "preflight"
  /\ mode = "single" => chosen # {}
  /\ found' = configFound /\ all' = listed /\ sel' = chosen
  /\ GoTo("stage", {})
  /\ UNCHANGED <<projectVars, serverVars, sumVars, boundVars, mode, target,
                 staged, stale, failed, outcome, wasFresh>>

(* Mutant: the filtered list is not checked again.                         *)
TargetGoneFile ==
  /\ phase = "preflight"
  /\ mode = "single"
  /\ ~configFound
  /\ End("failed")
  /\ UNCHANGED <<serverVars, faults>>

(* The stack was taken out of config.json since the request was validated. *)
TargetGone ==
  /\ phase = "preflight"
  /\ mode = "single"
  /\ ~configFound \/ target \notin Names(config)
  /\ End("failed")
  /\ UNCHANGED <<serverVars, faults>>

(* Everything the server level needs is staged, whatever the stack of a    *)
(* single deploy; of stacks/, only what this deploy deploys.               *)
Stage ==
  /\ phase = "stage"
  /\ \A n \in Names(sel) : local[n] # None
  /\ staged' = [p \in Paths |->
                  IF p \in ConfigFiles \cup Names(sel) THEN local[p] ELSE None]
  /\ GoTo("before", sel)
  /\ UNCHANGED <<projectVars, serverVars, runVars, sumVars, boundVars, stale,
                 failed>>

(* A listed stack is neither in the project nor in the bundled catalog.     *)
StageFails ==
  /\ phase = "stage"
  /\ \E n \in Names(sel) : local[n] = None
  /\ End("failed")
  /\ UNCHANGED <<serverVars, faults>>

(* A stack's before hook, then the server's own override of it, both in    *)
(* the staging folder.                                                     *)
BeforeHook(e) ==
  /\ phase = "before"
  /\ e \in todo
  /\ \E made \in [HookWrites[e] -> Versions] :
       staged' = [p \in Paths |->
                    IF p \in HookWrites[e] THEN made[p] ELSE staged[p]]
  /\ todo' = todo \ {e}
  /\ UNCHANGED <<projectVars, serverVars, runVars, sumVars, boundVars, phase,
                 stale, failed>>

BeforeHooksDone ==
  /\ phase = "before"
  /\ todo = {}
  /\ GoTo("sumBefore", {e \in sel : Watch[e] # {}})
  /\ UNCHANGED <<projectVars, serverVars, runVars, sumVars, boundVars, staged,
                 stale, failed>>

(* A failed ssh call drops that file's checksum and is reported to nobody. *)
Unread(e, unread) ==
  /\ unread \subseteq Watch[e]
  /\ unread = {} => UNCHANGED <<blind, faults>>
  /\ unread # {} => blind' = TRUE /\ Fault

ChecksumBefore(e) ==
  /\ phase = "sumBefore"
  /\ e \in todo
  /\ \E unread \in SUBSET Watch[e] :
       /\ Unread(e, unread)
       /\ before' = [before EXCEPT ![ProjectOf[e]] = Checksums(e, unread)]
  /\ todo' = todo \ {e}
  /\ UNCHANGED <<projectVars, serverVars, runVars, phase, staged, stale,
                 restart, failed, edits>>

-----------------------------------------------------------------------------
(* The cleanup of stacks config.json no longer lists.  StaleStacks is the  *)
(* same script in detail.                                                  *)

StaleNames == {n \in StackNames :
                 /\ n \notin Names(all)
                 /\ remote[n] # None \/ n \in Names(running)}

(* Mutant: the cleanup also when there is no config.json.                  *)
MkdirAnyFull ==
  /\ phase = "sumBefore"
  /\ todo = {}
  /\ IF mode = "full"
     THEN phase' = "cleanup" /\ stale' = StaleNames
     ELSE phase' = "rootSync" /\ stale' = {}
  /\ UNCHANGED <<projectVars, serverVars, runVars, sumVars, boundVars, staged,
                 todo, failed>>

(* mkdir -p PATH_APPS/stacks, and what the deploy does after it.           *)
Mkdir ==
  /\ phase = "sumBefore"
  /\ todo = {}
  /\ IF mode = "full" /\ found
     THEN phase' = "cleanup" /\ stale' = StaleNames
     ELSE phase' = "rootSync" /\ stale' = {}
  /\ UNCHANGED <<projectVars, serverVars, runVars, sumVars, boundVars, staged,
                 todo, failed>>

(* Mutant: compose down with the folder's own project name.                *)
StoppableByFolder(n) == {n} \ Protected(all)

(* The containers of stack n that the cleanup may stop: compose down, by   *)
(* project, takes every container of that project with it.                 *)
Stoppable(n) == {ProjectOf[e] : e \in {r \in running : NameOf[r] = n}}
                  \ Protected(all)
Skipped(n) == \E e \in running :
                NameOf[e] = n /\ ProjectOf[e] \in Protected(all)

CleanStale(n) ==
  /\ phase = "cleanup"
  /\ n \in stale
  /\ running' = {e \in running : ProjectOf[e] \notin Stoppable(n)}
  /\ remote' = IF Skipped(n) THEN remote ELSE [remote EXCEPT ![n] = None]
  /\ stale' = stale \ {n}
  /\ UNCHANGED <<projectVars, runVars, sumVars, boundVars, loaded, phase,
                 staged, todo, failed>>

(* One stack's docker ps, compose down or rm failed: its folder stays, the *)
(* script goes on with the next stack and fails at its end.                *)
CleanStaleFails(n) ==
  /\ phase = "cleanup"
  /\ n \in stale
  /\ Fault
  /\ \E down \in SUBSET Stoppable(n) :
       running' = {e \in running : ProjectOf[e] \notin down}
  /\ stale' = stale \ {n}
  /\ failed' = TRUE
  /\ UNCHANGED <<projectVars, runVars, sumVars, remote, loaded, phase, staged,
                 todo, edits>>

CleanupDone ==
  /\ phase = "cleanup"
  /\ stale = {}
  /\ ~failed
  /\ phase' = "rootSync"
  /\ UNCHANGED <<projectVars, serverVars, runVars, sumVars, boundVars, staged,
                 todo, stale, failed>>

CleanupFailed ==
  /\ phase = "cleanup"
  /\ stale = {}
  /\ failed
  /\ End("failed")
  /\ UNCHANGED <<serverVars, faults>>

-----------------------------------------------------------------------------
(* The two kinds of rsync.  --delete takes away what is not staged.        *)

(* Mutant: also in a single deploy.                                        *)
DeletesAnyMode == found

Deletes == mode = "full" /\ found

(* Mutant: rsync without --delete.                                         *)
SyncedOver(p) == IF staged[p] = None THEN remote[p] ELSE staged[p]

Synced(p) == IF staged[p] = None /\ ~Deletes THEN remote[p] ELSE staged[p]

RootSync ==
  /\ phase = "rootSync"
  /\ remote' = [p \in Paths |->
                  IF p \in ConfigFiles THEN Synced(p) ELSE remote[p]]
  /\ GoTo("stackSync", sel)
  /\ UNCHANGED <<projectVars, runVars, sumVars, boundVars, running, loaded,
                 staged, stale, failed>>

(* rsync fails after having brought some of the files up to date.          *)
RootSyncFails ==
  /\ phase = "rootSync"
  /\ Fault
  /\ \E done \in SUBSET ConfigFiles :
       remote' = [p \in Paths |-> IF p \in done THEN Synced(p) ELSE remote[p]]
  /\ End("failed")
  /\ UNCHANGED <<running, loaded>>

StackSync(e) ==
  /\ phase = "stackSync"
  /\ e \in todo
  /\ remote' = [remote EXCEPT ![NameOf[e]] = staged[NameOf[e]]]
  /\ todo' = todo \ {e}
  /\ UNCHANGED <<projectVars, runVars, sumVars, boundVars, running, loaded,
                 phase, staged, stale, failed>>

(* The folder is left between what it was and what was staged.             *)
StackSyncFails(e) ==
  /\ phase = "stackSync"
  /\ e \in todo
  /\ Fault
  /\ \E mixed \in Versions : remote' = [remote EXCEPT ![NameOf[e]] = mixed]
  /\ End("failed")
  /\ UNCHANGED <<running, loaded>>

StackSyncsDone ==
  /\ phase = "stackSync"
  /\ todo = {}
  /\ GoTo("sumAfter", {e \in sel : Watch[e] # {}})
  /\ UNCHANGED <<projectVars, serverVars, runVars, sumVars, boundVars, staged,
                 stale, failed>>

(* Mutant: restartStacks holds names, the deploy script asks by project.   *)
ChecksumAfterByName(e) ==
  /\ phase = "sumAfter"
  /\ e \in todo
  /\ \E unread \in SUBSET Watch[e] :
       /\ Unread(e, unread)
       /\ restart' = IF before[ProjectOf[e]] = Checksums(e, unread)
                     THEN restart ELSE restart \cup {NameOf[e]}
  /\ todo' = todo \ {e}
  /\ UNCHANGED <<projectVars, serverVars, runVars, phase, staged, stale,
                 before, failed, edits>>

ChecksumAfter(e) ==
  /\ phase = "sumAfter"
  /\ e \in todo
  /\ \E unread \in SUBSET Watch[e] :
       /\ Unread(e, unread)
       /\ restart' = IF before[ProjectOf[e]] = Checksums(e, unread)
                     THEN restart ELSE restart \cup {ProjectOf[e]}
  /\ todo' = todo \ {e}
  /\ UNCHANGED <<projectVars, serverVars, runVars, phase, staged, stale,
                 before, failed, edits>>

-----------------------------------------------------------------------------
(* Mutant: the script starts every listed stack.                           *)
PrepareAll ==
  /\ phase = "sumAfter"
  /\ todo = {}
  /\ GoTo("up", all)
  /\ UNCHANGED <<projectVars, serverVars, runVars, sumVars, boundVars, staged,
                 stale, failed>>

(* The proxy network and the volume folders, then the remote script that   *)
(* starts every stack.  Without a stack there is nothing to start.         *)
Prepare ==
  /\ phase = "sumAfter"
  /\ todo = {}
  /\ GoTo("up", sel)
  /\ UNCHANGED <<projectVars, serverVars, runVars, sumVars, boundVars, staged,
                 stale, failed>>

(* The containers in the way of e: its container name, created from its own *)
(* compose file, under another project.  The script removes them.          *)
InTheWay(e) == {r \in running : /\ NameOf[r] = NameOf[e]
                                /\ ProjectOf[r] # ProjectOf[e]
                                /\ ContainerOf[r] = ContainerOf[e]}

(* docker compose up -d of e, then compose restart when a watched file     *)
(* changed.  `up` leaves an unchanged container as it is, and a watched    *)
(* file is no part of what it compares.                                    *)
Up(e) ==
  /\ phase = "up"
  /\ e \in todo
  /\ running' = (running \ InTheWay(e)) \cup {e}
  /\ \/ loaded' = [loaded EXCEPT ![e] = OnDisk(e)] /\ UNCHANGED <<blind,
                                                                  faults>>
     \/ /\ e \in running /\ ProjectOf[e] \notin restart
        /\ UNCHANGED <<loaded, blind, faults>>
     \/ \* compose restart failed; its exit code is not looked at
        /\ e \in running /\ ProjectOf[e] \in restart
        /\ Fault /\ blind' = TRUE
        /\ UNCHANGED loaded
  /\ todo' = todo \ {e}
  /\ UNCHANGED <<projectVars, runVars, remote, phase, staged, stale, before,
                 restart, failed, edits>>

(* `up` failed, a container died soon after, or the connection broke and   *)
(* no marker came back.  The script goes on with the next stack.           *)
UpFails(e) ==
  /\ phase = "up"
  /\ e \in todo
  /\ Fault
  /\ \/ running' = running \ (InTheWay(e) \cup {e}) /\ UNCHANGED loaded
     \/ running' = running \ InTheWay(e) /\ UNCHANGED loaded
     \/ /\ running' = (running \ InTheWay(e)) \cup {e}
        /\ loaded' = [loaded EXCEPT ![e] = OnDisk(e)]
  /\ todo' = todo \ {e}
  /\ failed' = TRUE
  /\ UNCHANGED <<projectVars, runVars, sumVars, remote, phase, staged, stale,
                 edits>>

(* Mutant: the markers of failed stacks are not counted.                   *)
UpsDoneAnyway ==
  /\ phase = "up"
  /\ todo = {}
  /\ GoTo("after", sel)
  /\ UNCHANGED <<projectVars, serverVars, runVars, sumVars, boundVars, staged,
                 stale, failed>>

UpsDone ==
  /\ phase = "up"
  /\ todo = {}
  /\ ~failed
  /\ GoTo("after", sel)
  /\ UNCHANGED <<projectVars, serverVars, runVars, sumVars, boundVars, staged,
                 stale, failed>>

UpsFailed ==
  /\ phase = "up"
  /\ todo = {}
  /\ failed
  /\ End("failed")
  /\ UNCHANGED <<serverVars, faults>>

(* Every stack's after hook runs, also after another one has failed.       *)
AfterHook(e) ==
  /\ phase = "after"
  /\ e \in todo
  /\ todo' = todo \ {e}
  /\ \/ UNCHANGED <<failed, faults>>
     \/ Fault /\ failed' = TRUE
  /\ UNCHANGED <<projectVars, serverVars, runVars, sumVars, phase, staged,
                 stale, edits>>

Finish ==
  /\ phase = "after"
  /\ todo = {}
  /\ End(IF failed THEN "failed" ELSE "ok")
  /\ UNCHANGED <<serverVars, faults>>

-----------------------------------------------------------------------------
(* A step that throws, a signal, or a broken connection ends the deploy    *)
(* where it is; rsync and the remote scripts, which can stop half way,     *)
(* have failing actions of their own.                                      *)
Abort ==
  /\ phase # "idle"
  /\ Fault
  /\ End("failed")
  /\ UNCHANGED serverVars

-----------------------------------------------------------------------------
(* The owner changes the project, at any time.                             *)

Edited == edits < MaxEdits /\ edits' = edits + 1

EditFile(p, c) ==
  /\ Edited
  /\ local[p] # c
  /\ local' = [local EXCEPT ![p] = c]
  /\ UNCHANGED <<deployVars, serverVars, configFound, config, faults>>

EditConfig(es) ==
  /\ Edited
  /\ config # es \/ ~configFound
  /\ config' = es /\ configFound' = TRUE
  /\ UNCHANGED <<deployVars, serverVars, local, faults>>

LoseConfig ==
  /\ Edited
  /\ configFound
  /\ config' = {} /\ configFound' = FALSE
  /\ UNCHANGED <<deployVars, serverVars, local, faults>>

(* Someone runs compose by hand in a stack's folder on the server, under   *)
(* any project name, while no deploy runs.  A container name that is taken *)
(* makes docker refuse.                                                    *)
HandRun(e) ==
  /\ Edited
  /\ phase = "idle"
  /\ remote[NameOf[e]] # None
  /\ \A r \in running : ContainerOf[r] # ContainerOf[e]
  /\ running' = running \cup {e}
  /\ loaded' = [loaded EXCEPT ![e] = OnDisk(e)]
  /\ UNCHANGED <<deployVars, projectVars, remote, faults>>

-----------------------------------------------------------------------------
Modes == {<<"full", None>>} \cup {<<"single", n>> : n \in StackNames}

(* What the deploy process does once it has been started.                  *)
DeployStep ==
  \/ ReadConfig \/ TargetGone \/ Stage \/ StageFails
  \/ BeforeHooksDone \/ Mkdir
  \/ CleanupDone \/ CleanupFailed
  \/ RootSync \/ RootSyncFails
  \/ StackSyncsDone
  \/ Prepare
  \/ UpsDone \/ UpsFailed \/ Finish
  \/ Abort
  \/ \E n \in StackNames : CleanStale(n) \/ CleanStaleFails(n)
  \/ \E e \in Entries :
       \/ BeforeHook(e) \/ ChecksumBefore(e)
       \/ StackSync(e) \/ StackSyncFails(e) \/ ChecksumAfter(e)
       \/ Up(e) \/ UpFails(e) \/ AfterHook(e)

Environment ==
  \/ \E m \in Modes : Request(m[1], m[2]) \/ Refuse(m[1], m[2])
  \/ \E p \in Paths, c \in Content : EditFile(p, c)
  \/ \E es \in SUBSET Listable : EditConfig(es)
  \/ LoseConfig
  \/ \E e \in Entries : HandRun(e)

Next == DeployStep \/ Environment

Spec == Init /\ [][Next]_vars
FairSpec == Spec /\ WF_vars(DeployStep)

-----------------------------------------------------------------------------
(* Types.                                                                  *)
TypeOK ==
  /\ configFound \in BOOLEAN
  /\ config \subseteq Listable
  /\ local \in [Paths -> Content] /\ remote \in [Paths -> Content]
  /\ staged \in [Paths -> Content]
  /\ running \subseteq Entries
  /\ loaded \in [Entries -> [Paths -> Content]]
  /\ phase \in Phases
  /\ mode \in {"full", "single"}
  /\ target \in StackNames \cup {None}
  /\ found \in BOOLEAN /\ failed \in BOOLEAN /\ blind \in BOOLEAN
  /\ all \subseteq Listable /\ sel \subseteq all /\ todo \subseteq sel
  /\ stale \subseteq StackNames
  /\ before \in [Projects -> [Paths -> Content]]
  /\ restart \subseteq Projects
  /\ wasFresh \subseteq Entries
  /\ outcome \in {"none", "ok", "failed", "serverRefused", "stackRefused"}
  /\ edits \in 0..MaxEdits /\ faults \in 0..MaxFaults

(* What a deploy leaves on the server.                                     *)

Succeeds == outcome # "ok" /\ outcome' = "ok"

(* Before any stack is started, the server holds exactly what was staged:  *)
(* the folder of every stack of this deploy and, with --delete, no server  *)
(* level file beside the staged ones.  run-deploy.ts starts stacks only    *)
(* after both kinds of rsync, and the cleanup took none of these folders.  *)
SyncedBeforeUp ==
  phase \in {"sumAfter", "up", "after"} =>
    /\ \A n \in Names(sel) : staged[n] # None /\ remote[n] = staged[n]
    /\ \A p \in ConfigFiles :
         staged[p] # None \/ (mode = "full" /\ found) => remote[p] = staged[p]

(* Two entries of config.json are apart when neither is in the other's way:*)
(* nothing in the code asks for it, and of two that are not the last one   *)
(* started stays, with both reported as deployed.                          *)
Apart(es) == \A e, f \in es : e # f => ContainerOf[e] # ContainerOf[f]

(* The after hooks run only when every stack of the deploy has come up.    *)
AllUpBeforeAfterHooks == phase = "after" /\ Apart(sel) => sel \subseteq running

(* A deploy never stops the containers of a stack config.json lists, by    *)
(* name or by deployAs alias, except while it starts that very stack or    *)
(* one that takes its container name: the cleanup works by compose         *)
(* project, and a container labelled by hand with a listed project must    *)
(* not pull the listed stack down with it.                                 *)
ListedNeverCleaned ==
  [][ \A e \in all \cap (running \ running') :
        /\ phase = "up"
        /\ \E f \in todo \ todo' : f = e \/ ~Apart({e, f}) ]_vars

(* A single-stack deploy reaches no other stack: no other folder under     *)
(* stacks/ changes, no container of another stack is touched, and no       *)
(* server level file disappears.                                           *)
SingleStaysInItsStack ==
  [][ mode = "single" =>
        /\ \A n \in StackNames \ {target} : remote'[n] = remote[n]
        /\ \A p \in ConfigFiles : remote[p] # None => remote'[p] # None
        /\ \A e \in Entries : NameOf[e] # target =>
             /\ e \in running' <=> e \in running
             /\ loaded'[e] = loaded[e] ]_vars

(* A deploy that found no config.json takes nothing away: "no config.json" *)
(* is never read as "delete everything".                                   *)
NoConfigDeletesNothing ==
  [][ phase \notin {"idle", "preflight"} /\ ~found =>
        /\ running \subseteq running'
        /\ \A p \in Paths : remote[p] # None => remote'[p] # None ]_vars

(* A full deploy that reports success has made the server what config.json *)
(* lists: every listed stack is up, and of any other stack neither folder  *)
(* nor container is left, but for what runs under a listed stack's project *)
(* and is reported instead.                                                *)
SuccessConverges ==
  [][ mode = "full" /\ found /\ Succeeds =>
        /\ Apart(all) => all \subseteq running
        /\ \A e \in running : NameOf[e] \in Names(all)
                               \/ ProjectOf[e] \in Protected(all)
        /\ \A n \in StackNames \ Names(all) :
             remote[n] # None => Skipped(n) ]_vars

(* No other entry of the deploy runs as the project of e: checksumsBefore  *)
(* keeps one snapshot for each project, the last one taken, and nothing in *)
(* the code asks the projects of two entries to differ.                    *)
OwnProject(e) == \A f \in sel : ProjectOf[f] = ProjectOf[e] => f = e

(* A stack that had loaded its watched files when a deploy began has       *)
(* loaded the new ones when that deploy reports success: it was restarted  *)
(* if one of them appeared, changed or went away.  Not claimed when the    *)
(* server could not be asked for a checksum or the restart itself failed,  *)
(* neither of which the deploy notices.                                    *)
FreshStaysFresh ==
  [][ Succeeds /\ ~blind =>
        \A e \in sel \cap wasFresh :
          OwnProject(e) => loaded[e] = OnDisk(e) ]_vars

(* stacks/authelia/README.md:79-80: a file listed for a stack in           *)
(* config.json is one "the deploy restarts the stack" for "when the file   *)
(* on the server changed".  So after a successful deploy of a stack it     *)
(* runs with the watched files the server has.                             *)
WatchedFilesLoaded ==
  [][ Succeeds /\ ~blind =>
        \A e \in sel : loaded[e] = OnDisk(e) ]_vars

(* Every deploy comes to an end.                                           *)
DeployEnds == (phase # "idle") ~> (phase = "idle")
=============================================================================
