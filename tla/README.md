# Verification of rostok

rostok is a command line tool, and a set of scripts it puts on a server, for
running a catalog of docker compose stacks on one's own machines. A project
folder on the owner's machine holds, for each server, `config.json` (the stacks
it runs) and `.env`. `rostok deploy` makes the server what that folder says; a
cron job on the server backs the stacks' data up at night.

This directory models the parts of it that change something a user cannot
easily get back, checks the models with TLC on small instances and proves the
safety properties for every instance with TLAPS.

    tlc -workers 2 -config MCDeploy.cfg MCDeploy      # any of the runs
    tlapm DeployProofs.tla                            # the proofs of a module

`PROJECT.json` lists the components, the runs, the mutants each property is
tested with (a mutant is one definition of the model changed the way a plausible
bug would change the code), the source lines behind every definition, the
hazards of the code and the theorems. Operators commented `Mutant:` exist only
for that test and are used by no action.

## 1. The system

### Components, and what makes each correct

| component | state it keeps | operations | hard behaviour | correct when | modelled |
|---|---|---|---|---|---|
| deploy orchestration (`cli/deploy/run-deploy.ts`, `cli/commands/deploy.ts`) | phase of the run, the list read from config.json, staging folder, checksums before the sync, restart list | validate, stage, before hooks, checksums, cleanup, rsync of server files and of each stack, up, after hooks | any of some fifteen remote steps fails; a deploy leaves the server half way and the next one starts from there; config.json is read more than once | stacks start from what was staged; only unlisted stacks are stopped or deleted; success means the server is what config.json lists | `Deploy` |
| stale stack cleanup (`cli/deploy/stale-stacks.ts`) | a generated shell script: two passes, a loop over folders and one over containers | `docker ps`, `docker compose down`, check, `rm -rf` | docker fails and prints nothing; labels are set by anyone; others start and stop containers meanwhile | a listed project is never stopped; a folder goes only with its containers; whatever is left is reported | `StaleStacks` |
| deploy script and results (`cli/deploy/deploy-script.ts`) | per container what docker says of it, its restart count, the suspects of the first look | checksums, remove what is in the way, up, restart, look, wait, look again, parse the markers | crash loops against slow starts; a connection that breaks in between | what it reports up is up, what it reports failed has crashed | `Deploy` (up to up), `StackCheck` (after it) |
| nightly backup (`scripts/backup/+main.ts`, `src/operations.ts`, `repo-guard.ts`, `compose-target.ts`) | per config: status, failed step, the target and services the stop found | stop, chown, probe, init, check, copy, forget, check, start with fallbacks | Watchtower and people change containers in between; every command can fail; the disk is not mounted; a crash between stop and start | what ran runs again or is reported; data is copied cold; a success has a sound copy; no unreadable repository is made | `Backup` |
| restore (`scripts/backup/restore.ts`, `src/restore.ts`) | folders unpacked, folders swapped, where old data went | stop, unpack, rename swap, rollback, chown, start, clean up | a rename fails after others; the rollback fails; Ctrl-C; the process dies | old data is never lost; all folders of a snapshot or none | `Restore` |
| project files (`cli/stack-add.ts`, `stack-remove.ts`, `env-files.ts`, `reencrypt.ts`) | `config.json`, `.env`, `.env.age`; the calls of an add that adds what it requires | add, remove | recursion over requirements with shared state; a command that dies between two files | a listed stack has its values, or its owner's word that there is none, and its requirements; `.env.age` is current or the owner knows | `ProjectFiles` |
| processes and signals (`process-registry.ts`, `exec.ts`, end of `run-deploy.ts`) | children under way, the staging folder with secrets | spawn, kill the group, list, unlink, rmdir, read again | a signal while secrets are written, by the deploy, a hook or what a hook started | no secret and no child outlives the deploy | `Staging` |
| volume folders (`cli/deploy/volumes.ts`) | folders, links and owners on the server | resolve, mkdir, resolve again, chown | cut off at any command and run again; kept owners; links out of and inside the volumes, found there or swapped in | no owner of existing data changes unasked | `Volumes` |
| offline drive (`cli/offline/`) | repositories here and on the drive, mounted or not | format, open, guard, copy, check, release | `rsync --delete` with a source that is bare or gone; the drive is pulled; the machine's copies change meanwhile | no copy is deleted unasked; a good end has a readable copy; the drive is released | `OfflineDrive` |
| upgrade (`cli/upgrade.ts`, `install.sh`) | the binary, a temporary one for each run | download, checksum, run, rename | several at once, killed anywhere, a release in between | the binary in place is always a whole one, and the one asked for | `SelfUpgrade` |
| server creation (`server-create.ts`, `server-keys.ts`) | a server's `.env` | ask, probe, default, accept, write | reruns; a server that answers in part; edits between runs | what it writes a deploy takes; a rerun changes nothing unasked | `ServerCreate` |
| environment of a deploy (`cli/deploy/env.ts`, `hooks.ts`) | what `.env.root`, `.env`, `envs` and the shell say | resolve, refuse, send to compose, give to hooks | four sources, three readers | deploy, compose and hooks agree; no stack gets another's token | `DeployEnv` |
| hooks of syncthing (`before.deploy.ts`, `after.deploy.ts`) | the service's devices, folders, shares; host folders | make folders, read, merge, put, read back | a call fails after others; the owner changes it in its own page | only what the file declares moves | `Syncthing`, `Reconcile` |
| hooks of stalwart (`before.deploy.ts`, `after.deploy.ts`, `dkim.ts`, `reports.ts`), `scripts/stalwart` | who manages which domain's keys, the DNS, the mailbox's script | preflight, take over, compare, stop; replace a script, sort mail | keys rotate by themselves; the DNS lags; each call can fail | never signs with keys the DNS does not have; no mail is moved unasked | `MailServer`, `Sieve`, `Reconcile` |
| configuration files (traefik, gatus, authelia) | the file staged, on the server, in the container | read, render, keep the time, restart | a deploy that fails between the file and the restart | the container runs on the file of the deploy | `ConfigFile` |
| Postgres upgrade (`scripts/postgres-upgrade/upgrade.sh`; checks in gitea, umami, caldiy) | three data folders, a marker | dump, stop, rename, fill, mark; check before a deploy | killed anywhere, with an app that writes | no row is lost; Postgres 18 starts complete | `PgUpgrade` |
| image pins, versions (`cli/images/`) | none | registry lookups, comparison | - | order of versions is a total order | no |
| recovery of a repository (`scripts/backup/recover.ts`) | a repository and the folder it replaces | one sequential run behind a typed answer | - | no repository lost | no |
| init, wizard, update check, catalog, listing, reporting, mail guard, other hooks, build, release and e2e tooling | none, or outside the user's data | read, print, one-off calls | - | - | no |

### How they interact

The owner edits the project folder by hand or with `stack add` and `stack
remove` (`ProjectFiles`); `deploy` reads it, possibly while it is being edited.
For `Deploy` those commands are an edit of config.json. A deploy runs its
commands on the server over ssh: the cleanup script (`StaleStacks`, one atomic
choice per stack in `Deploy`), the rsyncs and the deploy script. The backup
(`Backup`) and the restore (`Restore`) run on the server and share nothing with
a deploy but docker and the folders: there is no lock, so to each the others are
"somebody else", an environment action that may come between any two steps.
Backup and restore share the code that stops and starts a stack
(`manageContainers`).

Inside a deploy, `Staging` is the process around `Deploy`'s phases, `Volumes` and
`StackCheck` are what `Prepare` and the end of `Up` do on the server, and
`Syncthing`, `MailServer`, `ConfigFile` and the check of `PgUpgrade` are hooks,
one step of `Deploy` each. `ServerCreate` writes the `.env` that `DeployEnv`
reads; the two share their variables and are explored together.
`OfflineDrive` copies the repositories `Backup` makes, and sees the nightly run
as a change of the local folder. `SelfUpgrade` touches nothing of the others.

## 2. The models

In every module the state is what survives between two steps of the real code
(files on the server or in the project, docker's containers, the process's own
variables), and one action is one command, one remote call or one rename: the
points where the process can fail, die or be overtaken. Loops take their
elements in any order where the order does not matter to the result. Contents
are versions, generations or model values. A variable under "history" in a
module is only read by properties.

### Deploy

`Request` and `Refuse` are `deployCommand` with its validation; then one action
for each part of `runDeploy` in the order of the code (`phase`): `ReadConfig`,
`Stage`, `BeforeHook`, `ChecksumBefore`, `Mkdir`, `CleanStale`, `RootSync`,
`StackSync`, `ChecksumAfter`, `Prepare`, `Up`, `AfterHook`, `Finish`, each with
the ways it fails. `Abort` is any step that throws, and a signal. An entry of
config.json is an instance of a stack, with the project it runs as (`deployAs`),
the container name it takes and the files it watches. The environment edits
files and config.json, loses config.json, and starts a stack by hand.

*`deploy`* (952,656 states). Two stacks, one under an alias somebody also uses
by hand, one server file, two versions, full and single deploys in any sequence,
two edits and one fault. Two stacks suffice for "the other one"; the alias and
the hand-run container are what the cleanup could confuse; two edits give a
change and its reversal between the steps of a deploy; the one fault can be at
any step, and the deploys after it start from what it left. Faults in two
deploys of one history are not explored by TLC; the theorems, which bound
nothing, cover them for all the safety properties.
It shows:
  - `SyncedBeforeUp`, `AllUpBeforeAfterHooks`: the order of sync, up and hooks;
  - `ListedNeverCleaned`, `SingleStaysInItsStack`, `NoConfigDeletesNothing`: what
    a deploy may not touch;
  - `SuccessConverges`: a full deploy that succeeds has made the server what
    config.json lists;
  - `FreshStaysFresh`: a stack that was up to date with its watched files is so
    after a successful deploy, if the server could be asked and no other entry
    runs as its project;
  - `DeployEnds`: a deploy that began ends.

*`deploy_watched`* is a violation; see Findings.

### StaleStacks

The generated script: `Enter` (is `stacks/` a real directory), `LookAt` (the next
folder or the next container's stack), then `List`, `SkipRow`, `Down`, `Check`,
`KeepFolder` or `Remove` of `stop_and_remove`, `Scan` between the two passes, and
`Exit`. `...Fails` actions are the commands that return an error. `HandUp`,
`HandDown` and `HandFolder` are others on the server.

*`stale_stacks`* (1.6 million states) starts from every server two unlisted
stacks can leave: folder present, absent or not a folder, any set of six
containers (one planted under a listed alias, one that lacks labels, one with a
project name compose would read differently). One failure and one change by
others. `NothingLeftUnsaid`, `ProtectedStay`, `NoFolderFromUnderAContainer`,
`OncePerStack`, `ScriptEnds`. Two unlisted stacks show that one's failure hides
no other; names others have worked on meanwhile (`touched`) are excluded where
the script cannot know.

### Backup

One action per command of the workflow, with the result it writes (`Marked`).
`Find` and its refusals are `parseComposeTargets` and `findRunningTarget` over
the labels of the running containers; `ComposeStart`, `Recheck`, `RecheckAgain`
and `Up` are the start with its fallbacks. `Crash` is a kill of the process.
`Removed`, `Stopped`, `Started`, `DiskChanged` are Watchtower, people and the
backup disk.

*`backup`* (1.6 million states): a compose stack with three containers of its
own, one from another root and one that only looks like it, and a list of two;
one failure, one change by others. `SuccessIsCopied`, `BackUpOrReported`,
`CopiedCold`, `StoppedStaysStopped`, `OrphanLeftAlone`, `RunEnds`. `MCInit`
leaves out combinations of two oddities at once (at most one of the containers
that make the stack hard to tell runs). Deadlock is not checked here and in
StaleStacks: the process ends.

### Restore

`Begin` is the confirmed restore; `Stop`, `Unpack`, the swap of `applyRestore` as
two renames for each folder (`Keep`, `PutIn`), its rollback as two more
(`TakeOut`, `PutBack`, `UndoFails`), `Chown`, `Start`, `End` (the finally block).
Every rename can fail and the process can die between any two. What a folder
holds is told by its generation: 0 the first data, r what the r-th restore
unpacked. A service is taken to have containers its config stops; its folders
are taken to be apart.

*`restore`* (53,213 states): two folders, either of which may be missing, two
restores in a row, three failures or crashes, one start of the containers by
somebody else. Three failures are a swap that fails, a rollback that fails and
one more; two restores show that the second cannot overwrite what the first
kept. `NothingLost`, `AllOrAsItWas`, `SwappedCold`, `EndsAsReported`.
*`restore_half`* is a violation.

### ProjectFiles

`Add` is `rostok stack add`, with the recursion of `stackAdd` as a stack of calls:
`Enter` reads what is missing, `AddRequired` and `Decline` handle one of it,
`WriteEnv`, `WriteConfig` and `Encrypt` write, `Returned` goes back to the caller.
`Remove` asks everything first, then `RemoveConfig`, `RemoveEnv`, `Encrypt`.
`Die` ends a command before any step; a write of config.json, which is not
atomic, may leave no JSON (`torn`). A key of `.env` is absent, blank (`KEY=`) or
set. `Becomes` is what an add makes of it: a `--var` wins over what is there, one
without a text too (`blanks`); a key with a text stays; one that is blank or
absent gets its default or an answer, which may be blank for a key that is asked
for; an optional one may stay away; a default of an image tag is dropped when
its version cannot be told. `stack add` declares by the catalog's `+meta.ts`
(`CatalogMeta`), `stack remove` and the deploy by the project's own where there
is one (`MetaOf`).

*`project_files`* (1,400,750 states): six stacks, of which one requires another,
two form a ring, one is the project's own, one has a `+meta.ts` of the project
over the catalog's, with a key more, one has a reserved prefix; a key two stacks share
that one of them does not need, a tag, a key that is asked for, one of the
server's; one blank `--var` a command. Beside that bound the state space is
finite: every sequence of commands is checked. `ListedHaveValues` asks for a
text, or for the owner's word that there is none (`blanked`).
`RequirementsListed`, `NoEndlessChain`, `EncryptedOrTold`.
*`project_files_ring`* is a violation.

### The parts

The remaining modules are parts that share no variable with one another. Each has
an `Init`, a `Next` and properties of its own; `MCParts` gives them their
constants and puts them side by side in one run: a behaviour is that of one
part, and the others stay as they begin. No interleaving is lost by this, for
what does interact is inside one module (or two that share their state:
`DeployEnv` extends `ServerCreate`). A property of the run gathers what the parts
of one concern promise; its parts keep their names and comments in their
modules.

*`parts`* (1,012,204 states, about three minutes). Deadlock is not checked: every
part's runs are bounded and come to an end.

*Staging.* One action per system call that touches the staging folder or a
process: `MakeFolder`, `Install` (of the listeners), the writes of the deploy,
which a worker thread finishes later (`OpLands`), `StartHook`, `StartTransfer`,
the writes of a hook and of a helper the hook has started; and the handler's
`SIGTERM`, `SIGKILL`, listing, unlinks and `RmDir`, with its retries. A signal
comes at any point; with and without `setsid`. `DeployLeavesNothing`: at the end
no secret is left and, where groups can be signalled, no process;
the warning is for processes that could not be reached; and a signal ends
the deploy. Three files of a hook are one more than the attempts need.

*StackCheck.* Up, the counts, the wait, `Look`, the second wait, the second look
and `parseDeployResults`, over three containers of two stacks that crash, are
restarted and are made anew at any time. `ResultsTellLoops`: a container that
crashed twice, or once before each look, is never in a success; a failure has a
container that crashed after up; one result each, or the connection broke. Two
crashes are what the two looks have to tell apart, one remake resets a count.

*Volumes.* `Found` is any server the paths can be found on (missing, folder, file,
link out of the volumes or to a place inside them, by any owner) and any role
the stacks give a place; then the preflight, the refusals and the script,
command by command, cut off anywhere and deployed again. Where a path ends with
its links followed is `leads`; a script acts on that (`real`). `SwapIn` puts a
link in the place of something between two deploys, or between the mkdir of a
folder and the second look at its path, which is what that look is for; between
the look and the chown nothing in the code looks, and no action moves. What
`FoldersInRightHands` leaves out is named in the module: an owned folder whose
script broke between mkdir and chown (`torn`: it exists from then on and no later
deploy looks at its owner); a volume whose place got a link during the deploy
(`swapped`); and what a link has made another volume's (`strays`), since the
refusal of volumes around kept folders compares names only. A folder, one inside
it and one beside them give every overlap and a link to each; two volumes
(`MaxVolumes`) meet in every way, one link is put in (`MaxSwaps`), two deploys.
In the run only plain volumes may be found in PUID's hands (`VolumesGoes`).

*ServerCreate, DeployEnv.* A run of `server create` asks, probes, decides on a
default and writes, from flags, typed answers, an earlier `.env` and a server
that answers as root, in part or not; the owner edits between and during runs;
then a deploy resolves, refuses or takes it, compose and two hooks read it.
`ServerEnvSound`: what was written is taken; a rerun keeps what it was not told
to change; root only when asked; hooks act where and as the deploy does and get
no token of another stack; what is taken is not nested, and the key a stack
needs reaches compose with a text. `applyStackEnvs` fills the references of
`envs`, compose those of the files, each from what it has read before
(`Composed`); the required-key check looks at the text as written, so a token
that refers to a blank key is taken and read as nothing (`hollow`, excluded by
name). A file is taken to have a key before the values that refer to it. The
bounds are lists of values (`MCVars`, `MCReplies`, `MCEdits`...), each there for
one branch of the code.

*Reconcile* is the abstract specification of a hook: its steps move settings it
was asked for to values it was asked for and nothing else, and it ends well only
when all of them are there; it may fail anywhere. `HooksKeepPromise` checks that
`Syncthing` (every device, folder, undeclared field and share), `MailServer`
(who manages each domain) and the sorting in `Sieve` (where each message is)
implement it, under refinement mappings stated in those modules
(`SyncKeepsPromise`, `MailKeepsPromise`, `SortsAsAsked`). Nothing is promised
of a run in which somebody else changes the service too (`meddled`,
`ownerActed`); the environment does.
A setting of Syncthing is a device, the rest of a device, a folder, the rest of
a folder or a share, so that a field the file does not name is told from one it
does. Of three messages two rules match one, one is a bounce and matches a
rule too, and nothing matches the last. `SortsAsAsked` says which messages move
and where to, not where from: the searches name no folder, and a message that a
rule matches goes also from where its owner has filed it. The header of the
script says otherwise; *`sieve_filed`* is that violation (see Findings). The server
may refuse to move or delete any of them in an answer the script does not read:
such a run reports well and has kept no promise (`missed`). A search
returns a hundred messages, and a mailbox is taken to have no more of one kind.
`--skip-move` alone skips nothing, as in the code.
`HooksKeepPromise` also says that containers start only when the folders of
their mounts exist, and that a
redirect never takes the place of the owner's own script. Syncthing has a file
whose own entry has an old id, one with a mount in a mount, one where the peer
has the server's id, and one that is not valid.

*MailServer* further: Stalwart rotates the keys of a domain it manages at any
moment and the DNS follows when somebody sees to it. A call that sets domains to
manual may set only some, refuse the rest, or get no answer. `verdict` is why a
run fails: a hook before compose up, the keys (every `DkimInvariantError`, at
whichever of the calls), anything else, or a `docker stop` that failed
(`unstopped`). *ConfigFile*: time in half
seconds, since the code compares whole ones; three deploys, of which any may
fail between the file and the restart. `ServicesAsConfigured`: after a deploy
that ended well the container has loaded that deploy's file (Authelia: unless
Docker has restarted it, see below), a service for which nothing changed was not
restarted, mail is signed with the keys the DNS has; and a server whose keys are
seen to be wrong, or any failure after compose up on an initial deploy, ends with
the container stopped, unless stopping it failed as well (twice on an initial
deploy whose checks failed). Nothing is promised of a failure before compose up,
nor of one that is none of the keys on a later deploy: the server then runs on.

*PgUpgrade, OfflineDrive, SelfUpgrade.* Commands that replace data, each failing or
killed at any step. `DataKept`: every row is in one of the folders, Postgres 18
does not start short of rows, both but for what `cut` names: the script is
killed, or a deploy checked, while the old data is out of sight and no marker
says so (136-142), a signal between the marker's removal and `done_ok` (171-172),
and an old version started with a new folder because its data could not be
moved back. The apps write on after such a cut too. A repository leaves the
drive only when the owner allowed it or it was local when the backup compared; a
backup that ends well has a readable repository and none its check failed on,
and the drive is as mounted as before or the command says so; the binary is
always a whole one and an upgrade puts the version there it was asked for, tried
out first. Two repositories, three runs, two upgrades beside an install and a
broken release are the least with each of these in the way of another.

*`syncthing_api`* is a violation; see Findings.

### Fairness

`FairSpec` (and `MCSpec`) assume weak fairness of the process's own steps taken
together: a command that has been started goes on to its next step, or fails.
This is what an operating system gives a running process; commands that hang are
not modelled, and where the code sets a timeout its expiry is one of the
failures. Nothing is assumed of the owner, of others on the server, or of which
branch a step takes. Safety runs that need no fairness use `Spec`. `StagingFair`
is weaker and of single actions: the event loop runs a handler whose signal has
come, system calls that were made return, and a process that was forked gets to
call setsid. The hook and its helper may write for ever; `SignalEndsDeploy`
does not need them to stop.

## 3. Proofs

The theorems hold for every value of the constants: any stacks, entries,
aliases, watch lists, folders, catalogs, graphs of requirements, labels of
containers, configs of a backup, trees of volume folders, files of a hook, and
any number of faults, edits, crashes and changes by others. They rest only on
the named assumptions below, which TLC evaluates for the instances it runs.
Every safety invariant and every action property of the passing runs is the
statement of a theorem, and so are the three refinements of `Reconcile`.

| assumption | of | what it says of the parameters |
|---|---|---|
| `DeployAssumption`, `RestoreAssumption`, `ProjectFilesAssumption`, `StaleStacksAssumption`, `BackupAssumption` | the module of that name | their types; the "nothing" value is none of them; in StaleStacks, that names rostok refuses are not listed and a project name compose reads differently is nobody's |
| `OrderIsSeq`, `ProjectOfType`, `CheckBounds` | StackCheck | the deploy has a stack, no stack twice, and a container belongs to one of them |
| `AboveType`, `VolumesBound` | Volumes | no place is above itself, and of the places above a place, one is above the other: a path has one line of ancestors |
| `OdBounds`, `SelfUpgradeConstants`, `PgBounds`, `CfBounds`, `SieveBound` | the module | bounds are numbers; an upgrade has a row to lose and a release to find |
| `MatchedByType`, `MailConstants` | Sieve, MailServer | rules are the script's; the primary domain is one of the domains |
| `Literals`, `ServerConstants`, `TokenKeys`, `DeployConstants` | ServerCreate, DeployEnv | what is answered, typed, edited and exported are values of keys; the keys the model names are keys |
| `SyncConstants` | Syncthing | ids, folders and paths of a file that is valid are in the sets of the instance; nobody is called "gui" |

*DeployProofs.* `SyncedBeforeUp` and the rest are not inductive: that a stack's
folder is as staged when it starts depends on which phases have run and on what
the cleanup spared. `IInv` says, for each phase, what has been established:
`Scope` (what was selected, from which list, with which target), `InSync` (which
paths already equal the staging folder), `UpSoFar` (which entries are up),
`Cleaned` (which unlisted stacks are gone). `InvariantHolds` proves it; from it
`SyncedFirst`, `UpFirst`, `NeverCleaned`, `SingleStays`, `NothingDeleted` and
`Converges` follow, the last four as action properties by the same invariant.
`StaysFresh` has an invariant of its own, `FreshSoFar`: of a stack that was up to
date, nothing moves until its checksums are taken, these are what it has loaded
(`Remembered`), and after the second ones it has loaded what the server has or
is in `restart`. The proof found what the instance does not have: two entries
with one `deployAs` share a snapshot, so the property is claimed of an entry that
has its project to itself (`OwnProject`); nothing in the code asks for that.

*RestoreProofs.* `IInv` says for each folder where it stands: not begun, its old
data away, the restored one in (`Swapping`), and in the rollback the same or
back or stuck (`Undoing`). A folder is renamed over another only in the state
"old data away", so nothing can be lost (`NoDataLost`); when the containers are
started the folders are all in, or all back but for the stuck (`AllOrNothing`).
`ColdSwap` and `ReportsTrue` come from what the invariant says of the containers.

*ProjectFilesProofs.* `RequirementsListed` speaks of stacks that are listed; that
it survives a `WriteConfig` needs what every add under way knows of its
requirements (`Accounted`): each is listed, declined, still to be asked about or
being added by the next call. `Chain` makes the calls' names differ, so that
`Enter` forgets no one's excuse. `Ready` says what `WriteConfig` and `RemoveEnv`
rely on: a value, or its owner's word, for every key of the stack to be listed,
and none of those to be dropped is another's. `ProjectInvariant` proves it, and with it
`ValuesStay`, `RequirementsStay`, `ChainsEnd` and `AgeTold`.

*StaleStacksProofs.* That a stack's folder goes only when no container of it is
up rests on what the script has looked at: `RowsCover` says that each container
of the stack in hand has its row still to come, is about to be seen by the check,
or has made the script keep the folder. `Accounted` says of every stack neither
reported nor changed by others (`Quiet`) that it has its turn still to come or is
gone, which pass by pass is weaker than the property and strong enough for the
end; `HadItsTurn` why the second pass meets no stack of the first. From
`CleanupInvariant`: `NothingUnsaid`, `ProtectedStand`, `FolderLast`, `HandledOnce`.

*BackupProofs.* The promise of the nightly run is about the end of a workflow,
and what it needs is what the stop remembered: `Remembered` (the target is the
one origin of all that ran, or the list has named it), `Down` (what runs
meanwhile others have started), `ListGoesOn` (each container of a list has its
try), `ChainDone` (no failure marked means every command so far was done) and
`GuardHolds` (the repository is as it was found). `BackupInvariant` gives
`SuccessMeansCopied`, `NothingStaysDown`, `NothingCopiedLive`, `StoppedStacksStay`
and `OrphansStay`.

*CommandProofs* are the proofs for the deploy's own parts and the commands, each
with an invariant at the head of the module. `ResultsTell` (StackCheck): a count
that is known is the crashes since up, so the two looks see two of them.
`DeployCleansUp` (Staging): what a removal attempt has not listed is written later
by somebody still alive, and nobody is after a group is killed (`Quiet`,
`LateOnce`, `EmptyBehind`). `FoldersKeepTheirOwners` (Volumes): a folder the
script has made and not yet given away is the one it works on (`MadeAreOwned`),
what is behind it in the loop has its owner (`FoldersBehind`), and a link that is
put in takes what is in that place out of all of this.
`DriveKeepsCopies` (OfflineDrive): what is still to be copied over was local when
the two sides were compared (`ComparedFirst`). `BinaryStaysWhole` (SelfUpgrade):
what each run holds is of one release (`InHand`), whatever the others rename.
`ServerFilesSound` (ServerCreate, DeployEnv): what nobody has edited is what the
run has read (`RunInHand`), and what a deploy takes is what its hooks get
(`TakenInv`); that a token whose key has a text is read with one follows the
reference through both files.

*StackProofs* are those for the hooks and scripts of stacks. `RowsOutliveUpgrade`
(PgUpgrade): the rows are in the folder the step implies, no folder has more than
were written (`RowsCounted`), and the dump has all of them from the moment the
apps are down. `MailSignsRight`: what has been compared
is no longer Stalwart's to rotate (`ComparedHold`). `ServesWhatWasDeployed`
(ConfigFile): by the times of file and container, compared in whole seconds, a
container that is kept has read the file (`ContainerKnows`, `SettledStays`).
`ScriptIsRight`, `FoldersBeforeMounts`. Then the step simulations:
`MailHooksReconcile`, `SievePromise` and `SyncHooksReconcile` show that the start
of the module is one of `Reconcile` and that every step is a step of it or leaves
what it sees alone. For Syncthing this needs that what a run has read is still
there while nobody else writes (`SeenIsThere`), since a device or folder is put
back whole.

*PartsProofs.* A behaviour of `MCParts` is one part's, and stutters in the state
of every other: `PartsStart` and `PartsGo` say so, and with them each theorem
about a part is one about the run. So `LoopsAreTold`, `FoldersInHand`,
`NoDataLost`, `ServicesInOrder`, `ServerFilesAgree`, `HooksPromise` and `PartsTypes`
state the properties of the run *`parts`* themselves; `DeployLeaves` states the
safety in `DeployLeavesNothing`.

Only model-checked: liveness, which rests on fairness and ENABLED and is out of
the prover's reach: `DeployEnds`, `ScriptEnds`, `RunEnds`, and `SignalEndsDeploy`
in `DeployLeavesNothing`. The findings are runs, not theorems.

## 4. Findings

Each is a run in which TLC shows the code doing other than a text of the
repository says.

  - `deploy_watched`: a watched file that reaches the server with another
    stack's single deploy is equal before and after its own stack's next deploy,
    which does not restart it (`run-deploy.ts:607`; `stacks/authelia/README.md`).
  - `backup_lookalike`: a container that only looks like the stack's is refused
    when it is alone, and left running during the copy when the stack itself
    runs beside it (`operations.ts:268`).
  - `restore_half`: when the rollback of a swap fails too, the containers are
    started on one folder of the snapshot and one of the old data
    (`restore.ts:123`).
  - `project_files_ring`: two stacks of which one requires the other, both
    required by a third, are refused as a cycle (`stack-add.ts:171`).
  - `syncthing_api`: the loop that waits up to a minute for Syncthing's API
    leaves after one try, since it looks for an exception where it gets an exit
    code; the deploy fails at the next call (`after.deploy.ts:527`).
  - `sieve_filed`: the sorting of mail, by its header from INBOX, searches every
    folder, and moves what its owner has filed elsewhere
    (`apply-sieve-filters.ts:321`).

Met while modelling; a property that such a case would break excludes it by name:

  - A config.json with an empty list is refused (`Valid` in Deploy;
    `commands/deploy.ts:77-84`) before the cleanup that
    `docs/usage/architecture.md:180-181` promises for it.
  - `stack add` asks for what the catalog's `+meta.ts` declares; a key that only
    the project's own one declares, which the deploy and `stack remove` read, it
    does not see. `--var KEY=` and a blank answer leave a key a stack needs blank,
    also over a value, though blank counts as missing at the next add
    (`Asked`, `blanked` in ProjectFiles; `stack-add.ts:214-218`, 272-278, 311-336).
  - The refusal of a volume around a kept folder compares names: through a link
    inside VOLUMES_PATH `chown -R` reaches a kept folder (`strays` in Volumes;
    `volumes.ts:346-367`). A user that is not root leaves a plain volume that a
    link above it leads out of VOLUMES_PATH, if its owner fits
    (`volumes.ts:488-491`). Between the second look and the chown a link may
    still come.

  - Two entries of config.json may run as one project (`deployAs`): they share one
    snapshot of checksums, and a watched file of the first that goes away
    restarts nothing (`OwnProject` in Deploy; `run-deploy.ts:497`).
  - The sorting of mail reads no answer to its moves: refused ones end in a run
    that reports well (`missed` in Sieve; `apply-sieve-filters.ts:372`).
  - A key a stack needs can reach compose blank: `assertRequiredStackKeys` takes the
    last stack's `envs` and any value of the files, `applyStackEnvs` sends the first,
    and an `envs` that sets nothing wins over `.env.root` (`Contested` in
    DeployEnv). The check tests a reference as text: one to a blank key passes
    (`hollow`; `env.ts:442-444`).
  - A hook gets VOLUMES_PATH and other keys as written, references unexpanded;
    compose expands them.
  - `server create` does not look whether its paths are inside each other or its
    user is that of the address; the deploy refuses both later. What the owner
    writes into `.env` while it asks is lost.
  - `upgrade.sh` killed between the rename (136) and the marker (142) leaves no
    marker (`cut` in PgUpgrade), where its header (10-12) says it would; the app's
    rows are then in the kept folder alone, or, if docker starts the old version
    on an empty one, in two. A signal between the marker's removal and `done_ok`
    (171-172) undoes a move that is over, without the marker.
  - `docker stop` may fail when Stalwart's keys are wrong: the hook says so, and
    the server runs on (`unstopped` in MailServer).
  - When Docker has started Authelia again since compose made the container,
    it may have loaded a newer file than its label says, and stay (`again` in
    ConfigFile).
  - `offline restore` copies what is on the drive, from a copy that was cut off too,
    and checks the repositories only after the local ones have been replaced.

## 5. Not modelled, and why

  - Wording, colours, tables, logs: no property is about them.
  - Contents of files beyond "which version": the line format of `.env`, YAML
    and quoting are data conversions, tested as such in the repository.
  - Two deploys of one server at the same time, or two commands on one project:
    nothing in the code prevents either or promises anything of them.
  - Folders of one service inside each other in a restore.
  - The clocks of two machines that differ (ConfigFile): the code compares times
    of the server only, but rsync's of both.
  - `init` and the wizard put commands in a row that are modelled by themselves;
    the update check prints; `catalog`, `list`, `env`, `llms`, reporting and the
    shipped stacks read and print.
  - `images`: a rewrite of one file the owner confirms. Its order of versions is a
    pure function.
  - `recover.ts`: one sequential run behind a typed answer.
  - The hooks of open-webui, the database helpers of caldiy and woodpecker: one
    call or one statement each, with no state to keep. The email guard: a
    predicate on one request.
  - e2e, release and hooks installation are for developers.

## 6. Plan

 1. `Deploy` does the cleanup in one choice for each stack, `StaleStacks` command by
    command: a refinement from the second to the first, with the commands of
    others as its environment.
 2. Invariants under the liveness properties: that a deploy, a cleanup and a
    nightly run get nearer to their end with every step of their own is a
    safety property, if a measure is stated.
 3. Two commands at once as an environment of `Deploy` and `ProjectFiles`, if the
    code gets a lock to state a property about.
