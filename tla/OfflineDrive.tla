---------------------------- MODULE OfflineDrive ----------------------------
(***************************************************************************)
(* rostok offline: the restic repositories of this machine copied to an    *)
(* external drive, checked there, and copied back (cli/offline). Copies    *)
(* are rsync --delete, one repository at a time here; the nightly backup   *)
(* and Syncthing go on changing the local folder. A repository without its *)
(* config file is "bare": restic check skips it, and fails on a "broken"   *)
(* one.                                                                    *)
(***************************************************************************)
EXTENDS Naturals, FiniteSets

CONSTANTS
  Repos,        \* names of repositories
  MaxOdRuns,    \* bound: commands
  MaxLocal      \* bound: changes of local repositories

ASSUME OdBounds == MaxOdRuns \in Nat /\ MaxLocal \in Nat

VARIABLES
  odAt,      \* where the command is
  mode,      \* the command: backup, verify, restore or format
  local,     \* repository -> its state on this machine
  drive,     \* repository -> its state on the drive
  ready,     \* the drive has the partition labelled OfflineBackups
  mountedAt, \* the partition is mounted
  before,    \* it was mounted before the command
  known,     \* local repositories when the command compared them
  allowed,   \* the owner allowed the copy to delete
  checking,  \* restic check was asked for
  todoRepos, \* repositories the copy, or the check, still has to do
  tally,     \* repositories whose check passed, and those that failed
  stuck,     \* the partition could not be unmounted
  odRuns, localChanges

odVars == <<odAt, mode, local, drive, ready, mountedAt, before, known, allowed,
            checking, todoRepos, tally, stuck, odRuns, localChanges>>
askVars == <<mode, before, allowed, checking, odRuns>>
diskVars == <<local, drive, ready>>
mountVars == <<mountedAt, stuck>>

RepoStates == {"none", "bare", "broken", "whole"}
Held(folder) == {r \in Repos : folder[r] # "none"}
NoTally == [passed |-> {}, failed |-> {}]

OdTypeOK ==
  /\ odAt \in {"idle", "open", "mount", "guard", "copy", "check", "erase",
               "label", "end", "release", "ok", "failed"}
  /\ mode \in {"backup", "verify", "restore", "format"}
  /\ local \in [Repos -> RepoStates] /\ drive \in [Repos -> RepoStates]
  /\ known \subseteq Repos /\ todoRepos \subseteq Repos
  /\ tally.passed \subseteq Repos /\ tally.failed \subseteq Repos
  /\ \A b \in {ready, mountedAt, before, allowed, checking, stuck} :
       b \in BOOLEAN
  /\ odRuns \in 0..MaxOdRuns /\ localChanges \in 0..MaxLocal

OdInit ==
  /\ odAt = "idle" /\ mode = "verify" /\ ready = FALSE /\ mountedAt = FALSE
  /\ local = [r \in Repos |-> "whole"] /\ drive = [r \in Repos |-> "none"]
  /\ before = FALSE /\ known = {} /\ allowed = FALSE /\ checking = TRUE
  /\ todoRepos = {} /\ tally = NoTally /\ stuck = FALSE
  /\ odRuns = 0 /\ localChanges = 0

-----------------------------------------------------------------------------
(* The command and what it may do: --delete-missing or a yes for a backup, *)
(* --overwrite-local or the disk's name typed for a restore.               *)
OdStart ==
  /\ odAt \in {"idle", "ok", "failed"} /\ odRuns < MaxOdRuns
  /\ odRuns' = odRuns + 1
  /\ mode' \in {"backup", "verify", "restore", "format"}
  /\ allowed' \in BOOLEAN /\ checking' \in BOOLEAN
  /\ mode' # "backup" => checking'
  /\ mountedAt' \in IF ready THEN BOOLEAN ELSE {FALSE}
  /\ before' = mountedAt' /\ stuck' = FALSE
  /\ known' = {} /\ todoRepos' = {} /\ tally' = NoTally /\ odAt' = "open"
  /\ UNCHANGED <<diskVars, localChanges>>

(* A drive without the label is refused, and format refuses a mounted one. *)
(* A missing tool or setting, sudo, or a mount that fails ends any command.*)
OpenBackupDrive ==
  /\ odAt = "open" /\ mode # "format" /\ ready
  /\ mode = "restore" => allowed
  /\ odAt' = "guard" /\ mountedAt' = TRUE
  /\ UNCHANGED <<askVars, diskVars, known, todoRepos, tally, stuck,
                 localChanges>>
ConfirmErase ==
  /\ odAt = "open" /\ mode = "format" /\ ~mountedAt /\ allowed
  /\ odAt' = "erase"
  /\ UNCHANGED <<askVars, diskVars, mountVars, known, todoRepos, tally,
                 localChanges>>
OdRefused ==
  /\ odAt = "open" /\ odAt' = "failed"
  /\ UNCHANGED <<askVars, diskVars, mountVars, known, todoRepos, tally,
                 localChanges>>

(* parted, then mkfs: in between the drive has no labelled partition.      *)
MakeTable ==
  /\ odAt = "erase" /\ odAt' = "label"
  /\ ready' = FALSE /\ drive' = [r \in Repos |-> "none"]
  /\ UNCHANGED <<askVars, local, mountVars, known, todoRepos, tally,
                 localChanges>>
MakeFilesystem ==
  /\ odAt = "label" /\ odAt' = "ok" /\ ready' = TRUE
  /\ UNCHANGED <<askVars, local, drive, mountVars, known, todoRepos, tally,
                 localChanges>>

(* Mutant: only repositories that can be read are worth a question.        *)
DriveOnlyWhole == {r \in Repos : drive[r] = "whole"} \ Held(local)

(* findDriveOnlyRepos and confirmDeleteMissing: what is on the drive but   *)
(* not local needs the owner's word.                                       *)
DriveOnly == Held(drive) \ Held(local)
GuardBackup ==
  /\ odAt = "guard" /\ mode = "backup" /\ known' = Held(local)
  /\ IF DriveOnly = {} \/ allowed
     THEN odAt' = "copy" /\ todoRepos' = Repos
     ELSE odAt' = "release" /\ todoRepos' = {}
  /\ UNCHANGED <<askVars, diskVars, mountVars, tally, localChanges>>

(* verify and restore want a target folder on the drive; a backup that did *)
(* not copy anything has made it.                                          *)
TargetsOnDrive ==
  /\ odAt = "guard" /\ mode \in {"verify", "restore"}
  /\ \/ /\ odAt' = IF mode = "restore" THEN "copy" ELSE "check"
        /\ todoRepos' = IF mode = "restore" THEN Repos ELSE Held(drive)
     \/ Held(drive) = {} /\ odAt' = "release" /\ UNCHANGED todoRepos
  /\ UNCHANGED <<askVars, diskVars, mountVars, known, tally, localChanges>>

(* rsync --delete, a repository at a time.                                 *)
CopyRepo ==
  /\ odAt = "copy"
  /\ \E r \in todoRepos :
       /\ todoRepos' = todoRepos \ {r}
       /\ IF mode = "backup"
          THEN drive' = [drive EXCEPT ![r] = local[r]] /\ UNCHANGED local
          ELSE local' = [local EXCEPT ![r] = drive[r]] /\ UNCHANGED drive
  /\ UNCHANGED <<odAt, askVars, ready, mountVars, known, tally, localChanges>>
Copied ==
  /\ odAt = "copy" /\ todoRepos = {}
  /\ odAt' = IF checking THEN "check" ELSE "end"
  /\ todoRepos' = IF ~checking THEN {}
                  ELSE Held(IF mode = "restore" THEN local ELSE drive)
  /\ UNCHANGED <<askVars, diskVars, mountVars, known, tally, localChanges>>

(* verifyRepos goes on after a failed check.                               *)
CheckRepo ==
  /\ odAt = "check"
  /\ \E r \in todoRepos :
       LET state == (IF mode = "restore" THEN local ELSE drive)[r] IN
       /\ todoRepos' = todoRepos \ {r}
       /\ tally' = [passed |-> tally.passed \cup
                                 {q \in {r} : state = "whole"},
                    failed |-> tally.failed \cup
                                 {q \in {r} : state = "broken"}]
  /\ UNCHANGED <<odAt, askVars, diskVars, mountVars, known, localChanges>>
Checked ==
  /\ odAt = "check" /\ todoRepos = {} /\ odAt' = "end"
  /\ UNCHANGED <<askVars, diskVars, mountVars, known, todoRepos, tally,
                 localChanges>>

(* classifyBackupOutcome and exitCodeFor.                                  *)
Succeeded == tally.failed = {} /\ (checking => tally.passed # {})

(* release: a partition mounted before the command stays mounted.          *)
Released(failed) ==
  /\ odAt' = IF failed THEN "failed" ELSE "ok"
  /\ IF before THEN UNCHANGED mountVars
     ELSE \/ mountedAt' = FALSE /\ UNCHANGED stuck
          \/ stuck' = TRUE /\ UNCHANGED mountedAt
  /\ UNCHANGED <<askVars, diskVars, known, todoRepos, tally, localChanges>>
Release == \/ odAt = "end" /\ Released(~Succeeded)
           \/ odAt = "release" /\ Released(TRUE)

(* rsync, a size or the log cannot be written; or rsync is cut in a        *)
(* repository, which it leaves in any state but whole.                     *)
OdFails ==
  /\ odAt \in {"guard", "copy", "check"}
  /\ odAt' = "release"
  /\ \/ UNCHANGED <<local, drive>>
     \/ \E r \in todoRepos, s \in {"bare", "broken"} :
          /\ odAt = "copy"
          /\ IF mode = "backup"
             THEN local[r] # "none" /\ drive' = [drive EXCEPT ![r] = s]
                  /\ UNCHANGED local
             ELSE drive[r] # "none" /\ local' = [local EXCEPT ![r] = s]
                  /\ UNCHANGED drive
  /\ UNCHANGED <<askVars, ready, mountVars, known, todoRepos, tally,
                 localChanges>>

(* The machine's own backups, Syncthing, or an unmounted folder.           *)
LocalChanges ==
  /\ localChanges < MaxLocal /\ localChanges' = localChanges + 1
  /\ \E r \in Repos, s \in RepoStates : local' = [local EXCEPT ![r] = s]
  /\ UNCHANGED <<odAt, askVars, drive, ready, mountVars, known, todoRepos,
                 tally>>

OdNext ==
  \/ OdStart \/ OpenBackupDrive \/ ConfirmErase \/ OdRefused \/ MakeTable
  \/ MakeFilesystem \/ GuardBackup \/ TargetsOnDrive \/ CopyRepo \/ Copied
  \/ CheckRepo \/ Checked \/ Release \/ OdFails \/ LocalChanges

-----------------------------------------------------------------------------
Vanished == Held(drive) \ Held(drive')

(* A repository disappears from the drive only when the owner allowed it,  *)
(* or when it was local when the backup compared the two and went after.   *)
AsksBeforeDeleting == [][allowed \/ Vanished \subseteq known]_odVars

(* A command that ends well has left a repository that can be read, and    *)
(* none that its check failed on, unless the check was skipped; and the    *)
(* drive is mounted after a command exactly when it was before, or the     *)
(* command says that it could not unmount.                                 *)
GoodNews ==
  /\ odAt = "ok" /\ checking /\ mode \in {"backup", "verify"} =>
       /\ \E r \in Repos : drive[r] = "whole"
       /\ \A r \in Repos : drive[r] # "broken"
  /\ odAt \in {"ok", "failed"} => mountedAt = before \/ stuck
=============================================================================
