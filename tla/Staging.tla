------------------------------ MODULE Staging -------------------------------
(**************************************************************************)
(* The staging folder of a deploy and the processes it starts, from the      *)
(* temporary folder to its removal (cli/deploy/run-deploy.ts, exec.ts and    *)
(* process-registry.ts).                                                     *)
(*                                                                           *)
(* The folder holds copies of .env and .env.root.  A signal at any moment    *)
(* must remove it, and must end what the deploy has started.  The handler    *)
(* never yields, so the deploy's own code stands still while it runs; but    *)
(* a file operation that is with a worker thread, a hook and whatever the    *)
(* hook has started go on beside it, one system call at a time.              *)
(**************************************************************************)
EXTENDS Naturals

CONSTANT
  HookFiles    \* bound: the files a hook and its helper write

VARIABLES
  groupKill,   \* setsid, and signals to a process group, are available
  flow,        \* where the deploy's own code is
  op,          \* the file operation a worker thread holds
  stageDir,      \* the staging folder exists
  entries,     \* files in it: all of them may hold secrets
  proc,        \* the child of each kind
  handler,     \* where the signal handler, or the removal, is
  listing,     \* what the removal has read of the folder
  attempt,     \* of the removal, 1..3
  listening,   \* the listeners for the four signals are installed
  waiting,     \* a signal has come and its handler has not run yet
  warned       \* "failed to remove staging directory"

dirVars == <<stageDir, entries>>
rmVars == <<handler, listing, attempt, warned>>
sigVars == <<groupKill, listening, waiting>>
stagingVars == <<flow, op, proc, dirVars, rmVars, sigVars>>

Procs == {"transfer", "hook", "helper"}
SecretFiles == {"env", "staged"} \cup HookFiles

StagingTypeOK ==
  /\ groupKill \in BOOLEAN
  /\ flow \in {"start", "made", "files", "hook", "transfer", "finally",
               "over", "exited"}
  /\ op \in {"none", "env", "staged", "mkdir"}
  /\ stageDir \in BOOLEAN
  /\ entries \subseteq SecretFiles /\ (entries # {} => stageDir)
  /\ proc \in [Procs -> {"none", "new", "up", "gone"}]
  /\ handler \in {"idle", "term", "kill", "list", "unlink", "rmdir", "end"}
  /\ listing \subseteq SecretFiles
  /\ attempt \in 1..3
  /\ listening \in BOOLEAN /\ waiting \in BOOLEAN /\ warned \in BOOLEAN

StagingInit ==
  /\ groupKill \in BOOLEAN
  /\ flow = "start" /\ op = "none" /\ stageDir = FALSE /\ entries = {}
  /\ proc = [p \in Procs |-> "none"]
  /\ handler = "idle" /\ listing = {} /\ attempt = 1
  /\ listening = FALSE /\ waiting = FALSE /\ warned = FALSE

Alive == {p \in Procs : proc[p] \in {"new", "up"}}
DeployGone == flow \in {"over", "exited"}

(* The deploy's own code runs only when no handler does, and goes on only    *)
(* when what it awaits has settled.                                          *)
Turn == handler = "idle" /\ ~DeployGone

-----------------------------------------------------------------------------
(* The deploy's own code.                                                    *)

MakeFolder ==
  /\ Turn /\ flow = "start"
  /\ flow' = "made" /\ stageDir' = TRUE
  /\ UNCHANGED <<op, entries, proc, rmVars, sigVars>>

Install ==
  /\ Turn /\ flow = "made"
  /\ flow' = "files" /\ listening' = TRUE
  /\ UNCHANGED <<groupKill, op, proc, waiting, rmVars, dirVars>>

(* Hand one operation to a worker thread and await it: .env first, then      *)
(* the folders and files of the stacks.                                      *)
StageNext ==
  /\ Turn /\ flow = "files" /\ op = "none" /\ ~waiting
  /\ op' \in IF "env" \notin entries THEN {"env"} ELSE {"staged", "mkdir"}
  /\ UNCHANGED <<flow, proc, rmVars, dirVars, sigVars>>

(* A child is tracked in the same turn that starts it.  Under setsid a       *)
(* hook is "new" until it leads its own process group.                       *)
StartHook ==
  /\ Turn /\ flow = "files" /\ op = "none" /\ "env" \in entries /\ ~waiting
  /\ proc["hook"] = "none"
  /\ flow' = "hook"
  /\ proc' = [proc EXCEPT !["hook"] = IF groupKill THEN "new" ELSE "up"]
  /\ UNCHANGED <<op, rmVars, dirVars, sigVars>>

StartTransfer ==
  /\ Turn /\ flow = "files" /\ op = "none" /\ "env" \in entries /\ ~waiting
  /\ proc["transfer"] = "none"
  /\ flow' = "transfer"
  /\ proc' = [proc EXCEPT !["transfer"] = "up"]
  /\ UNCHANGED <<op, rmVars, dirVars, sigVars>>

(* A child has exited: the deploy goes on, or fails into its finally.        *)
ChildSettled ==
  /\ Turn /\ flow \in {"hook", "transfer"} /\ ~waiting
  /\ proc[flow] = "gone"
  /\ flow' \in {"files", "finally"}
  /\ UNCHANGED <<op, proc, rmVars, dirVars, sigVars>>

(* The finally block removes the folder first, in one turn, and only then    *)
(* drops the listeners.                                                      *)
Finally ==
  /\ Turn /\ op = "none" /\ ~waiting
  /\ flow \in {"files", "finally"}
  /\ flow' = "finally" /\ handler' = "list"
  /\ UNCHANGED <<op, proc, listing, attempt, warned, dirVars, sigVars>>

-----------------------------------------------------------------------------
(* What goes on beside the deploy's code, and beside the handler.            *)

(* The worker thread's system call: a file only lands in a folder that       *)
(* exists, mkdir makes the folder again when it is gone.                     *)
OpLands ==
  /\ op # "none" /\ ~DeployGone
  /\ op' = "none"
  /\ IF op = "mkdir" THEN stageDir' = TRUE /\ UNCHANGED entries
     ELSE /\ entries' = IF stageDir THEN entries \cup {op} ELSE entries
          /\ UNCHANGED stageDir
  /\ UNCHANGED <<flow, proc, rmVars, sigVars>>

LeadsGroup ==
  /\ proc["hook"] = "new"
  /\ proc' = [proc EXCEPT !["hook"] = "up"]
  /\ UNCHANGED <<flow, op, rmVars, dirVars, sigVars>>

HookStartsHelper ==
  /\ proc["hook"] = "up" /\ proc["helper"] = "none"
  /\ proc' = [proc EXCEPT !["helper"] = "up"]
  /\ UNCHANGED <<flow, op, rmVars, dirVars, sigVars>>

(* A hook runs in the staging folder and writes there what it generates.     *)
HookWrites ==
  /\ stageDir /\ \E p \in {"hook", "helper"} : proc[p] = "up"
  /\ \E f \in HookFiles \ (entries \cup listing) :
       entries' = entries \cup {f}
  /\ UNCHANGED <<flow, op, stageDir, proc, rmVars, sigVars>>

(* A hook waits for what it has started, as its contract says.               *)
ProcExits(p) ==
  /\ proc[p] = "up"
  /\ p = "hook" => proc["helper"] # "up"
  /\ proc' = [proc EXCEPT ![p] = "gone"]
  /\ UNCHANGED <<flow, op, rmVars, dirVars, sigVars>>

-----------------------------------------------------------------------------
(* Signals.  Without listeners a signal ends the process; with them it       *)
(* waits for the turn that is running to end.                                *)
SignalComes ==
  /\ ~DeployGone /\ ~waiting
  /\ IF listening THEN waiting' = TRUE /\ UNCHANGED flow
     ELSE flow' = "exited" /\ UNCHANGED waiting
  /\ UNCHANGED <<groupKill, op, proc, listening, rmVars, dirVars>>

(* A signal that came in the finally block finds the listeners gone, or is   *)
(* handled before they are dropped: both leave nothing to do.                *)
HandlerStarts ==
  /\ Turn /\ waiting /\ listening
  /\ waiting' = FALSE
  /\ handler' = IF Alive = {} THEN "list" ELSE "term"
  /\ UNCHANGED <<groupKill, flow, op, proc, listing, attempt, listening,
                 warned, dirVars>>

(* Whom a signal to the tracked children reaches: a group that does not      *)
(* exist yet cannot be signalled, and the error is swallowed.                *)
Reached ==
  (Alive \cap {"transfer"})
  \cup (IF groupKill
        THEN IF proc["hook"] = "up" THEN Alive \cap {"hook", "helper"}
             ELSE {}
        ELSE Alive \cap {"hook"})

(* SIGTERM: some of those it reaches end, some take longer or ignore it.     *)
SendTerm ==
  /\ handler = "term"
  /\ \E ends \in SUBSET Reached :
       proc' = [p \in Procs |-> IF p \in ends THEN "gone" ELSE proc[p]]
  /\ handler' = "kill"
  /\ UNCHANGED <<flow, op, listing, attempt, warned, dirVars, sigVars>>

(* SIGKILL, 300 ms later: time enough for a new hook to lead its group.      *)
(* The group outlives its leader for as long as the helper runs.             *)
SendKill ==
  /\ handler = "kill"
  /\ proc["hook"] # "new"
  /\ LET reached == IF groupKill THEN Alive
                    ELSE Alive \ {"helper"}
     IN  proc' = [p \in Procs |-> IF p \in reached THEN "gone" ELSE proc[p]]
  /\ handler' = "list"
  /\ UNCHANGED <<flow, op, listing, attempt, warned, dirVars, sigVars>>

-----------------------------------------------------------------------------
(* removeStagingDirSync: read the folder, unlink what was read, remove the   *)
(* folder; three attempts.                                                   *)

RmList ==
  /\ handler = "list"
  /\ IF stageDir THEN handler' = "unlink" /\ listing' = entries
     ELSE handler' = "end" /\ listing' = {}
  /\ UNCHANGED <<flow, op, proc, attempt, warned, dirVars, sigVars>>

RmUnlink ==
  /\ handler = "unlink"
  /\ handler' = "rmdir"
  /\ entries' = entries \ listing
  /\ UNCHANGED <<flow, op, stageDir, proc, listing, attempt, warned, sigVars>>

(* Mutant: it tries once and gives up.                                       *)
RmDirOnce ==
  /\ handler = "rmdir"
  /\ listing' = {} /\ handler' = "end"
  /\ stageDir' = (entries # {}) /\ warned' = (entries # {})
  /\ UNCHANGED <<flow, op, entries, proc, attempt, sigVars>>

RmDir ==
  /\ handler = "rmdir"
  /\ listing' = {}
  /\ IF entries = {}
     THEN /\ stageDir' = FALSE /\ handler' = "end"
          /\ UNCHANGED <<attempt, warned>>
     ELSE /\ attempt' = IF attempt = 3 THEN 3 ELSE attempt + 1
          /\ handler' = IF attempt = 3 THEN "end" ELSE "list"
          /\ warned' = (attempt = 3)
          /\ UNCHANGED stageDir
  /\ UNCHANGED <<flow, op, entries, proc, sigVars>>

(* Behind the removal: the finally block drops the listeners and ends the    *)
(* deploy, the handler exits.                                                *)
RmEnd ==
  /\ handler = "end"
  /\ handler' = "idle"
  /\ flow' = IF flow = "finally" THEN "over" ELSE "exited"
  /\ listening' = FALSE /\ waiting' = FALSE
  /\ UNCHANGED <<groupKill, op, proc, listing, attempt, warned, dirVars>>

-----------------------------------------------------------------------------
DeployRuns == \/ MakeFolder \/ Install \/ StageNext \/ StartHook
              \/ StartTransfer \/ ChildSettled \/ Finally
HandlerRuns == \/ HandlerStarts \/ SendTerm \/ SendKill
               \/ RmList \/ RmUnlink \/ RmDir \/ RmEnd
OthersRun == \/ OpLands \/ LeadsGroup \/ HookStartsHelper \/ HookWrites
             \/ \E p \in Procs : ProcExits(p)

StagingNext == DeployRuns \/ HandlerRuns \/ OthersRun \/ SignalComes

(* The event loop runs a handler whose signal has come, system calls         *)
(* return, and a process that has been started gets to run setsid.           *)
StagingFair == /\ WF_stagingVars(HandlerRuns)
               /\ WF_stagingVars(OpLands)
               /\ WF_stagingVars(LeadsGroup)

-----------------------------------------------------------------------------
(* When the deploy is gone, by its end or by a signal at any point, no       *)
(* copy of .env and nothing a hook has made is left in the staging folder,   *)
(* unless the deploy has said so.                                            *)
SecretsGone == DeployGone /\ ~warned => entries = {}

(* The warning is for a helper that could not be reached: one operation of   *)
(* the deploy that lands late costs a second attempt, never the third.       *)
WarnsOnlyOfStrays == warned => ~groupKill

(* A signal ends what the deploy has started, the hook's own children too,   *)
(* where process groups can be signalled.                                    *)
NoStrays == DeployGone /\ groupKill => Alive = {}

(* A signal that has come ends the deploy.                                   *)
SignalEndsDeploy == waiting ~> DeployGone
=============================================================================
