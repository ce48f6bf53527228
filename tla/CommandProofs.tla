---------------------------- MODULE CommandProofs ---------------------------
(* What the properties of the commands rest on that share no state with the*)
(* deploy's main loop: the look at the containers, the staging folder, the *)
(* folders of the volumes, the offline drive, the self upgrade, and server *)
(* create with the deploy that reads its file.  Each is proved for any     *)
(* constants, of any behaviour of its part.                                *)
EXTENDS StackCheck, Staging, Volumes, OfflineDrive, SelfUpgrade, DeployEnv,
        FiniteSetTheorems, SequenceTheorems, TLAPS

-----------------------------------------------------------------------------
(* StackCheck.  What the script knows of a stack it has or has not got to. *)
Positions == 1..Len(Order)
Stacks == {Order[i] : i \in Positions}
ToldOnce == {{}, {"success"}, {"failed"}}
Judged(s) == markers[s] \in {{"success"}, {"failed"}}
Counted(c) == counted[c] # NoCount

(* Up to here every stack is up and not looked at, or has failed; from here*)
(* on nothing has happened.                                                *)
UpTo(i) ==
  /\ i < at[2] => IF Order[i] \in upOk THEN markers[Order[i]] = {}
                  ELSE markers[Order[i]] = {"failed"}
  /\ i >= at[2] => /\ markers[Order[i]] = {}
                   /\ \A c \in Conts : ProjectOf[c] = Order[i] => ~Counted(c)
  /\ i > at[2] => Order[i] \notin upOk
UpInOrder == at[1] = "up" => \A i \in Positions : UpTo(i)

(* The first look judges a stack or leaves it to the second.               *)
LookedAt(i) ==
  LET s == Order[i] IN
  /\ s \notin upOk => markers[s] = {"failed"}
  /\ s \in upOk /\ i >= at[2] => markers[s] = {} /\ s \notin undecided
  /\ s \in upOk /\ i < at[2] /\ s \notin undecided => Judged(s)
  /\ s \in undecided => markers[s] = {}
LookInOrder == at[1] = "look" => \A i \in Positions : LookedAt(i)

(* The second judges the ones that were left.                              *)
Look2At(i) ==
  IF Order[i] \in undecided /\ i >= at[2] THEN markers[Order[i]] = {}
  ELSE Judged(Order[i])
Look2InOrder == at[1] = "look2" => \A i \in Positions : Look2At(i)

ParsedInOrder ==
  at[1] = "parsed" => cutOff \/ \A i \in Positions : Judged(Order[i])

(* A stack is left undecided by the first look only.                       *)
LooksInOrder ==
  /\ at[1] \in {"up", "look", "look2", "parsed"}
  /\ at[1] = "up" => undecided = {}
  /\ \A i \in Positions : markers[Order[i]] \in ToldOnce

(* A crash that no restart has answered yet.                               *)
Open(c) == IF status[c] = "restarting" \/ (status[c] = "exited1" /\ since[c])
           THEN 1 ELSE 0

(* docker has counted every crash the script could see, but for the last.  *)
CountedOf(c) ==
  /\ ~Counted(c) => early[c] = 0 /\ late[c] = 0
  /\ Counted(c) => /\ ProjectOf[c] \in upOk /\ status[c] # "absent"
                   /\ counted[c] <= restarts[c]
  /\ Counted(c) /\ markers[ProjectOf[c]] = {} =>
       early[c] + late[c] <= (restarts[c] - counted[c]) + Open(c)
  /\ ProjectOf[c] \notin undecided => late[c] = 0
  /\ ProjectOf[c] \in undecided =>
       early[c] = 0 \/ (early[c] = 1 /\ c \in suspects)
CrashesCounted == \A c \in Conts : CountedOf(c)

(* What the script could take for a failure is a crash since up.           *)
KnownOf(c) ==
  status[c] = "restarting" \/ since[c] \/ restarts[c] > 0 => c \in since_up
CrashesKnown == \A c \in Conts : KnownOf(c)

BoundedOf(c) ==
  /\ restarts[c] <= crashes
  /\ status[c] = "restarting" => restarts[c] + 1 <= crashes
  /\ early[c] <= crashes /\ late[c] <= crashes
CrashesBounded == \A c \in Conts : BoundedOf(c)

(* The types once more, by who has them.                                   *)
AtType == at \in {"up", "wait", "look", "wait2", "look2", "parsed"}
                    \X (1..(Len(Order) + 1))
ScriptTypes ==
  /\ upOk \subseteq Stacks
  /\ suspects \subseteq Conts /\ undecided \subseteq upOk
  /\ DOMAIN markers = Stacks
  /\ \A s \in DOMAIN markers : markers[s] \subseteq Results
FlagTypes == since \in [Conts -> BOOLEAN] /\ cutOff \in BOOLEAN
BoundTypes == crashes \in 0..MaxCrashes /\ remakes \in 0..MaxRemakes
ContTypes ==
  /\ status \in [Conts -> {"absent", "running", "restarting", "exited0",
                           "exited1"}]
  /\ restarts \in [Conts -> 0..MaxCrashes]
  /\ counted \in [Conts -> 0..NoCount]
  /\ early \in [Conts -> 0..MaxCrashes] /\ late \in [Conts -> 0..MaxCrashes]
  /\ since_up \subseteq Conts

LoopShown(c) ==
  Success(ProjectOf[c]) => early[c] < 2 /\ (early[c] = 1 => late[c] = 0)
AlarmRight(s) ==
  s \in upOk /\ "failed" \in markers[s] => since_up \cap Of(s) # {}

CheckInv ==
  /\ CheckTypeOK /\ UpInOrder /\ LookInOrder /\ Look2InOrder /\ ParsedInOrder
  /\ LooksInOrder /\ CrashesCounted /\ CrashesKnown /\ CrashesBounded
  /\ CrashLoopReported /\ NoFalseAlarm
-----------------------------------------------------------------------------
(* Staging.  Nobody the deploy has started is alive while its own code     *)
(* goes on, and nobody at all once a signal has reached a process group.   *)
Removing == {"list", "unlink", "rmdir", "end"}

BeforeListeners ==
  /\ flow \in {"start", "made"} =>
       /\ handler = "idle" /\ op = "none" /\ entries = {} /\ ~warned
       /\ \A p \in Procs : proc[p] = "none"
  /\ flow = "start" => ~stageDir
  /\ flow \in {"start", "made"} <=> (~DeployGone /\ ~listening)

Quiet ==
  /\ flow \in {"files", "finally"} => Alive = {}
  /\ op # "none" /\ ~DeployGone => flow = "files"
  /\ handler = "idle" /\ ~DeployGone /\ proc["hook"] \in {"none", "gone"} =>
       proc["helper"] # "up"
  /\ flow = "hook" => proc["transfer"] # "up" /\ op = "none"
  /\ flow = "transfer" =>
       proc["hook"] \in {"none", "gone"} /\ proc["helper"] # "up"
       /\ op = "none"
  /\ proc["transfer"] # "new" /\ proc["helper"] # "new"
  /\ groupKill /\ handler \in Removing => Alive = {}
  /\ groupKill /\ DeployGone => Alive = {}
  /\ DeployGone => handler = "idle"
  /\ warned => handler = "end" \/ DeployGone

(* One operation of the deploy lands late at most, so a second attempt     *)
(* finds what the first has left and nothing more.                         *)
LateOnce ==
  /\ handler = "idle" /\ ~DeployGone => attempt = 1
  /\ groupKill =>
       /\ attempt > 1 => op = "none"
       /\ handler = "unlink" => entries \subseteq listing \/ op = "none"
       /\ handler = "unlink" /\ attempt > 1 => entries \subseteq listing
       /\ handler = "rmdir" => entries = {} \/ op = "none"
       /\ handler = "rmdir" /\ attempt > 1 => entries = {}

(* Behind the removal, where nothing was warned of, nobody can write.      *)
EmptyBehind ==
  /\ handler = "end" /\ ~warned =>
       /\ entries = {}
       /\ ~stageDir \/ (Alive = {} /\ op = "none")
  /\ DeployGone /\ ~warned =>
       entries = {} /\ (~stageDir \/ Alive = {})

(* The types once more, by what they are.                                  *)
StagingSets ==
  /\ flow \in {"start", "made", "files", "hook", "transfer", "finally",
               "over", "exited"}
  /\ op \in {"none", "env", "staged", "mkdir"}
  /\ entries \subseteq SecretFiles
  /\ proc \in [Procs -> {"none", "new", "up", "gone"}]
  /\ handler \in {"idle", "term", "kill", "list", "unlink", "rmdir", "end"}
  /\ listing \subseteq SecretFiles /\ attempt \in 1..3
StagingFlags ==
  /\ groupKill \in BOOLEAN /\ stageDir \in BOOLEAN
  /\ listening \in BOOLEAN /\ waiting \in BOOLEAN /\ warned \in BOOLEAN
FolderHolds == entries # {} => stageDir

StagingInv ==
  /\ StagingSets /\ StagingFlags /\ FolderHolds /\ BeforeListeners /\ Quiet
  /\ LateOnce /\ EmptyBehind
  /\ WarnsOnlyOfStrays

-----------------------------------------------------------------------------
(* Volumes.  A script runs where nothing was refused, and the file mounts  *)
(* that no link has been put in the place of are files.                    *)
ScriptMayRun ==
  vpc = "script" =>
    /\ ~KeepOwnerClash(role)
    /\ \A n \in Mounts \ swapped :
         leads[n] = Outside \/ kind[leads[n]] = "file"

(* It works on one folder at a time, which has turned out to lie below     *)
(* VOLUMES_PATH; what it chowns is where the path leads to at the second   *)
(* look, which is its own place only if it was that at the first.          *)
OneFolder ==
  /\ now # NoNode <=> sub # "none"
  /\ vpc # "script" => todo = {} /\ now = NoNode
  /\ todo \subseteq Folders /\ now \in Folders \cup {NoNode}
  /\ IF now = NoNode THEN real = NoNode ELSE real \in Nodes
  /\ sub = "mkdir" => real = leads[now] /\ Resolves(now)
  /\ sub = "again" => leads[now] = real \/ leads[now] # now
  /\ sub = "again" /\ now \notin swapped =>
       leads[now] = real /\ kind[real] = "dir"
  /\ sub = "chown" => real = leads[now] /\ role[now] # "kept"

(* An owned volume's folder is made where nothing was, so that no volume   *)
(* the script has been at lies there.                                      *)
Behind(n) == n \in Folders /\ n \notin todo \cup swapped \cup {now}
OwnedIsNew ==
  now # NoNode /\ role[now] = "owned" =>
    /\ sub = "mkdir" => kind[real] = "missing"
    /\ sub \in {"again", "chown"} /\ real = now =>
         /\ now \in made \/ leads[now] # now
         /\ \A n \in Nodes : Behind(n) => leads[n] # now

(* A folder that a script has made is there and its owner is declared;     *)
(* what it has made and not given away is the one it works on.             *)
MadeAreOwned ==
  /\ deploys = 0 => made = {} /\ vpc = "idle"
  /\ \A p \in made : role[p] = "owned" /\ kind[p] = "dir"
  /\ \A p \in made \ torn :
       \/ owner[p] = "own" \/ <<p, "ids">> \in strays
       \/ p = real /\ sub \in {"again", "chown"} /\ role[now] = "owned"

(* The folders behind the script are as they should be.                    *)
FolderOk(n) ==
  \/ leads[n] = Outside
  \/ /\ kind[leads[n]] = "dir"
     /\ role[n] = "plain" =>
          owner[leads[n]] = "ids" \/ <<leads[n], "own">> \in strays
FoldersBehind ==
  /\ vpc = "script" => \A n \in Nodes : Behind(n) => FolderOk(n)
  /\ vpc = "done" => \A n \in Folders \ swapped : FolderOk(n)

VolumesInv ==
  /\ VolumesTypeOK /\ ScriptMayRun /\ OneFolder /\ OwnedIsNew
  /\ MadeAreOwned /\ FoldersBehind

-----------------------------------------------------------------------------
(* OfflineDrive.  A command that works on the partition has it mounted; one*)
(* that formats the drive was allowed to.                                  *)
MountedAsSaid ==
  /\ odAt \in {"open", "erase", "label"} => mountedAt = before
  /\ odAt \in {"guard", "copy", "check", "end", "release"} =>
       mountedAt /\ mode # "format"
  /\ odAt \in {"erase", "label"} => mode = "format" /\ allowed
  /\ odAt \in {"ok", "failed"} => mountedAt = before \/ stuck

(* What a backup has still to copy and the drive holds was local when the  *)
(* two were compared, or the owner allowed to lose it.                     *)
ComparedFirst ==
  odAt = "copy" /\ mode = "backup" =>
    allowed \/ Held(drive) \cap todoRepos \subseteq known

(* What the check has been over is in its counts as it is.                 *)
TalliedAsFound ==
  /\ odAt \in {"open", "guard", "copy"} => tally = NoTally
  /\ odAt \in {"check", "end", "ok"} /\ mode \in {"backup", "verify"}
       /\ checking =>
       /\ \A r \in Repos \ todoRepos :
            drive[r] = "broken" => r \in tally.failed
       /\ \A r \in tally.passed : drive[r] = "whole"
       /\ odAt # "check" => todoRepos = {}
       /\ odAt = "ok" => tally.failed = {} /\ tally.passed # {}

(* The types once more, by what they are.                                  *)
OdSets ==
  /\ odAt \in {"idle", "open", "mount", "guard", "copy", "check", "erase",
               "label", "end", "release", "ok", "failed"}
  /\ mode \in {"backup", "verify", "restore", "format"}
  /\ local \in [Repos -> RepoStates] /\ drive \in [Repos -> RepoStates]
  /\ known \subseteq Repos /\ todoRepos \subseteq Repos
  /\ tally.passed \subseteq Repos /\ tally.failed \subseteq Repos
  /\ odRuns \in 0..MaxOdRuns /\ localChanges \in 0..MaxLocal
OdFlags ==
  /\ ready \in BOOLEAN /\ mountedAt \in BOOLEAN /\ before \in BOOLEAN
  /\ allowed \in BOOLEAN /\ checking \in BOOLEAN /\ stuck \in BOOLEAN

OdInv ==
  OdSets /\ OdFlags /\ MountedAsSaid /\ ComparedFirst /\ TalliedAsFound

-----------------------------------------------------------------------------
(* SelfUpgrade.  What a run has in its hands: sums are of a release, what  *)
(* is unpacked is what they are of, and what an upgrade is about to put in *)
(* place has told its version here.                                        *)
SumsFetched(r) ==
  \/ runAt[r] \in {"verify", "write"}
  \/ runAt[r] = "archive" /\ r \notin Installs
InHand(r) ==
  /\ SumsFetched(r) => sums[r] \in Releases
  /\ runAt[r] = "write" => archive[r] = sums[r]
  /\ runAt[r] \in {"version", "rename"} => temp[r] \in Releases
  /\ runAt[r] = "rename" /\ r \notin Installs =>
       temp[r] = want[r] /\ temp[r] \notin Broken

UpgradeInv ==
  UpgradeTypeOK /\ WholeBinary /\ \A r \in Runs : InHand(r)

-----------------------------------------------------------------------------
(* Server create and deploy.  What a run of server create has in hand: the *)
(* address is answered, and what nobody has edited since is what it read.  *)
RunInHand ==
  /\ creating # "no" =>
       /\ created = "none"
       /\ \A k \in Keys \ touched : work.existing[k] = env[k]
  /\ creating \in {"probe", "ask"} =>
       /\ ValidAddress(work.address)
       /\ work.address =
            Answer("SSH_ADDRESS", work.existing["SSH_ADDRESS"])
  /\ work.probed["PUID"] # <<"0">>

(* What it has written it has looked at.                                   *)
WrittenAccepted ==
  created = "ok" => \A k \in AskedKeys : Accepts(k, env[k])
CreateInv == CreateTypeOK /\ RunInHand /\ WrittenAccepted

(* What a deploy has read, and what it has made of it.                     *)
DeployTypes ==
  /\ root \in [Keys -> EnvValue]
  /\ shell \in [Keys \cup HookOnly -> EnvValue]
  /\ envs \in [EnvStacks -> EnvValue]
  /\ deployed \in {"no", "refused", "taken"}
  /\ resolved \in [Keys -> EnvValue] /\ composed \in [Keys -> EnvValue]
  /\ hookEnvs \in [EnvStacks -> [Keys \cup HookOnly -> EnvValue]]
  /\ hollow \in BOOLEAN
  /\ reads \in 0..MaxReads
TakenInv == DeployTypes /\ HooksFollowDeploy /\ TakenIsSound
(* The script is at a stack, or behind the last one.                       *)
LEMMA Place ==
  ASSUME CheckTypeOK
  PROVE  /\ at = <<at[1], at[2]>>
         /\ at[1] \in {"up", "wait", "look", "wait2", "look2", "parsed"}
         /\ at[2] \in Nat /\ 1 <= at[2] /\ at[2] <= Len(Order) + 1
         /\ Len(Order) \in Nat /\ Len(Order) > 0
         /\ \A i \in Positions : i \in Nat /\ 1 <= i /\ i <= Len(Order)
         /\ DOMAIN markers = Stacks
         /\ upOk \subseteq Stacks /\ undecided \subseteq upOk
         /\ \A i \in Positions : Order[i] \in Stacks
BY OrderIsSeq DEF CheckTypeOK, Positions, Stacks

(* One stack further.                                                      *)
LEMMA Moves ==
  ASSUME CheckTypeOK, Move
  PROVE  at'[1] = at[1] /\ at'[2] = at[2] + 1
BY Place DEF Move

(* A result is one more marker of its stack, and of no other.              *)
LEMMA Reports ==
  ASSUME CheckTypeOK, NEW s \in Stacks, NEW r, Report(s, r)
  PROVE  /\ DOMAIN markers' = DOMAIN markers
         /\ markers'[s] = markers[s] \cup {r}
         /\ \A t \in Stacks : t # s => markers'[t] = markers[t]
BY Place DEF Report

(* Where the script is at a stack, it is that of its position.             *)
LEMMA AtStack ==
  ASSUME CheckTypeOK, at[2] <= Len(Order)
  PROVE  /\ at[2] \in Positions /\ Here \in Stacks
         /\ Here = Order[at[2]]
         /\ \A i \in Positions : Order[i] = Here => i = at[2]
<1>1. at[2] \in Positions
  BY Place, OrderIsSeq DEF Positions
<1> QED
  BY <1>1, OrderIsSeq DEF Here, Positions, Stacks

(* What a first look makes of its stack: nothing, a result, or a suspicion. *)
LEMMA Looks ==
  ASSUME CheckTypeOK, Look
  PROVE  /\ at[2] <= Len(Order)
         /\ \A s \in Stacks : s # Here => markers'[s] = markers[s]
         /\ \/ Here \notin upOk /\ UNCHANGED <<suspects, undecided, markers>>
            \/ /\ Here \in upOk /\ UNCHANGED <<suspects, undecided>>
               /\ markers'[Here] # {}
               /\ "success" \in markers'[Here] \ markers[Here] =>
                    Finds(Of(Here), Failures \cup {"restarted"}) = {}
               /\ "failed" \in markers'[Here] \ markers[Here] =>
                    Finds(Of(Here), Failures) # {}
            \/ /\ Here \in upOk /\ UNCHANGED markers
               /\ undecided' = undecided \cup {Here}
               /\ suspects' = suspects \cup Finds(Of(Here), {"restarted"})
               /\ Finds(Of(Here), Failures) = {}
<1> DEFINE Failed == Finds(Of(Here), Failures)
           Once == Finds(Of(Here), {"restarted"})
<1>1. at[2] <= Len(Order)
  BY DEF Look, Is
<1>2. Finds(Of(Here), Failures \cup {"restarted"}) = Failed \cup Once
  BY DEF Finds
<1>3. /\ Failed = Finds(Of(Here), Failures)
      /\ Once = Finds(Of(Here), {"restarted"})
  OBVIOUS
<1>4. CASE Here \notin upOk
  BY <1>1, <1>4 DEF Look
<1>5. CASE Here \in upOk /\ (Failed # {} \/ Once = {})
  <2>1. /\ Report(Here, IF Failed = {} THEN "success" ELSE "failed")
        /\ UNCHANGED <<suspects, undecided>>
    BY <1>5 DEF Look
  <2>2. markers'[Here] = markers[Here] \cup
                          {IF Failed = {} THEN "success" ELSE "failed"}
    BY <1>1, <2>1, Reports, AtStack
  <2>3. \A s \in Stacks : s # Here => markers'[s] = markers[s]
    BY <1>1, <2>1, Reports, AtStack
  <2> HIDE DEF Failed, Once
  <2> QED
    BY <1>1, <1>2, <1>3, <1>5, <2>1, <2>2, <2>3
<1>6. CASE Here \in upOk /\ Failed = {} /\ Once # {}
  BY <1>1, <1>6 DEF Look
<1> QED
  BY <1>4, <1>5, <1>6

(* What a second look makes of its stack.                                  *)
LEMMA LooksAgain ==
  ASSUME CheckTypeOK, LookAgain
  PROVE  /\ at[2] <= Len(Order)
         /\ \A s \in Stacks : s # Here => markers'[s] = markers[s]
         /\ markers[Here] \subseteq markers'[Here]
         /\ Here \notin undecided => markers'[Here] = markers[Here]
         /\ "success" \in markers'[Here] \ markers[Here] =>
              Finds(Of(Here) \cap suspects, Failures) = {}
         /\ "failed" \in markers'[Here] \ markers[Here] =>
              Finds(Of(Here) \cap suspects, Failures) # {}
<1> DEFINE Failed == Finds(Of(Here) \cap suspects, Failures)
<1>1. at[2] <= Len(Order)
  BY DEF LookAgain, Is
<1>2. CASE Here \notin undecided
  BY <1>1, <1>2 DEF LookAgain
<1>3. CASE Here \in undecided
  <2>1. Report(Here, IF Failed = {} THEN "success" ELSE "failed")
    BY <1>3 DEF LookAgain
  <2>2. markers'[Here] = markers[Here] \cup
                          {IF Failed = {} THEN "success" ELSE "failed"}
    BY <1>1, <2>1, Reports, AtStack
  <2>3. \A s \in Stacks : s # Here => markers'[s] = markers[s]
    BY <1>1, <2>1, Reports, AtStack
  <2> QED
    BY <1>1, <1>3, <2>2, <2>3
<1> QED
  BY <1>2, <1>3

(* What is known of one container.                                         *)
LEMMA OneContainer ==
  ASSUME CheckTypeOK, NEW c \in Conts
  PROVE  /\ status[c] \in {"absent", "running", "restarting", "exited0",
                          "exited1"}
         /\ restarts[c] \in Nat /\ counted[c] \in Nat
         /\ early[c] \in Nat /\ late[c] \in Nat /\ crashes \in Nat
         /\ NoCount \in Nat /\ (restarts[c] <= MaxCrashes)
         /\ ProjectOf[c] \in Stacks
BY CheckBounds, ProjectOfType DEF CheckTypeOK, NoCount, Stacks, Positions

(* A counted container the look does not take for failed has no crash open.*)
LEMMA Harmless ==
  ASSUME CheckTypeOK, NEW c \in Conts, Counted(c), Reason(c) \notin Failures
  PROVE  /\ Open(c) = 0 /\ restarts[c] < counted[c] + 2
         /\ restarts[c] > counted[c] => Reason(c) = "restarted"
<1>1. restarts[c] \in Nat /\ counted[c] \in Nat /\ counted[c] # NoCount
  BY OneContainer DEF Counted
<1>2. ~(status[c] = "restarting")
  BY DEF Reason, Failures
<1>3. ~(status[c] = "exited1" /\ since[c])
  BY <1>2 DEF Reason, Failures
<1>4. ~(restarts[c] >= counted[c] + 2)
  BY <1>1, <1>2, <1>3 DEF Reason, Failures
<1>5. restarts[c] > counted[c] => Reason(c) = "restarted"
  BY <1>1, <1>2, <1>3, <1>4 DEF Reason
<1> QED
  BY <1>1, <1>2, <1>3, <1>4, <1>5 DEF Open

(* A container the look takes for failed or restarted has crashed.         *)
LEMMA Suspicious ==
  ASSUME CheckTypeOK, NEW c \in Conts,
         Reason(c) \in Failures \cup {"restarted"}
  PROVE  status[c] = "restarting" \/ since[c] \/ restarts[c] > 0
<1>1. restarts[c] \in Nat /\ counted[c] \in Nat
  BY OneContainer
<1>2. CASE ~(status[c] = "restarting") /\ ~(status[c] = "exited1" /\ since[c])
  <2>1. restarts[c] >= counted[c] + 2 \/ restarts[c] > counted[c]
    BY <1>2 DEF Reason, Failures
  <2> QED
    BY <1>1, <2>1
<1> QED
  BY <1>2

(* The containers' variables are functions of the containers.              *)
LEMMA Functions ==
  ASSUME CheckTypeOK
  PROVE  /\ status \in [Conts -> {"absent", "running", "restarting",
                               "exited0", "exited1"}]
         /\ restarts \in [Conts -> Nat]
         /\ counted \in [Conts -> Nat] /\ early \in [Conts -> Nat]
         /\ late \in [Conts -> Nat] /\ DOMAIN since = Conts
         /\ crashes \in Nat /\ since_up \subseteq Conts
<1> USE CheckBounds DEF CheckTypeOK
<1>1. status \in [Conts -> {"absent", "running", "restarting", "exited0",
                         "exited1"}]
  OBVIOUS
<1>6. DOMAIN since = Conts
  BY Zenon
<1>2. restarts \in [Conts -> 0..MaxCrashes] /\ crashes \in Nat
  OBVIOUS
<1>3. early \in [Conts -> 0..MaxCrashes] /\ late \in [Conts -> 0..MaxCrashes]
  OBVIOUS
<1>4. counted \in [Conts -> 0..NoCount] /\ since_up \subseteq Conts
  OBVIOUS
<1>5. /\ [Conts -> 0..MaxCrashes] \subseteq [Conts -> Nat]
      /\ [Conts -> 0..NoCount] \subseteq [Conts -> Nat]
  BY DEF NoCount
<1> HIDE DEF CheckTypeOK
<1> QED
  BY <1>1, <1>2, <1>3, <1>4, <1>5, <1>6

(* The script stays within the stacks.                                     *)
LEMMA CheckPlace == CheckTypeOK /\ [CheckNext]_checkVars => AtType'
<1> SUFFICES ASSUME CheckTypeOK, [CheckNext]_checkVars
             PROVE  AtType'
  OBVIOUS
<1> USE Place DEF contVars, lookVars, Is, Done, AtType, Move
<1>1. CASE UpStack
  BY <1>1, Moves, AtStack DEF UpStack
<1>2. CASE UpStackFails
  BY <1>2, Moves, Reports, AtStack DEF UpStackFails
<1>3. CASE CountRestarts
  BY <1>3, Moves, AtStack DEF CountRestarts
<1>4. CASE WaitEnds
  BY <1>4 DEF WaitEnds
<1>5. CASE Look
  BY <1>5, Moves, Reports, AtStack DEF Look, Finds, Of
<1>6. CASE LookAgain
  BY <1>6, Moves, Reports, AtStack DEF LookAgain
<1>7. CASE ScriptOver
  BY <1>7 DEF ScriptOver
<1>8. ASSUME NEW c \in Conts, Crash(c) PROVE AtType'
  BY <1>8 DEF Crash, Counting, SecondWait
<1>9. ASSUME NEW c \in Conts, DockerRestarts(c) PROVE AtType'
  BY <1>9 DEF DockerRestarts
<1>10. ASSUME NEW c \in Conts, Remake(c) PROVE AtType'
  BY <1>10 DEF Remake
<1>11. CASE UNCHANGED checkVars
  BY <1>11 DEF checkVars
<1> QED
  BY <1>1, <1>2, <1>3, <1>4, <1>5, <1>6, <1>7, <1>8, <1>9, <1>10, <1>11 DEF
       CheckNext

(* What the script knows keeps its types.                                  *)
LEMMA CheckScript ==
  ScriptTypes /\ CheckTypeOK /\ [CheckNext]_checkVars => ScriptTypes'
<1> SUFFICES ASSUME ScriptTypes, CheckTypeOK, [CheckNext]_checkVars
             PROVE  ScriptTypes'
  OBVIOUS
<1> USE Place DEF contVars, lookVars, Is, Done, ScriptTypes, Results
<1>1. CASE UpStack
  BY <1>1, Moves, AtStack DEF UpStack
<1>2. CASE UpStackFails
  BY <1>2, Moves, Reports, AtStack DEF UpStackFails
<1>3. CASE CountRestarts
  BY <1>3, Moves, AtStack DEF CountRestarts
<1>4. CASE WaitEnds
  BY <1>4 DEF WaitEnds
<1>5. CASE Look
  BY <1>5, Moves, Reports, AtStack DEF Look, Finds, Of
<1>6. CASE LookAgain
  BY <1>6, Moves, Reports, AtStack DEF LookAgain
<1>7. CASE ScriptOver
  BY <1>7 DEF ScriptOver
<1>8. ASSUME NEW c \in Conts, Crash(c) PROVE ScriptTypes'
  BY <1>8 DEF Crash, Counting, SecondWait
<1>9. ASSUME NEW c \in Conts, DockerRestarts(c) PROVE ScriptTypes'
  BY <1>9 DEF DockerRestarts
<1>10. ASSUME NEW c \in Conts, Remake(c) PROVE ScriptTypes'
  BY <1>10 DEF Remake
<1>11. CASE UNCHANGED checkVars
  BY <1>11 DEF checkVars
<1> QED
  BY <1>1, <1>2, <1>3, <1>4, <1>5, <1>6, <1>7, <1>8, <1>9, <1>10, <1>11 DEF
       CheckNext

(* The stacks are brought up one after the other.                          *)
LEMMA CheckUp == CheckInv /\ [CheckNext]_checkVars => UpInOrder'
<1> SUFFICES ASSUME CheckInv, [CheckNext]_checkVars,
                    NEW i \in Positions, at'[1] = "up"
             PROVE  UpTo(i)'
  BY DEF UpInOrder, Positions
<1> USE Place DEF contVars, lookVars, Is, Done, CheckInv, UpInOrder, UpTo,
      Counted, Of, NoCount
<1>1. CASE UpStack
  BY <1>1, Moves, AtStack DEF UpStack
<1>2. CASE UpStackFails
  BY <1>2, Moves, Reports, AtStack DEF UpStackFails
<1>3. CASE CountRestarts
  BY <1>3, Moves, AtStack DEF CountRestarts
<1>4. CASE WaitEnds
  BY <1>4 DEF WaitEnds
<1>5. CASE Look
  BY <1>5, Moves, Reports, AtStack DEF Look, Finds, Of
<1>6. CASE LookAgain
  BY <1>6, Moves, Reports, AtStack DEF LookAgain
<1>7. CASE ScriptOver
  BY <1>7 DEF ScriptOver
<1>8. ASSUME NEW c \in Conts, Crash(c) PROVE UpTo(i)'
  BY <1>8 DEF Crash, Counting, SecondWait
<1>9. ASSUME NEW c \in Conts, DockerRestarts(c) PROVE UpTo(i)'
  BY <1>9 DEF DockerRestarts
<1>10. ASSUME NEW c \in Conts, Remake(c) PROVE UpTo(i)'
  BY <1>10 DEF Remake
<1>11. CASE UNCHANGED checkVars
  BY <1>11 DEF checkVars
<1> QED
  BY <1>1, <1>2, <1>3, <1>4, <1>5, <1>6, <1>7, <1>8, <1>9, <1>10, <1>11 DEF
       CheckNext

(* The first look goes through them once more.                             *)
LEMMA CheckLook == CheckInv /\ [CheckNext]_checkVars => LookInOrder'
<1> SUFFICES ASSUME CheckInv, [CheckNext]_checkVars,
                    NEW i \in Positions, at'[1] = "look"
             PROVE  LookedAt(i)'
  BY DEF LookInOrder, Positions
<1> USE Place DEF contVars, lookVars, Is, Done, CheckInv, UpInOrder, UpTo,
      LooksInOrder, LookInOrder, LookedAt, Judged
<1>1. CASE UpStack
  BY <1>1, Moves, AtStack DEF UpStack
<1>2. CASE UpStackFails
  BY <1>2, Moves, Reports, AtStack DEF UpStackFails
<1>3. CASE CountRestarts
  BY <1>3, Moves, AtStack DEF CountRestarts
<1>4. CASE WaitEnds
  BY <1>4 DEF WaitEnds
<1>5. CASE Look
  BY <1>5, Moves, Reports, AtStack DEF Look, Finds, Of
<1>6. CASE LookAgain
  BY <1>6, Moves, Reports, AtStack DEF LookAgain
<1>7. CASE ScriptOver
  BY <1>7 DEF ScriptOver
<1>8. ASSUME NEW c \in Conts, Crash(c) PROVE LookedAt(i)'
  BY <1>8 DEF Crash, Counting, SecondWait
<1>9. ASSUME NEW c \in Conts, DockerRestarts(c) PROVE LookedAt(i)'
  BY <1>9 DEF DockerRestarts
<1>10. ASSUME NEW c \in Conts, Remake(c) PROVE LookedAt(i)'
  BY <1>10 DEF Remake
<1>11. CASE UNCHANGED checkVars
  BY <1>11 DEF checkVars
<1> QED
  BY <1>1, <1>2, <1>3, <1>4, <1>5, <1>6, <1>7, <1>8, <1>9, <1>10, <1>11 DEF
       CheckNext

(* The second look judges what the first has left.                         *)
LEMMA CheckLook2 == CheckInv /\ [CheckNext]_checkVars => Look2InOrder'
<1> SUFFICES ASSUME CheckInv, [CheckNext]_checkVars,
                    NEW i \in Positions, at'[1] = "look2"
             PROVE  Look2At(i)'
  BY DEF Look2InOrder, Positions
<1> USE Place DEF contVars, lookVars, Is, Done, CheckInv, LookInOrder,
      LookedAt, Look2InOrder, Look2At, Judged, ToldOnce
<1>1. CASE UpStack
  BY <1>1, Moves, AtStack DEF UpStack
<1>2. CASE UpStackFails
  BY <1>2, Moves, Reports, AtStack DEF UpStackFails
<1>3. CASE CountRestarts
  BY <1>3, Moves, AtStack DEF CountRestarts
<1>4. CASE WaitEnds
  BY <1>4 DEF WaitEnds
<1>5. CASE Look
  BY <1>5, Moves, Reports, AtStack DEF Look, Finds, Of
<1>6. CASE LookAgain
  BY <1>6, Moves, Reports, AtStack DEF LookAgain
<1>7. CASE ScriptOver
  BY <1>7 DEF ScriptOver
<1>8. ASSUME NEW c \in Conts, Crash(c) PROVE Look2At(i)'
  BY <1>8 DEF Crash, Counting, SecondWait
<1>9. ASSUME NEW c \in Conts, DockerRestarts(c) PROVE Look2At(i)'
  BY <1>9 DEF DockerRestarts
<1>10. ASSUME NEW c \in Conts, Remake(c) PROVE Look2At(i)'
  BY <1>10 DEF Remake
<1>11. CASE UNCHANGED checkVars
  BY <1>11 DEF checkVars
<1> QED
  BY <1>1, <1>2, <1>3, <1>4, <1>5, <1>6, <1>7, <1>8, <1>9, <1>10, <1>11 DEF
       CheckNext

(* Who is not judged when the script ends was cut off.                     *)
LEMMA CheckParsed == CheckInv /\ [CheckNext]_checkVars => ParsedInOrder'
<1> SUFFICES ASSUME CheckInv, [CheckNext]_checkVars
             PROVE  ParsedInOrder'
  OBVIOUS
<1> USE Place DEF contVars, lookVars, Is, Done, CheckInv, Look2InOrder,
      Look2At, ParsedInOrder, LooksInOrder, Judged
<1>1. CASE UpStack
  BY <1>1, Moves, AtStack DEF UpStack
<1>2. CASE UpStackFails
  BY <1>2, Moves, Reports, AtStack DEF UpStackFails
<1>3. CASE CountRestarts
  BY <1>3, Moves, AtStack DEF CountRestarts
<1>4. CASE WaitEnds
  BY <1>4 DEF WaitEnds
<1>5. CASE Look
  BY <1>5, Moves, Reports, AtStack DEF Look, Finds, Of
<1>6. CASE LookAgain
  BY <1>6, Moves, Reports, AtStack DEF LookAgain
<1>7. CASE ScriptOver
  BY <1>7 DEF ScriptOver
<1>8. ASSUME NEW c \in Conts, Crash(c) PROVE ParsedInOrder'
  BY <1>8 DEF Crash, Counting, SecondWait
<1>9. ASSUME NEW c \in Conts, DockerRestarts(c) PROVE ParsedInOrder'
  BY <1>9 DEF DockerRestarts
<1>10. ASSUME NEW c \in Conts, Remake(c) PROVE ParsedInOrder'
  BY <1>10 DEF Remake
<1>11. CASE UNCHANGED checkVars
  BY <1>11 DEF checkVars
<1> QED
  BY <1>1, <1>2, <1>3, <1>4, <1>5, <1>6, <1>7, <1>8, <1>9, <1>10, <1>11 DEF
       CheckNext

(* No stack is judged twice.                                               *)
LEMMA CheckLooks == CheckInv /\ [CheckNext]_checkVars => LooksInOrder'
<1> SUFFICES ASSUME CheckInv, [CheckNext]_checkVars
             PROVE  LooksInOrder'
  OBVIOUS
<1> USE Place DEF contVars, lookVars, Is, Done, CheckInv, UpInOrder, UpTo,
      LookInOrder, LookedAt, Look2InOrder, Look2At, LooksInOrder, Judged,
      ToldOnce
<1>1. CASE UpStack
  BY <1>1, Moves, AtStack DEF UpStack
<1>2. CASE UpStackFails
  BY <1>2, Moves, Reports, AtStack DEF UpStackFails
<1>3. CASE CountRestarts
  BY <1>3, Moves, AtStack DEF CountRestarts
<1>4. CASE WaitEnds
  BY <1>4 DEF WaitEnds
<1>5. CASE Look
  BY <1>5, Moves, Reports, AtStack DEF Look, Finds, Of
<1>6. CASE LookAgain
  BY <1>6, Moves, Reports, AtStack DEF LookAgain
<1>7. CASE ScriptOver
  BY <1>7 DEF ScriptOver
<1>8. ASSUME NEW c \in Conts, Crash(c) PROVE LooksInOrder'
  BY <1>8 DEF Crash, Counting, SecondWait
<1>9. ASSUME NEW c \in Conts, DockerRestarts(c) PROVE LooksInOrder'
  BY <1>9 DEF DockerRestarts
<1>10. ASSUME NEW c \in Conts, Remake(c) PROVE LooksInOrder'
  BY <1>10 DEF Remake
<1>11. CASE UNCHANGED checkVars
  BY <1>11 DEF checkVars
<1> QED
  BY <1>1, <1>2, <1>3, <1>4, <1>5, <1>6, <1>7, <1>8, <1>9, <1>10, <1>11 DEF
       CheckNext

(* So do the containers' variables.                                        *)
LEMMA CheckConts ==
  CheckTypeOK /\ CrashesBounded /\ [CheckNext]_checkVars => ContTypes'
<1> SUFFICES ASSUME CheckTypeOK, CrashesBounded, [CheckNext]_checkVars
             PROVE  ContTypes'
  OBVIOUS
<1> USE CheckBounds DEF contVars, lookVars, Is, Done, CheckTypeOK,
      CrashesBounded, BoundedOf, ContTypes, NoCount
<1>1. CASE UpStack
  BY <1>1, Moves, AtStack DEF UpStack
<1>2. CASE UpStackFails
  BY <1>2, Moves, Reports, AtStack DEF UpStackFails
<1>3. CASE CountRestarts
  <2>1. \A c \in Conts : restarts[c] \in 0..NoCount
    OBVIOUS
  <2>2. counted' \in [Conts -> 0..NoCount]
    BY <1>3, <2>1 DEF CountRestarts
  <2> QED
    BY <1>3, <2>2 DEF CountRestarts
<1>4. CASE WaitEnds
  BY <1>4 DEF WaitEnds
<1>5. CASE Look
  BY <1>5, Moves, Reports, AtStack DEF Look, Finds, Of
<1>6. CASE LookAgain
  BY <1>6, Moves, Reports, AtStack DEF LookAgain
<1>7. CASE ScriptOver
  BY <1>7 DEF ScriptOver
<1>8. ASSUME NEW c \in Conts, Crash(c) PROVE ContTypes'
  <2>1. crashes < MaxCrashes /\ early[c] + 1 \in 0..MaxCrashes
        /\ late[c] + 1 \in 0..MaxCrashes
    BY <1>8 DEF Crash
  <2>2. early' \in [Conts -> 0..MaxCrashes]
    BY <1>8, <2>1 DEF Crash
  <2>3. late' \in [Conts -> 0..MaxCrashes]
    BY <1>8, <2>1 DEF Crash
  <2>4. status' \in [Conts -> {"absent", "running", "restarting", "exited0",
                              "exited1"}]
    BY <1>8 DEF Crash
  <2> QED
    BY <1>8, <2>2, <2>3, <2>4 DEF Crash
<1>9. ASSUME NEW c \in Conts, DockerRestarts(c) PROVE ContTypes'
  BY <1>9 DEF DockerRestarts
<1>10. ASSUME NEW c \in Conts, Remake(c) PROVE ContTypes'
  BY <1>10 DEF Remake
<1>11. CASE UNCHANGED checkVars
  BY <1>11 DEF checkVars
<1> QED
  BY <1>1, <1>2, <1>3, <1>4, <1>5, <1>6, <1>7, <1>8, <1>9, <1>10, <1>11 DEF
       CheckNext

(* A restart or a failed exit since up is of a crash since up.             *)
LEMMA CheckKnown == CheckInv /\ [CheckNext]_checkVars => CrashesKnown'
<1> SUFFICES ASSUME CheckInv, [CheckNext]_checkVars,
                    NEW d \in Conts
             PROVE  KnownOf(d)'
  BY DEF CrashesKnown
<1> USE Place, Functions, OneContainer DEF contVars, lookVars, Is, Done,
      CheckInv, CrashesKnown, KnownOf
<1>1. CASE UpStack
  BY <1>1, Moves, AtStack DEF UpStack
<1>2. CASE UpStackFails
  BY <1>2, Moves, Reports, AtStack DEF UpStackFails
<1>3. CASE CountRestarts
  BY <1>3, Moves, AtStack DEF CountRestarts
<1>4. CASE WaitEnds
  BY <1>4 DEF WaitEnds
<1>5. CASE Look
  BY <1>5, Moves, Reports, AtStack DEF Look, Finds, Of
<1>6. CASE LookAgain
  BY <1>6, Moves, Reports, AtStack DEF LookAgain
<1>7. CASE ScriptOver
  BY <1>7 DEF ScriptOver
<1>8. ASSUME NEW c \in Conts, Crash(c) PROVE KnownOf(d)'
  BY <1>8 DEF Crash, Counting, SecondWait
<1>9. ASSUME NEW c \in Conts, DockerRestarts(c) PROVE KnownOf(d)'
  BY <1>9 DEF DockerRestarts
<1>10. ASSUME NEW c \in Conts, Remake(c) PROVE KnownOf(d)'
  BY <1>10 DEF Remake
<1>11. CASE UNCHANGED checkVars
  BY <1>11 DEF checkVars
<1> QED
  BY <1>1, <1>2, <1>3, <1>4, <1>5, <1>6, <1>7, <1>8, <1>9, <1>10, <1>11 DEF
       CheckNext

(* No container restarts more often than all of them crash.                *)
LEMMA CheckBounded ==
  CheckTypeOK /\ CrashesBounded /\ [CheckNext]_checkVars => CrashesBounded'
<1> SUFFICES ASSUME CheckTypeOK, CrashesBounded, [CheckNext]_checkVars,
                    NEW d \in Conts
             PROVE  BoundedOf(d)'
  BY DEF CrashesBounded
<1> USE Place, Functions, OneContainer DEF contVars, lookVars, Is, Done,
      CrashesBounded, BoundedOf
<1>1. CASE UpStack
  BY <1>1, Moves, AtStack DEF UpStack
<1>2. CASE UpStackFails
  BY <1>2, Moves, Reports, AtStack DEF UpStackFails
<1>3. CASE CountRestarts
  BY <1>3, Moves, AtStack DEF CountRestarts
<1>4. CASE WaitEnds
  BY <1>4 DEF WaitEnds
<1>5. CASE Look
  BY <1>5, Moves, Reports, AtStack DEF Look, Finds, Of
<1>6. CASE LookAgain
  BY <1>6, Moves, Reports, AtStack DEF LookAgain
<1>7. CASE ScriptOver
  BY <1>7 DEF ScriptOver
<1>8. ASSUME NEW c \in Conts, Crash(c) PROVE BoundedOf(d)'
  BY <1>8 DEF Crash, Counting, SecondWait
<1>9. ASSUME NEW c \in Conts, DockerRestarts(c) PROVE BoundedOf(d)'
  BY <1>9 DEF DockerRestarts
<1>10. ASSUME NEW c \in Conts, Remake(c) PROVE BoundedOf(d)'
  BY <1>10 DEF Remake
<1>11. CASE UNCHANGED checkVars
  BY <1>11 DEF checkVars
<1> QED
  BY <1>1, <1>2, <1>3, <1>4, <1>5, <1>6, <1>7, <1>8, <1>9, <1>10, <1>11 DEF
       CheckNext

(* A crash the script could see is in the counts, or not answered yet.     *)
LEMMA CheckCounted == CheckInv /\ [CheckNext]_checkVars => CrashesCounted'
<1> SUFFICES ASSUME CheckInv, [CheckNext]_checkVars,
                    NEW d \in Conts
             PROVE  CountedOf(d)'
  BY DEF CrashesCounted
<1> USE Place, Functions, OneContainer DEF contVars, lookVars, Is, Done,
      CheckInv, UpInOrder, UpTo, LookInOrder, LookedAt, CrashesCounted,
      CountedOf, Counted, Open, Of
<1>1. CASE UpStack
  <2>1. CASE d \in Of(Here)
    BY <1>1, <2>1 DEF UpStack
  <2>2. CASE d \notin Of(Here)
    <3>1. status'[d] = status[d]
      BY <1>1, <2>2 DEF UpStack
    <3> QED
      BY <1>1, <3>1 DEF UpStack
  <2> QED
    BY <2>1, <2>2
<1>2. CASE UpStackFails
  <2>1. Counted(d) => markers'[ProjectOf[d]] = markers[ProjectOf[d]]
    BY <1>2, Reports, AtStack DEF UpStackFails
  <2> QED
    BY <1>2, <2>1 DEF UpStackFails
<1>3. CASE CountRestarts
  <2>1. /\ markers' = markers /\ undecided' = undecided /\ status' = status
        /\ early' = early /\ late' = late /\ suspects' = suspects
        /\ upOk' = upOk /\ restarts' = restarts /\ since' = since
    BY <1>3 DEF CountRestarts
  <2>2. CASE ProjectOf[d] = Here
    <3>1. early[d] = 0 /\ late[d] = 0 /\ Here \in upOk
      BY <1>3, <2>2, AtStack DEF CountRestarts
    <3>2. Counted(d)' => counted'[d] = restarts[d] /\ status[d] # "absent"
      <4>1. ~Counted(d)
        BY <1>3, <2>2, AtStack DEF CountRestarts
      <4> QED
        BY <1>3, <2>2, <4>1 DEF CountRestarts, NoCount
    <3> QED
      BY <2>1, <2>2, <3>1, <3>2
  <2>3. CASE ProjectOf[d] # Here
    <3>1. counted'[d] = counted[d]
      BY <1>3, <2>3 DEF CountRestarts
    <3> QED
      BY <2>1, <3>1 DEF NoCount
  <2> QED
    BY <2>2, <2>3
<1>4. CASE WaitEnds
  BY <1>4 DEF WaitEnds
<1>5. CASE Look
  <2>1. CASE ProjectOf[d] # Here \/ Here \notin upOk
    <3>1. /\ markers'[ProjectOf[d]] = markers[ProjectOf[d]]
          /\ ProjectOf[d] \in undecided' <=> ProjectOf[d] \in undecided
          /\ suspects \subseteq suspects'
      BY <1>5, <2>1, Looks
    <3> QED
      BY <1>5, <3>1 DEF Look
  <2>2. CASE ProjectOf[d] = Here /\ Here \in upOk
    <3>1. markers[Here] = {} /\ Here \notin undecided
      BY <1>5, <2>2, AtStack DEF Look
    <3>2. CASE undecided' = undecided
      BY <1>5, <2>2, <3>1, <3>2, Looks DEF Look
    <3>3. CASE undecided' # undecided
      <4>1. Finds(Of(Here), Failures) = {} /\ d \in Of(Here)
            /\ suspects' = suspects \cup Finds(Of(Here), {"restarted"})
            /\ markers' = markers
        BY <1>5, <2>2, <3>1, <3>3, Looks
      <4>2. CASE Counted(d)
        <5>1. Reason(d) \notin Failures
          BY <4>1, <4>2 DEF Finds
        <5>2. Open(d) = 0 /\ restarts[d] < counted[d] + 2
              /\ (restarts[d] > counted[d] => Reason(d) = "restarted")
          BY <4>2, <5>1, Harmless
        <5>3. restarts[d] > counted[d] => d \in suspects'
          BY <4>1, <4>2, <5>2 DEF Finds
        <5>4. early[d] + late[d] <= restarts[d] - counted[d] /\ late[d] = 0
          BY <2>2, <3>1, <4>2, <5>2
        <5>5. early[d] = 0 \/ (early[d] = 1 /\ d \in suspects')
          BY <5>2, <5>3, <5>4, <4>2
        <5> QED
          BY <1>5, <2>2, <3>1, <4>1, <5>5 DEF Look
      <4>3. CASE ~Counted(d)
        BY <1>5, <2>2, <3>1, <4>1, <4>3 DEF Look
      <4> QED
        BY <4>2, <4>3
    <3> QED
      BY <3>2, <3>3
  <2> QED
    BY <2>1, <2>2
<1>6. CASE LookAgain
  <2>1. markers[ProjectOf[d]] # {} => markers'[ProjectOf[d]] # {}
    BY <1>6, LooksAgain
  <2> QED
    BY <1>6, <2>1 DEF LookAgain
<1>7. CASE ScriptOver
  BY <1>7 DEF ScriptOver
<1>8. ASSUME NEW c \in Conts, Crash(c) PROVE CountedOf(d)'
  <2>1. CASE d # c
    BY <1>8, <2>1 DEF Crash, Counting, SecondWait
  <2>2. CASE d = c
    <3>1. Open(d) = 0 /\ Open(d)' = 1
      BY <1>8, <2>2 DEF Crash
    <3> HIDE DEF Open
    <3>2. CASE Counting(d)
      <4>1. markers' = markers /\ counted' = counted /\ undecided' = undecided
            /\ restarts' = restarts /\ suspects' = suspects /\ upOk' = upOk
            /\ status'[d] # "absent"
        BY <1>8, <2>2 DEF Crash
      <4>2. CASE SecondWait(d)
        <5>1. late'[d] = late[d] + 1 /\ early' = early
          BY <1>8, <2>2, <3>2, <4>2 DEF Crash
        <5> QED
          BY <2>2, <3>1, <3>2, <4>1, <4>2, <5>1
             DEF Counting, SecondWait, NoCount
      <4>3. CASE ~SecondWait(d)
        <5>1. early'[d] = early[d] + 1 /\ late' = late
          BY <1>8, <2>2, <3>2, <4>3 DEF Crash
        <5>2. /\ early[d] <= restarts[d] - counted[d] /\ late[d] = 0
              /\ counted[d] <= restarts[d] /\ ProjectOf[d] \in upOk
          BY <2>2, <3>1, <3>2, <4>3 DEF Counting, SecondWait
        <5> QED
          BY <2>2, <3>1, <3>2, <4>1, <4>3, <5>1, <5>2
             DEF Counting, SecondWait, NoCount
      <4> QED
        BY <4>2, <4>3
    <3>3. CASE ~Counting(d)
      BY <1>8, <2>2, <3>3 DEF Crash, Counting
    <3> QED
      BY <3>2, <3>3
  <2> QED
    BY <2>1, <2>2
<1>9. ASSUME NEW c \in Conts, DockerRestarts(c) PROVE CountedOf(d)'
  <2>1. CASE d = c
    <3>1. Open(d) = 1 /\ Open(d)' = 0 /\ restarts'[d] = restarts[d] + 1
      BY <1>9, <2>1 DEF DockerRestarts
    <3>2. markers' = markers /\ counted' = counted /\ undecided' = undecided
          /\ early' = early /\ late' = late /\ suspects' = suspects
          /\ upOk' = upOk /\ status'[d] # "absent"
      BY <1>9, <2>1 DEF DockerRestarts
    <3> HIDE DEF Open
    <3>3. restarts[d] - counted[d] + 1 = restarts'[d] - counted[d]
      BY <3>1
    <3>4. Counted(d)' <=> Counted(d)
      BY <3>2 DEF NoCount
    <3>5. Counted(d) /\ markers[ProjectOf[d]] = {} =>
            early[d] + late[d] <= restarts'[d] - counted[d]
      <4>1. Counted(d) /\ markers[ProjectOf[d]] = {} =>
              early[d] + late[d] <= (restarts[d] - counted[d]) + 1
        BY <3>1
      <4> QED
        BY <4>1, <3>3
    <3>6. Counted(d) => counted[d] <= restarts'[d] /\ ProjectOf[d] \in upOk
      BY <3>1
    <3> QED
      BY <2>1, <3>1, <3>2, <3>4, <3>5, <3>6
  <2>2. CASE d # c
    BY <1>9, <2>2 DEF DockerRestarts
  <2> QED
    BY <2>1, <2>2
<1>10. ASSUME NEW c \in Conts, Remake(c) PROVE CountedOf(d)'
  BY <1>10 DEF Remake
<1>11. CASE UNCHANGED checkVars
  BY <1>11 DEF checkVars
<1> QED
  BY <1>1, <1>2, <1>3, <1>4, <1>5, <1>6, <1>7, <1>8, <1>9, <1>10, <1>11 DEF
       CheckNext

(* A success is reported of counts that show no loop.                      *)
LEMMA CheckLoops == CheckInv /\ [CheckNext]_checkVars => CrashLoopReported'
<1> SUFFICES ASSUME CheckInv, [CheckNext]_checkVars,
                    NEW d \in Conts
             PROVE  LoopShown(d)'
  BY DEF CrashLoopReported, LoopShown
<1> USE Place, Functions, OneContainer DEF contVars, lookVars, Is, Done,
      CheckInv, CrashLoopReported, LoopShown, Success, CrashesCounted,
      CountedOf, LookInOrder, LookedAt, Look2InOrder, Look2At, Judged, Of
<1>1. CASE UpStack
  BY <1>1, Moves, AtStack DEF UpStack
<1>2. CASE UpStackFails
  <2>1. "failed" \in markers'[Here]
    BY <1>2, Reports, AtStack DEF UpStackFails
  <2>2. ProjectOf[d] # Here => markers'[ProjectOf[d]] = markers[ProjectOf[d]]
    BY <1>2, Reports, AtStack DEF UpStackFails
  <2> QED
    BY <1>2, <2>1, <2>2 DEF UpStackFails
<1>3. CASE CountRestarts
  BY <1>3, Moves, AtStack DEF CountRestarts
<1>4. CASE WaitEnds
  BY <1>4 DEF WaitEnds
<1>5. CASE Look
  <2>1. early' = early /\ late' = late
    BY <1>5 DEF Look
  <2>2. CASE markers'[ProjectOf[d]] = markers[ProjectOf[d]]
    BY <2>1, <2>2
  <2>3. CASE markers'[ProjectOf[d]] # markers[ProjectOf[d]]
    <3>1. ProjectOf[d] = Here /\ Here \in upOk /\ d \in Of(Here)
      BY <1>5, <2>3, Looks
    <3>2. markers[Here] = {}
      BY <1>5, <3>1, AtStack DEF Look
    <3>3. "success" \in markers'[Here] =>
            Finds(Of(Here), Failures \cup {"restarted"}) = {}
      BY <1>5, <3>1, <3>2, <2>3, Looks
    <3>4. CASE Success(ProjectOf[d])' /\ Counted(d)
      <4>1. Reason(d) \notin Failures \cup {"restarted"}
        BY <3>1, <3>3, <3>4 DEF Finds
      <4>2. Open(d) = 0 /\ restarts[d] <= counted[d]
        BY <3>4, <4>1, Harmless
      <4>3. early[d] + late[d] <= (restarts[d] - counted[d]) + 0
        BY <3>1, <3>2, <3>4, <4>2
      <4> QED
        BY <2>1, <4>2, <4>3
    <3> QED
      BY <2>1, <3>4
  <2> QED
    BY <2>2, <2>3
<1>6. CASE LookAgain
  <2>1. early' = early /\ late' = late
    BY <1>6 DEF LookAgain
  <2>2. CASE markers'[ProjectOf[d]] = markers[ProjectOf[d]]
    BY <2>1, <2>2
  <2>3. CASE markers'[ProjectOf[d]] # markers[ProjectOf[d]]
    <3>1. ProjectOf[d] = Here /\ Here \in undecided /\ d \in Of(Here)
      BY <1>6, <2>3, LooksAgain
    <3>2. markers[Here] = {}
      BY <1>6, <3>1, AtStack DEF LookAgain
    <3>3. "success" \in markers'[Here] =>
            Finds(Of(Here) \cap suspects, Failures) = {}
      BY <1>6, <3>2, LooksAgain
    <3>4. CASE Success(ProjectOf[d])' /\ Counted(d) /\ d \in suspects
      <4>1. Reason(d) \notin Failures
        BY <3>1, <3>3, <3>4 DEF Finds
      <4>2. Open(d) = 0 /\ restarts[d] < counted[d] + 2
        BY <3>4, <4>1, Harmless
      <4>3. early[d] + late[d] <= (restarts[d] - counted[d]) + 0
        BY <3>1, <3>2, <3>4, <4>2
      <4> QED
        BY <2>1, <3>1, <4>2, <4>3
    <3>5. CASE d \notin suspects \/ ~Counted(d)
      BY <2>1, <3>1, <3>5
    <3> QED
      BY <2>1, <3>4, <3>5
  <2> QED
    BY <2>2, <2>3
<1>7. CASE ScriptOver
  BY <1>7 DEF ScriptOver
<1>8. ASSUME NEW c \in Conts, Crash(c) PROVE LoopShown(d)'
  <2>1. \/ early'[d] = early[d] /\ late'[d] = late[d]
        \/ d = c /\ Counting(c)
    BY <1>8 DEF Crash
  <2>2. markers' = markers
    BY <1>8 DEF Crash
  <2> QED
    BY <2>1, <2>2 DEF Counting
<1>9. ASSUME NEW c \in Conts, DockerRestarts(c) PROVE LoopShown(d)'
  BY <1>9 DEF DockerRestarts
<1>10. ASSUME NEW c \in Conts, Remake(c) PROVE LoopShown(d)'
  BY <1>10 DEF Remake
<1>11. CASE UNCHANGED checkVars
  BY <1>11 DEF checkVars
<1> QED
  BY <1>1, <1>2, <1>3, <1>4, <1>5, <1>6, <1>7, <1>8, <1>9, <1>10, <1>11 DEF
       CheckNext

(* A failure is reported of a container that has crashed.                  *)
LEMMA CheckAlarms == CheckInv /\ [CheckNext]_checkVars => NoFalseAlarm'
<1> SUFFICES ASSUME CheckInv, [CheckNext]_checkVars,
                    NEW s
             PROVE  AlarmRight(s)'
  BY DEF NoFalseAlarm, AlarmRight
<1> USE Place, Functions, OneContainer DEF contVars, lookVars, Is, Done,
      CheckInv, NoFalseAlarm, AlarmRight, UpInOrder, UpTo, Of
<1>1. CASE UpStack
  BY <1>1, Moves, AtStack DEF UpStack
<1>2. CASE UpStackFails
  <2>1. s # Here /\ s \in Stacks => markers'[s] = markers[s]
    BY <1>2, Reports, AtStack DEF UpStackFails
  <2> QED
    BY <1>2, <2>1 DEF UpStackFails
<1>3. CASE CountRestarts
  BY <1>3, Moves, AtStack DEF CountRestarts
<1>4. CASE WaitEnds
  BY <1>4 DEF WaitEnds
<1>5. CASE Look
  <2>1. CASE s \in Stacks /\ markers'[s] # markers[s]
    <3>1. s = Here /\ Here \in upOk
      BY <1>5, <2>1, Looks
    <3>2. "failed" \in markers'[Here] \ markers[Here] =>
            \E c \in Of(Here) : Reason(c) \in Failures
      BY <1>5, Looks DEF Finds
    <3>3. \A c \in Conts : Reason(c) \in Failures => c \in since_up
      BY Suspicious DEF CrashesKnown, KnownOf
    <3> QED
      BY <1>5, <3>1, <3>2, <3>3 DEF Look
  <2> QED
    BY <1>5, <2>1 DEF Look
<1>6. CASE LookAgain
  <2>1. CASE s \in Stacks /\ markers'[s] # markers[s]
    <3>1. s = Here /\ Here \in upOk
      BY <1>6, <2>1, LooksAgain
    <3>2. "failed" \in markers'[Here] \ markers[Here] =>
            \E c \in Of(Here) : Reason(c) \in Failures
      BY <1>6, LooksAgain DEF Finds
    <3>3. \A c \in Conts : Reason(c) \in Failures => c \in since_up
      BY Suspicious DEF CrashesKnown, KnownOf
    <3> QED
      BY <1>6, <3>1, <3>2, <3>3 DEF LookAgain
  <2> QED
    BY <1>6, <2>1 DEF LookAgain
<1>7. CASE ScriptOver
  BY <1>7 DEF ScriptOver
<1>8. ASSUME NEW c \in Conts, Crash(c) PROVE AlarmRight(s)'
  BY <1>8 DEF Crash, Counting, SecondWait
<1>9. ASSUME NEW c \in Conts, DockerRestarts(c) PROVE AlarmRight(s)'
  BY <1>9 DEF DockerRestarts
<1>10. ASSUME NEW c \in Conts, Remake(c) PROVE AlarmRight(s)'
  BY <1>10 DEF Remake
<1>11. CASE UNCHANGED checkVars
  BY <1>11 DEF checkVars
<1> QED
  BY <1>1, <1>2, <1>3, <1>4, <1>5, <1>6, <1>7, <1>8, <1>9, <1>10, <1>11 DEF
       CheckNext

(* What is true or false stays so.                                         *)
LEMMA CheckFlags == FlagTypes /\ [CheckNext]_checkVars => FlagTypes'
<1> SUFFICES ASSUME FlagTypes, [CheckNext]_checkVars
             PROVE  FlagTypes'
  OBVIOUS
<1> USE CheckBounds DEF contVars, lookVars, Is, Done, FlagTypes
<1>1. CASE UpStack
  BY <1>1, Moves, AtStack DEF UpStack
<1>2. CASE UpStackFails
  BY <1>2, Moves, Reports, AtStack DEF UpStackFails
<1>3. CASE CountRestarts
  BY <1>3, Moves, AtStack DEF CountRestarts
<1>4. CASE WaitEnds
  BY <1>4 DEF WaitEnds
<1>5. CASE Look
  BY <1>5, Moves, Reports, AtStack DEF Look, Finds, Of
<1>6. CASE LookAgain
  BY <1>6, Moves, Reports, AtStack DEF LookAgain
<1>7. CASE ScriptOver
  BY <1>7 DEF ScriptOver
<1>8. ASSUME NEW c \in Conts, Crash(c) PROVE FlagTypes'
  BY <1>8 DEF Crash, Counting, SecondWait
<1>9. ASSUME NEW c \in Conts, DockerRestarts(c) PROVE FlagTypes'
  BY <1>9 DEF DockerRestarts
<1>10. ASSUME NEW c \in Conts, Remake(c) PROVE FlagTypes'
  BY <1>10 DEF Remake
<1>11. CASE UNCHANGED checkVars
  BY <1>11 DEF checkVars
<1> QED
  BY <1>1, <1>2, <1>3, <1>4, <1>5, <1>6, <1>7, <1>8, <1>9, <1>10, <1>11 DEF
       CheckNext

(* The counters stay within their bounds.                                  *)
LEMMA CheckCounters == BoundTypes /\ [CheckNext]_checkVars => BoundTypes'
<1> SUFFICES ASSUME BoundTypes, [CheckNext]_checkVars
             PROVE  BoundTypes'
  OBVIOUS
<1> USE CheckBounds DEF contVars, lookVars, Is, Done, BoundTypes
<1>1. CASE UpStack
  BY <1>1, Moves, AtStack DEF UpStack
<1>2. CASE UpStackFails
  BY <1>2, Moves, Reports, AtStack DEF UpStackFails
<1>3. CASE CountRestarts
  BY <1>3, Moves, AtStack DEF CountRestarts
<1>4. CASE WaitEnds
  BY <1>4 DEF WaitEnds
<1>5. CASE Look
  BY <1>5, Moves, Reports, AtStack DEF Look, Finds, Of
<1>6. CASE LookAgain
  BY <1>6, Moves, Reports, AtStack DEF LookAgain
<1>7. CASE ScriptOver
  BY <1>7 DEF ScriptOver
<1>8. ASSUME NEW c \in Conts, Crash(c) PROVE BoundTypes'
  BY <1>8 DEF Crash, Counting, SecondWait
<1>9. ASSUME NEW c \in Conts, DockerRestarts(c) PROVE BoundTypes'
  BY <1>9 DEF DockerRestarts
<1>10. ASSUME NEW c \in Conts, Remake(c) PROVE BoundTypes'
  BY <1>10 DEF Remake
<1>11. CASE UNCHANGED checkVars
  BY <1>11 DEF checkVars
<1> QED
  BY <1>1, <1>2, <1>3, <1>4, <1>5, <1>6, <1>7, <1>8, <1>9, <1>10, <1>11 DEF
       CheckNext

(* The parts of the types are the types.                                   *)
LEMMA CheckTypesParts ==
  CheckTypeOK <=> AtType /\ ScriptTypes /\ FlagTypes /\ BoundTypes /\ ContTypes
BY Zenon
   DEF CheckTypeOK, AtType, ScriptTypes, FlagTypes, BoundTypes, ContTypes,
       Stacks, Positions, Results, NoCount

(* The script starts with nothing counted, looked at or reported.          *)
LEMMA CheckStarts == CheckInit => CheckInv
<1> SUFFICES ASSUME CheckInit PROVE CheckInv
  OBVIOUS
<1> USE OrderIsSeq, ProjectOfType, CheckBounds DEF CheckInit
<1>1. AtType /\ ScriptTypes
  <2>1. 1 \in 1..(Len(Order) + 1)
    OBVIOUS
  <2>2. AtType
    BY <2>1 DEF AtType
  <2>3. ScriptTypes
    BY DEF ScriptTypes, Stacks, Positions
  <2> QED
    BY <2>2, <2>3
<1>2. FlagTypes
  BY Zenon DEF FlagTypes
<1>3. BoundTypes /\ ContTypes
  BY DEF BoundTypes, ContTypes, NoCount
<1>4. CheckTypeOK
  BY <1>1, <1>2, <1>3, CheckTypesParts
<1>5. at[1] = "up" /\ at[2] = 1
  OBVIOUS
<1>6. \A i \in Positions : markers[Order[i]] = {}
  BY DEF Positions
<1>7. UpInOrder
  BY <1>5, <1>6, Place, <1>4 DEF UpInOrder, UpTo, Counted
<1>8. LookInOrder /\ Look2InOrder /\ ParsedInOrder /\ LooksInOrder
  BY <1>5, <1>6
     DEF LookInOrder, Look2InOrder, ParsedInOrder, LooksInOrder, ToldOnce
<1>9. CrashesCounted
  BY DEF CrashesCounted, CountedOf, Counted
<1>10. CrashesKnown
  BY DEF CrashesKnown, KnownOf
<1>11. CrashesBounded
  BY DEF CrashesBounded, BoundedOf
<1>12. CrashLoopReported /\ NoFalseAlarm
  BY DEF CrashLoopReported, NoFalseAlarm
<1> QED
  BY <1>4, <1>7, <1>8, <1>9, <1>10, <1>11, <1>12 DEF CheckInv

(* The conjuncts of the invariant, one step further.                       *)
LEMMA CheckStep == CheckInv /\ [CheckNext]_checkVars => CheckInv'
<1> SUFFICES ASSUME CheckInv, [CheckNext]_checkVars PROVE CheckInv'
  OBVIOUS
<1>1. /\ CheckTypeOK /\ CrashesBounded /\ AtType /\ ScriptTypes /\ FlagTypes
      /\ BoundTypes /\ ContTypes
  BY CheckTypesParts DEF CheckInv
<1>2. AtType' /\ ScriptTypes' /\ FlagTypes' /\ BoundTypes' /\ ContTypes'
  BY <1>1, CheckPlace, CheckScript, CheckFlags, CheckCounters, CheckConts
<1>3. CheckTypeOK'
  BY <1>2, CheckTypesParts, PTL
<1> QED
  BY <1>1, <1>3, CheckUp, CheckLook, CheckLook2, CheckParsed, CheckLooks,
     CheckKnown, CheckBounded, CheckCounted, CheckLoops, CheckAlarms
     DEF CheckInv

(* One result is one element, and the finished script has one for each.    *)
LEMMA CheckOneResult == CheckInv => OneResultEach
<1> SUFFICES ASSUME CheckInv, at[1] = "parsed", NEW s \in DOMAIN markers
             PROVE  Cardinality(markers[s]) = 1 \/ (cutOff /\ markers[s] = {})
  BY DEF OneResultEach
<1>1. PICK i \in Positions : s = Order[i]
  BY Place DEF CheckInv, Stacks
<1>2. markers[s] \in ToldOnce /\ (cutOff \/ Judged(s))
  BY <1>1 DEF CheckInv, LooksInOrder, ParsedInOrder
<1>3. Cardinality({"success"}) = 1 /\ Cardinality({"failed"}) = 1
  BY FS_Singleton
<1> QED
  BY <1>2, <1>3 DEF ToldOnce, Judged

(* Whatever crashes, is restarted or made anew while the script looks, and *)
(* wherever the connection breaks: no loop counts as started, no failure is*)
(* made up, and every stack has one result.                                *)
THEOREM ResultsTell ==
  CheckInit /\ [][CheckNext]_checkVars =>
    [](CrashLoopReported /\ NoFalseAlarm /\ OneResultEach /\ CheckTypeOK)
<1>1. CheckInv => CrashLoopReported /\ NoFalseAlarm /\ CheckTypeOK
  BY DEF CheckInv
<1> QED
  BY <1>1, CheckStarts, CheckStep, CheckOneResult, PTL
-----------------------------------------------------------------------------
(* Staging, step by step.                                                  *)

(* The folder, the processes and the removal keep their types.             *)
LEMMA StagingNumbers ==
  StagingSets /\ [StagingNext]_stagingVars => StagingSets'
<1> SUFFICES ASSUME StagingSets, [StagingNext]_stagingVars
             PROVE  StagingSets'
  OBVIOUS
<1> USE DEF dirVars, rmVars, sigVars, Turn, DeployGone, StagingSets,
      SecretFiles, Procs, Alive, Reached
<1>1. CASE MakeFolder
  BY <1>1 DEF MakeFolder
<1>2. CASE Install
  BY <1>2 DEF Install
<1>3. CASE StageNext
  BY <1>3 DEF StageNext
<1>4. CASE StartHook
  BY <1>4 DEF StartHook
<1>5. CASE StartTransfer
  BY <1>5 DEF StartTransfer
<1>6. CASE ChildSettled
  BY <1>6 DEF ChildSettled
<1>7. CASE Finally
  BY <1>7 DEF Finally
<1>8. CASE HandlerStarts
  BY <1>8 DEF HandlerStarts
<1>9. CASE SendTerm
  BY <1>9 DEF SendTerm
<1>10. CASE SendKill
  BY <1>10 DEF SendKill
<1>11. CASE RmList
  BY <1>11 DEF RmList
<1>12. CASE RmUnlink
  BY <1>12 DEF RmUnlink
<1>13. CASE RmDir
  BY <1>13 DEF RmDir
<1>14. CASE RmEnd
  BY <1>14 DEF RmEnd
<1>15. CASE OpLands
  BY <1>15 DEF OpLands
<1>16. CASE LeadsGroup
  BY <1>16 DEF LeadsGroup
<1>17. CASE HookStartsHelper
  BY <1>17 DEF HookStartsHelper
<1>18. CASE HookWrites
  BY <1>18 DEF HookWrites
<1>19. CASE SignalComes
  BY <1>19 DEF SignalComes
<1>20. ASSUME NEW p \in Procs, ProcExits(p) PROVE StagingSets'
  BY <1>20 DEF ProcExits
<1>21. CASE UNCHANGED stagingVars
  BY <1>21 DEF stagingVars
<1> QED
  BY <1>1, <1>2, <1>3, <1>4, <1>5, <1>6, <1>7, <1>8, <1>9, <1>10, <1>11,
       <1>12, <1>13, <1>14, <1>15, <1>16, <1>17, <1>18, <1>19, <1>20, <1>21
       DEF StagingNext, DeployRuns, HandlerRuns, OthersRun

(* What is true or false stays so.                                         *)
LEMMA StagingTruths ==
  StagingFlags /\ [StagingNext]_stagingVars => StagingFlags'
<1> SUFFICES ASSUME StagingFlags, [StagingNext]_stagingVars
             PROVE  StagingFlags'
  OBVIOUS
<1> USE DEF dirVars, rmVars, sigVars, Turn, DeployGone, StagingFlags
<1>1. CASE MakeFolder
  BY <1>1 DEF MakeFolder
<1>2. CASE Install
  BY <1>2 DEF Install
<1>3. CASE StageNext
  BY <1>3 DEF StageNext
<1>4. CASE StartHook
  BY <1>4 DEF StartHook
<1>5. CASE StartTransfer
  BY <1>5 DEF StartTransfer
<1>6. CASE ChildSettled
  BY <1>6 DEF ChildSettled
<1>7. CASE Finally
  BY <1>7 DEF Finally
<1>8. CASE HandlerStarts
  BY <1>8 DEF HandlerStarts
<1>9. CASE SendTerm
  BY <1>9 DEF SendTerm
<1>10. CASE SendKill
  BY <1>10 DEF SendKill
<1>11. CASE RmList
  BY <1>11 DEF RmList
<1>12. CASE RmUnlink
  BY <1>12 DEF RmUnlink
<1>13. CASE RmDir
  BY <1>13 DEF RmDir
<1>14. CASE RmEnd
  BY <1>14 DEF RmEnd
<1>15. CASE OpLands
  BY <1>15 DEF OpLands
<1>16. CASE LeadsGroup
  BY <1>16 DEF LeadsGroup
<1>17. CASE HookStartsHelper
  BY <1>17 DEF HookStartsHelper
<1>18. CASE HookWrites
  BY <1>18 DEF HookWrites
<1>19. CASE SignalComes
  BY <1>19 DEF SignalComes
<1>20. ASSUME NEW p \in Procs, ProcExits(p) PROVE StagingFlags'
  BY <1>20 DEF ProcExits
<1>21. CASE UNCHANGED stagingVars
  BY <1>21 DEF stagingVars
<1> QED
  BY <1>1, <1>2, <1>3, <1>4, <1>5, <1>6, <1>7, <1>8, <1>9, <1>10, <1>11,
       <1>12, <1>13, <1>14, <1>15, <1>16, <1>17, <1>18, <1>19, <1>20, <1>21
       DEF StagingNext, DeployRuns, HandlerRuns, OthersRun

(* Files are in a folder that is there.                                    *)
LEMMA StagingFolder ==
  FolderHolds /\ [StagingNext]_stagingVars => FolderHolds'
<1> SUFFICES ASSUME FolderHolds, [StagingNext]_stagingVars
             PROVE  FolderHolds'
  OBVIOUS
<1> USE DEF dirVars, rmVars, sigVars, Turn, DeployGone, FolderHolds,
      SecretFiles
<1>1. CASE MakeFolder
  BY <1>1 DEF MakeFolder
<1>2. CASE Install
  BY <1>2 DEF Install
<1>3. CASE StageNext
  BY <1>3 DEF StageNext
<1>4. CASE StartHook
  BY <1>4 DEF StartHook
<1>5. CASE StartTransfer
  BY <1>5 DEF StartTransfer
<1>6. CASE ChildSettled
  BY <1>6 DEF ChildSettled
<1>7. CASE Finally
  BY <1>7 DEF Finally
<1>8. CASE HandlerStarts
  BY <1>8 DEF HandlerStarts
<1>9. CASE SendTerm
  BY <1>9 DEF SendTerm
<1>10. CASE SendKill
  BY <1>10 DEF SendKill
<1>11. CASE RmList
  BY <1>11 DEF RmList
<1>12. CASE RmUnlink
  BY <1>12 DEF RmUnlink
<1>13. CASE RmDir
  BY <1>13 DEF RmDir
<1>14. CASE RmEnd
  BY <1>14 DEF RmEnd
<1>15. CASE OpLands
  BY <1>15 DEF OpLands
<1>16. CASE LeadsGroup
  BY <1>16 DEF LeadsGroup
<1>17. CASE HookStartsHelper
  BY <1>17 DEF HookStartsHelper
<1>18. CASE HookWrites
  BY <1>18 DEF HookWrites
<1>19. CASE SignalComes
  BY <1>19 DEF SignalComes
<1>20. ASSUME NEW p \in Procs, ProcExits(p) PROVE FolderHolds'
  BY <1>20 DEF ProcExits
<1>21. CASE UNCHANGED stagingVars
  BY <1>21 DEF stagingVars
<1> QED
  BY <1>1, <1>2, <1>3, <1>4, <1>5, <1>6, <1>7, <1>8, <1>9, <1>10, <1>11,
       <1>12, <1>13, <1>14, <1>15, <1>16, <1>17, <1>18, <1>19, <1>20, <1>21
       DEF StagingNext, DeployRuns, HandlerRuns, OthersRun

(* Before the listeners nothing is there to remove.                        *)
LEMMA StagingBefore ==
  StagingInv /\ [StagingNext]_stagingVars => BeforeListeners'
<1> SUFFICES ASSUME StagingInv, [StagingNext]_stagingVars
             PROVE  BeforeListeners'
  OBVIOUS
<1> USE DEF dirVars, rmVars, sigVars, Turn, DeployGone, StagingInv,
      BeforeListeners, Procs
<1>1. CASE MakeFolder
  BY <1>1 DEF MakeFolder
<1>2. CASE Install
  BY <1>2 DEF Install
<1>3. CASE StageNext
  BY <1>3 DEF StageNext
<1>4. CASE StartHook
  BY <1>4 DEF StartHook
<1>5. CASE StartTransfer
  BY <1>5 DEF StartTransfer
<1>6. CASE ChildSettled
  BY <1>6 DEF ChildSettled
<1>7. CASE Finally
  BY <1>7 DEF Finally
<1>8. CASE HandlerStarts
  BY <1>8 DEF HandlerStarts
<1>9. CASE SendTerm
  BY <1>9 DEF SendTerm
<1>10. CASE SendKill
  BY <1>10 DEF SendKill
<1>11. CASE RmList
  BY <1>11 DEF RmList
<1>12. CASE RmUnlink
  BY <1>12 DEF RmUnlink
<1>13. CASE RmDir
  BY <1>13 DEF RmDir
<1>14. CASE RmEnd
  BY <1>14 DEF RmEnd
<1>15. CASE OpLands
  BY <1>15 DEF OpLands
<1>16. CASE LeadsGroup
  BY <1>16 DEF LeadsGroup
<1>17. CASE HookStartsHelper
  BY <1>17 DEF HookStartsHelper
<1>18. CASE HookWrites
  BY <1>18 DEF HookWrites
<1>19. CASE SignalComes
  BY <1>19 DEF SignalComes
<1>20. ASSUME NEW p \in Procs, ProcExits(p) PROVE BeforeListeners'
  BY <1>20 DEF ProcExits
<1>21. CASE UNCHANGED stagingVars
  BY <1>21 DEF stagingVars
<1> QED
  BY <1>1, <1>2, <1>3, <1>4, <1>5, <1>6, <1>7, <1>8, <1>9, <1>10, <1>11,
       <1>12, <1>13, <1>14, <1>15, <1>16, <1>17, <1>18, <1>19, <1>20, <1>21
       DEF StagingNext, DeployRuns, HandlerRuns, OthersRun

(* Nobody is alive beside the deploy's own code, and behind a kill.        *)
LEMMA StagingQuiet == StagingInv /\ [StagingNext]_stagingVars => Quiet'
<1> SUFFICES ASSUME StagingInv, [StagingNext]_stagingVars
             PROVE  Quiet'
  OBVIOUS
<1> USE DEF dirVars, rmVars, sigVars, Turn, DeployGone, StagingInv, Quiet,
      BeforeListeners, Alive, Procs, Reached, Removing, StagingSets
<1>1. CASE MakeFolder
  BY <1>1 DEF MakeFolder
<1>2. CASE Install
  BY <1>2 DEF Install
<1>3. CASE StageNext
  BY <1>3 DEF StageNext
<1>4. CASE StartHook
  BY <1>4 DEF StartHook
<1>5. CASE StartTransfer
  BY <1>5 DEF StartTransfer
<1>6. CASE ChildSettled
  BY <1>6 DEF ChildSettled
<1>7. CASE Finally
  BY <1>7 DEF Finally
<1>8. CASE HandlerStarts
  BY <1>8 DEF HandlerStarts
<1>9. CASE SendTerm
  BY <1>9 DEF SendTerm
<1>10. CASE SendKill
  BY <1>10 DEF SendKill
<1>11. CASE RmList
  BY <1>11 DEF RmList
<1>12. CASE RmUnlink
  BY <1>12 DEF RmUnlink
<1>13. CASE RmDir
  BY <1>13 DEF RmDir
<1>14. CASE RmEnd
  BY <1>14 DEF RmEnd
<1>15. CASE OpLands
  BY <1>15 DEF OpLands
<1>16. CASE LeadsGroup
  BY <1>16 DEF LeadsGroup
<1>17. CASE HookStartsHelper
  BY <1>17 DEF HookStartsHelper
<1>18. CASE HookWrites
  BY <1>18 DEF HookWrites
<1>19. CASE SignalComes
  BY <1>19 DEF SignalComes
<1>20. ASSUME NEW p \in Procs, ProcExits(p) PROVE Quiet'
  BY <1>20 DEF ProcExits
<1>21. CASE UNCHANGED stagingVars
  BY <1>21 DEF stagingVars
<1> QED
  BY <1>1, <1>2, <1>3, <1>4, <1>5, <1>6, <1>7, <1>8, <1>9, <1>10, <1>11,
       <1>12, <1>13, <1>14, <1>15, <1>16, <1>17, <1>18, <1>19, <1>20, <1>21
       DEF StagingNext, DeployRuns, HandlerRuns, OthersRun

(* An operation that lands late lands once.                                *)
LEMMA StagingLate == StagingInv /\ [StagingNext]_stagingVars => LateOnce'
<1> SUFFICES ASSUME StagingInv, [StagingNext]_stagingVars
             PROVE  LateOnce'
  OBVIOUS
<1> USE DEF dirVars, rmVars, sigVars, Turn, DeployGone, StagingInv, LateOnce,
      Quiet, BeforeListeners, Removing, Alive, Procs, StagingSets
<1>1. CASE MakeFolder
  BY <1>1 DEF MakeFolder
<1>2. CASE Install
  BY <1>2 DEF Install
<1>3. CASE StageNext
  BY <1>3 DEF StageNext
<1>4. CASE StartHook
  BY <1>4 DEF StartHook
<1>5. CASE StartTransfer
  BY <1>5 DEF StartTransfer
<1>6. CASE ChildSettled
  BY <1>6 DEF ChildSettled
<1>7. CASE Finally
  BY <1>7 DEF Finally
<1>8. CASE HandlerStarts
  BY <1>8 DEF HandlerStarts
<1>9. CASE SendTerm
  BY <1>9 DEF SendTerm
<1>10. CASE SendKill
  BY <1>10 DEF SendKill
<1>11. CASE RmList
  BY <1>11 DEF RmList
<1>12. CASE RmUnlink
  BY <1>12 DEF RmUnlink
<1>13. CASE RmDir
  BY <1>13 DEF RmDir
<1>14. CASE RmEnd
  BY <1>14 DEF RmEnd
<1>15. CASE OpLands
  BY <1>15 DEF OpLands
<1>16. CASE LeadsGroup
  BY <1>16 DEF LeadsGroup
<1>17. CASE HookStartsHelper
  BY <1>17 DEF HookStartsHelper
<1>18. CASE HookWrites
  BY <1>18 DEF HookWrites
<1>19. CASE SignalComes
  BY <1>19 DEF SignalComes
<1>20. ASSUME NEW p \in Procs, ProcExits(p) PROVE LateOnce'
  BY <1>20 DEF ProcExits
<1>21. CASE UNCHANGED stagingVars
  BY <1>21 DEF stagingVars
<1> QED
  BY <1>1, <1>2, <1>3, <1>4, <1>5, <1>6, <1>7, <1>8, <1>9, <1>10, <1>11,
       <1>12, <1>13, <1>14, <1>15, <1>16, <1>17, <1>18, <1>19, <1>20, <1>21
       DEF StagingNext, DeployRuns, HandlerRuns, OthersRun

(* Behind the removal nobody writes.                                       *)
LEMMA StagingEmpty == StagingInv /\ [StagingNext]_stagingVars => EmptyBehind'
<1> SUFFICES ASSUME StagingInv, [StagingNext]_stagingVars
             PROVE  EmptyBehind'
  OBVIOUS
<1> USE DEF dirVars, rmVars, sigVars, Turn, DeployGone, StagingInv,
      EmptyBehind, Quiet, BeforeListeners, Removing, Alive, Procs,
      FolderHolds
<1>1. CASE MakeFolder
  BY <1>1 DEF MakeFolder
<1>2. CASE Install
  BY <1>2 DEF Install
<1>3. CASE StageNext
  BY <1>3 DEF StageNext
<1>4. CASE StartHook
  BY <1>4 DEF StartHook
<1>5. CASE StartTransfer
  BY <1>5 DEF StartTransfer
<1>6. CASE ChildSettled
  BY <1>6 DEF ChildSettled
<1>7. CASE Finally
  BY <1>7 DEF Finally
<1>8. CASE HandlerStarts
  BY <1>8 DEF HandlerStarts
<1>9. CASE SendTerm
  BY <1>9 DEF SendTerm
<1>10. CASE SendKill
  BY <1>10 DEF SendKill
<1>11. CASE RmList
  BY <1>11 DEF RmList
<1>12. CASE RmUnlink
  BY <1>12 DEF RmUnlink
<1>13. CASE RmDir
  BY <1>13 DEF RmDir
<1>14. CASE RmEnd
  BY <1>14 DEF RmEnd
<1>15. CASE OpLands
  BY <1>15 DEF OpLands
<1>16. CASE LeadsGroup
  BY <1>16 DEF LeadsGroup
<1>17. CASE HookStartsHelper
  BY <1>17 DEF HookStartsHelper
<1>18. CASE HookWrites
  BY <1>18 DEF HookWrites
<1>19. CASE SignalComes
  BY <1>19 DEF SignalComes
<1>20. ASSUME NEW p \in Procs, ProcExits(p) PROVE EmptyBehind'
  BY <1>20 DEF ProcExits
<1>21. CASE UNCHANGED stagingVars
  BY <1>21 DEF stagingVars
<1> QED
  BY <1>1, <1>2, <1>3, <1>4, <1>5, <1>6, <1>7, <1>8, <1>9, <1>10, <1>11,
       <1>12, <1>13, <1>14, <1>15, <1>16, <1>17, <1>18, <1>19, <1>20, <1>21
       DEF StagingNext, DeployRuns, HandlerRuns, OthersRun

(* A third attempt is one of a process out of reach.                       *)
LEMMA StagingWarns ==
  StagingInv /\ [StagingNext]_stagingVars => WarnsOnlyOfStrays'
<1> SUFFICES ASSUME StagingInv, [StagingNext]_stagingVars
             PROVE  WarnsOnlyOfStrays'
  OBVIOUS
<1> USE DEF dirVars, rmVars, sigVars, Turn, DeployGone, StagingInv, LateOnce,
      WarnsOnlyOfStrays, StagingSets
<1>1. CASE MakeFolder
  BY <1>1 DEF MakeFolder
<1>2. CASE Install
  BY <1>2 DEF Install
<1>3. CASE StageNext
  BY <1>3 DEF StageNext
<1>4. CASE StartHook
  BY <1>4 DEF StartHook
<1>5. CASE StartTransfer
  BY <1>5 DEF StartTransfer
<1>6. CASE ChildSettled
  BY <1>6 DEF ChildSettled
<1>7. CASE Finally
  BY <1>7 DEF Finally
<1>8. CASE HandlerStarts
  BY <1>8 DEF HandlerStarts
<1>9. CASE SendTerm
  BY <1>9 DEF SendTerm
<1>10. CASE SendKill
  BY <1>10 DEF SendKill
<1>11. CASE RmList
  BY <1>11 DEF RmList
<1>12. CASE RmUnlink
  BY <1>12 DEF RmUnlink
<1>13. CASE RmDir
  <2>1. handler = "rmdir" /\ groupKill' = groupKill
    BY <1>13 DEF RmDir
  <2>2. groupKill /\ entries # {} => attempt # 3
    BY <2>1
  <2>3. warned' => warned \/ (entries # {} /\ attempt = 3)
    BY <1>13 DEF RmDir
  <2> QED
    BY <2>1, <2>2, <2>3
<1>14. CASE RmEnd
  BY <1>14 DEF RmEnd
<1>15. CASE OpLands
  BY <1>15 DEF OpLands
<1>16. CASE LeadsGroup
  BY <1>16 DEF LeadsGroup
<1>17. CASE HookStartsHelper
  BY <1>17 DEF HookStartsHelper
<1>18. CASE HookWrites
  BY <1>18 DEF HookWrites
<1>19. CASE SignalComes
  BY <1>19 DEF SignalComes
<1>20. ASSUME NEW p \in Procs, ProcExits(p) PROVE WarnsOnlyOfStrays'
  BY <1>20 DEF ProcExits
<1>21. CASE UNCHANGED stagingVars
  BY <1>21 DEF stagingVars
<1> QED
  BY <1>1, <1>2, <1>3, <1>4, <1>5, <1>6, <1>7, <1>8, <1>9, <1>10, <1>11,
       <1>12, <1>13, <1>14, <1>15, <1>16, <1>17, <1>18, <1>19, <1>20, <1>21
       DEF StagingNext, DeployRuns, HandlerRuns, OthersRun

(* The parts of the types are the types.                                   *)
LEMMA StagingParts ==
  StagingTypeOK <=> StagingSets /\ StagingFlags /\ FolderHolds
BY Zenon DEF StagingTypeOK, StagingSets, StagingFlags, FolderHolds

(* A deploy starts without a folder, a process or a signal.                *)
LEMMA StagingStarts == StagingInit => StagingInv
<1> SUFFICES ASSUME StagingInit PROVE StagingInv
  OBVIOUS
<1>1. StagingFlags
  BY Zenon DEF StagingInit, StagingFlags
<1>2. StagingSets /\ FolderHolds /\ \A p \in Procs : proc[p] = "none"
  BY DEF StagingInit, StagingSets, FolderHolds, Procs
<1>3. BeforeListeners
  BY <1>2, Zenon DEF StagingInit, BeforeListeners, DeployGone
<1>4. Quiet /\ LateOnce /\ EmptyBehind /\ WarnsOnlyOfStrays
  BY <1>2
     DEF StagingInit, Quiet, LateOnce, EmptyBehind, WarnsOnlyOfStrays, Alive,
         Procs, DeployGone, Removing
<1> QED
  BY <1>1, <1>2, <1>3, <1>4 DEF StagingInv

(* The conjuncts of the invariant, one step further.                       *)
LEMMA StagingStep == StagingInv /\ [StagingNext]_stagingVars => StagingInv'
BY StagingNumbers, StagingTruths, StagingFolder, StagingBefore, StagingQuiet,
   StagingLate, StagingEmpty, StagingWarns DEF StagingInv

(* A deploy that is over, by itself or by a signal between any two steps,  *)
(* has left no copy of a secret without saying so; with process groups it  *)
(* has left no process either, and never has to say so.                    *)
THEOREM DeployCleansUp ==
  StagingInit /\ [][StagingNext]_stagingVars =>
    [](SecretsGone /\ WarnsOnlyOfStrays /\ NoStrays /\ StagingTypeOK)
<1>1. StagingInv => SecretsGone /\ WarnsOnlyOfStrays /\ NoStrays
  BY DEF StagingInv, EmptyBehind, Quiet, SecretsGone, NoStrays
<1>2. StagingInv => StagingTypeOK
  BY StagingParts DEF StagingInv
<1> QED
  BY <1>1, <1>2, StagingStarts, StagingStep, PTL
-----------------------------------------------------------------------------
(* Volumes, step by step.                                                  *)

(* A later deploy finds the folders as they are.                           *)
LEMMA Starting ==
  Start =>
    /\ vpc = "idle" /\ vpc' = "preflight" /\ swapped' = {}
    /\ deploys < MaxDeploys /\ deploys' = deploys + 1
    /\ UNCHANGED <<todo, now, real, sub, made, torn, strays, swaps>>
    /\ deploys # 0 => UNCHANGED <<role, kind, leads, owner, sudo, base>>
BY Zenon DEF Start, placeVars, loopVars

(* A container writes where no script has made an owner's folder.          *)
LEMMA Writing ==
  VolumesInv /\ ContainerWrites =>
    /\ vpc = "idle" /\ deploys > 0
    /\ \A n \in Nodes : role[n] = "owned" => kind'[n] = kind[n]
                                           /\ owner'[n] = owner[n]
    /\ kind' \in [Nodes -> {"missing", "dir", "file", "link"}]
    /\ owner' \in [Nodes -> Owners]
    /\ UNCHANGED <<role, leads, sudo, base, vpc, todo, now, real, sub, deploys,
                   made, torn, swapped, strays, swaps>>
BY DEF ContainerWrites, VolumesInv, VolumesTypeOK, Owners, loopVars, traceVars

(* What a link put in the place of something takes away with it, and whose *)
(* path it leads elsewhere; every other path leads to what is left.        *)
SwapsOut(gone, moved) ==
  /\ (vpc = "idle" /\ deploys > 0) \/ (vpc = "script" /\ sub = "again")
  /\ UNCHANGED <<role, sudo, base, todo, now, real, sub, vpc, deploys>>
  /\ \A m \in Nodes \ gone : kind'[m] = kind[m] /\ owner'[m] = owner[m]
  /\ \A m \in Nodes \ moved : leads'[m] = leads[m] /\ leads[m] \notin gone
  /\ \A m \in moved : leads'[m] # m
  /\ made' = made \ gone /\ torn' = torn \ gone
  /\ swapped' = swapped \cup moved
  /\ strays' \subseteq strays /\ gone \subseteq moved
  /\ \A m \in Nodes \ gone, w \in Owners :
       <<m, w>> \in strays => <<m, w>> \in strays'
  /\ kind' \in [Nodes -> {"missing", "dir", "file", "link"}]
  /\ owner' \in [Nodes -> Owners]
  /\ leads' \in [Nodes -> Nodes \cup {Outside}]
  /\ swaps' \in 0..MaxSwaps

(* So does every such link.                                                *)
LEMMA Swapping ==
  VolumesInv /\ SwapIn =>
    \E gone \in SUBSET Nodes, moved \in SUBSET Nodes : SwapsOut(gone, moved)
<1> SUFFICES ASSUME VolumesInv, SwapIn
             PROVE  \E gone \in SUBSET Nodes, moved \in SUBSET Nodes :
                      SwapsOut(gone, moved)
  OBVIOUS
<1>1. PICK n \in Nodes :
        LET gone == {n} \cup Inside(n)
            moved == gone \cup {m \in Nodes : leads[m] \in gone}
        IN  /\ kind' = [m \in Nodes |-> IF m = n THEN "link"
                                        ELSE IF m \in gone THEN "missing"
                                        ELSE kind[m]]
            /\ owner' = [m \in Nodes |->
                           IF m \in gone THEN "root" ELSE owner[m]]
            /\ leads' \in [Nodes -> Nodes \cup {Outside}]
            /\ \A m \in Nodes : IF m \in moved THEN leads'[m] # m
                               ELSE leads'[m] = leads[m]
            /\ made' = made \ gone /\ torn' = torn \ gone
            /\ swapped' = swapped \cup moved
            /\ strays' = {x \in strays : x[1] \notin gone}
  BY Zenon DEF SwapIn
<1> DEFINE gone == {n} \cup Inside(n)
           moved == gone \cup {m \in Nodes : leads[m] \in gone}
<1>2. gone \in SUBSET Nodes /\ moved \in SUBSET Nodes /\ gone \subseteq moved
  BY DEF Inside
<1>3. /\ kind' = [m \in Nodes |-> IF m = n THEN "link"
                                  ELSE IF m \in gone THEN "missing"
                                  ELSE kind[m]]
      /\ owner' = [m \in Nodes |-> IF m \in gone THEN "root" ELSE owner[m]]
      /\ leads' \in [Nodes -> Nodes \cup {Outside}]
      /\ \A m \in Nodes : IF m \in moved THEN leads'[m] # m
                         ELSE leads'[m] = leads[m]
      /\ made' = made \ gone /\ torn' = torn \ gone
      /\ swapped' = swapped \cup moved
      /\ strays' = {x \in strays : x[1] \notin gone}
  BY <1>1
<1>4. \A m \in Nodes \ moved : leads[m] \notin gone
  OBVIOUS
<1>5. n \in gone
  OBVIOUS
<1> HIDE DEF gone, moved
<1>6. /\ (vpc = "idle" /\ deploys > 0) \/ (vpc = "script" /\ sub = "again")
      /\ UNCHANGED <<role, sudo, base, todo, now, real, sub, vpc, deploys>>
      /\ swaps < MaxSwaps /\ swaps' = swaps + 1
  BY Zenon DEF SwapIn, loopVars
<1>10. swaps' \in 0..MaxSwaps
  BY <1>6, VolumesBound DEF VolumesInv, VolumesTypeOK, VolumesBound
<1>7. /\ \A m \in Nodes \ gone : kind'[m] = kind[m] /\ owner'[m] = owner[m]
      /\ \A m \in Nodes \ moved : leads'[m] = leads[m] /\ leads[m] \notin gone
      /\ \A m \in moved : leads'[m] # m
  BY <1>2, <1>3, <1>4, <1>5
<1>8. /\ kind' \in [Nodes -> {"missing", "dir", "file", "link"}]
      /\ owner' \in [Nodes -> Owners]
  BY <1>3 DEF VolumesInv, VolumesTypeOK, Owners
<1>9. /\ strays' \subseteq strays
      /\ \A m \in Nodes \ gone, w \in Owners :
           <<m, w>> \in strays => <<m, w>> \in strays'
  BY <1>3
<1> QED
  BY <1>2, <1>3, <1>6, <1>7, <1>8, <1>9, <1>10 DEF SwapsOut

(* The folders and the script keep their types.                            *)
LEMMA VolumesTypes == VolumesInv /\ [VolumesNext]_volumeVars => VolumesTypeOK'
<1> SUFFICES ASSUME VolumesInv, [VolumesNext]_volumeVars
             PROVE  VolumesTypeOK'
  OBVIOUS
<1> USE AboveType, VolumesBound DEF VolumesInv, AboveType, VolumesBound,
      placeVars, loopVars, traceVars, VolumesTypeOK, Roles, Owners, Folders,
      OneFolder
<1>1. CASE Start
  <2>1. CASE deploys = 0
    <3>1. kind' \in [Nodes -> {"missing", "dir", "file", "link"}]
          /\ owner' \in [Nodes -> {"root", "ids"}]
          /\ role' \in [Nodes -> {"none", "plain", "kept", "owned", "file"}]
          /\ leads' \in [Nodes -> Nodes \cup {Outside}]
      BY <1>1, <2>1, Zenon DEF Start, Found, Roles
    <3>2. owner' \in [Nodes -> {"root", "ids", "own", "other"}]
      BY <3>1
    <3>3. sudo' \in {"root", "sudo", "denied"} /\ base' \in BOOLEAN
      BY <1>1, <2>1, Zenon DEF Start, Found
    <3>4. deploys' \in 0..MaxDeploys
      BY <1>1, Starting
    <3> QED
      BY <1>1, <3>1, <3>2, <3>3, <3>4, Starting
  <2>2. CASE deploys # 0
    BY <1>1, <2>2, Starting
  <2> QED
    BY <2>1, <2>2
<1>2. CASE Preflight
  BY <1>2 DEF Preflight
<1>3. CASE PreflightStops
  BY <1>3 DEF PreflightStops
<1>4. CASE RefusePaths
  BY <1>4 DEF RefusePaths
<1>5. CASE StartScript
  BY <1>5 DEF StartScript
<1>6. CASE SkipFolder
  BY <1>6 DEF SkipFolder
<1>7. CASE OpenFolder
  BY <1>7 DEF OpenFolder
<1>8. CASE Mkdir
  BY <1>8 DEF Mkdir
<1>9. CASE ResolveAgain
  BY <1>9 DEF ResolveAgain, Resolves
<1>10. CASE Chown
  BY <1>10 DEF Chown, Inside
<1>11. CASE ScriptBreaks
  BY <1>11 DEF ScriptBreaks
<1>12. CASE ScriptDone
  BY <1>12 DEF ScriptDone
<1>13. CASE ContainerWrites
  BY <1>13, Writing
<1>14. CASE SwapIn
  <2>1. PICK gone \in SUBSET Nodes, moved \in SUBSET Nodes :
               SwapsOut(gone, moved)
    BY <1>14, Swapping
  <2> QED
    BY <2>1 DEF SwapsOut
<1>15. CASE DeployAgain
  BY <1>15 DEF DeployAgain
<1>16. CASE UNCHANGED volumeVars
  BY <1>16 DEF volumeVars
<1> QED
  BY <1>1, <1>2, <1>3, <1>4, <1>5, <1>6, <1>7, <1>8, <1>9, <1>10, <1>11,
       <1>12, <1>13, <1>14, <1>15, <1>16 DEF VolumesNext, ScriptCommands

(* A script goes on where nothing was refused.                             *)
LEMMA VolumesMay == VolumesInv /\ [VolumesNext]_volumeVars => ScriptMayRun'
<1> SUFFICES ASSUME VolumesInv, [VolumesNext]_volumeVars
             PROVE  ScriptMayRun'
  OBVIOUS
<1> USE AboveType, VolumesBound DEF VolumesInv, AboveType, VolumesBound,
      placeVars, loopVars, traceVars, ScriptMayRun, Mounts, VolumesTypeOK,
      Outside
<1>1. CASE Start
  BY <1>1, Starting
<1>2. CASE Preflight
  BY <1>2 DEF Preflight
<1>3. CASE PreflightStops
  BY <1>3 DEF PreflightStops
<1>4. CASE RefusePaths
  BY <1>4 DEF RefusePaths
<1>5. CASE StartScript
  BY <1>5 DEF StartScript, NoMount
<1>6. CASE SkipFolder
  BY <1>6 DEF SkipFolder
<1>7. CASE OpenFolder
  BY <1>7 DEF OpenFolder
<1>8. CASE Mkdir
  BY <1>8 DEF Mkdir
<1>9. CASE ResolveAgain
  BY <1>9 DEF ResolveAgain
<1>10. CASE Chown
  BY <1>10 DEF Chown
<1>11. CASE ScriptBreaks
  BY <1>11 DEF ScriptBreaks
<1>12. CASE ScriptDone
  BY <1>12 DEF ScriptDone
<1>13. CASE ContainerWrites
  BY <1>13, Writing
<1>14. CASE SwapIn
  <2>1. PICK gone \in SUBSET Nodes, moved \in SUBSET Nodes :
               SwapsOut(gone, moved)
    BY <1>14, Swapping
  <2> QED
    BY <2>1 DEF SwapsOut
<1>15. CASE DeployAgain
  BY <1>15 DEF DeployAgain
<1>16. CASE UNCHANGED volumeVars
  BY <1>16 DEF volumeVars
<1> QED
  BY <1>1, <1>2, <1>3, <1>4, <1>5, <1>6, <1>7, <1>8, <1>9, <1>10, <1>11,
       <1>12, <1>13, <1>14, <1>15, <1>16 DEF VolumesNext, ScriptCommands

(* A script works on one folder at a time.                                 *)
LEMMA VolumesOne == VolumesInv /\ [VolumesNext]_volumeVars => OneFolder'
<1> SUFFICES ASSUME VolumesInv, [VolumesNext]_volumeVars
             PROVE  OneFolder'
  OBVIOUS
<1> USE AboveType, VolumesBound DEF VolumesInv, AboveType, VolumesBound,
      placeVars, loopVars, traceVars, OneFolder, VolumesTypeOK, Folders,
      Resolves, NoNode
<1>1. CASE Start
  BY <1>1, Starting DEF MadeAreOwned
<1>2. CASE Preflight
  BY <1>2 DEF Preflight
<1>3. CASE PreflightStops
  BY <1>3 DEF PreflightStops
<1>4. CASE RefusePaths
  BY <1>4 DEF RefusePaths
<1>5. CASE StartScript
  BY <1>5 DEF StartScript
<1>6. CASE SkipFolder
  BY <1>6 DEF SkipFolder
<1>7. CASE OpenFolder
  BY <1>7 DEF OpenFolder
<1>8. CASE Mkdir
  BY <1>8 DEF Mkdir
<1>9. CASE ResolveAgain
  BY <1>9 DEF ResolveAgain
<1>10. CASE Chown
  BY <1>10 DEF Chown
<1>11. CASE ScriptBreaks
  BY <1>11 DEF ScriptBreaks
<1>12. CASE ScriptDone
  BY <1>12 DEF ScriptDone
<1>13. CASE ContainerWrites
  BY <1>13, Writing
<1>14. CASE SwapIn
  <2>1. PICK gone \in SUBSET Nodes, moved \in SUBSET Nodes :
               SwapsOut(gone, moved)
    BY <1>14, Swapping
  <2> QED
    BY <2>1 DEF SwapsOut
<1>15. CASE DeployAgain
  BY <1>15 DEF DeployAgain
<1>16. CASE UNCHANGED volumeVars
  BY <1>16 DEF volumeVars
<1> QED
  BY <1>1, <1>2, <1>3, <1>4, <1>5, <1>6, <1>7, <1>8, <1>9, <1>10, <1>11,
       <1>12, <1>13, <1>14, <1>15, <1>16 DEF VolumesNext, ScriptCommands

(* An owned folder is made where none of the others lies.                  *)
LEMMA VolumesNew == VolumesInv /\ [VolumesNext]_volumeVars => OwnedIsNew'
<1> SUFFICES ASSUME VolumesInv, [VolumesNext]_volumeVars
             PROVE  OwnedIsNew'
  OBVIOUS
<1> USE AboveType, VolumesBound DEF VolumesInv, AboveType, VolumesBound,
      placeVars, loopVars, traceVars, OwnedIsNew, OneFolder, Behind, Folders,
      VolumesTypeOK, NoNode
<1>1. CASE Start
  BY <1>1, Starting DEF MadeAreOwned
<1>2. CASE Preflight
  BY <1>2 DEF Preflight
<1>3. CASE PreflightStops
  BY <1>3 DEF PreflightStops
<1>4. CASE RefusePaths
  BY <1>4 DEF RefusePaths
<1>5. CASE StartScript
  BY <1>5 DEF StartScript
<1>6. CASE SkipFolder
  BY <1>6 DEF SkipFolder
<1>7. CASE OpenFolder
  BY <1>7 DEF OpenFolder, Ready, Resolves
<1>8. CASE Mkdir
  <2>1. vpc = "script" /\ sub = "mkdir" /\ sub' = "again" /\ now \in Folders
    BY <1>8 DEF Mkdir
  <2>2. UNCHANGED <<now, real, role, leads, todo, swapped>>
    BY <1>8 DEF Mkdir
  <2>3. role[now] = "owned" /\ real = now => now \in made'
    BY <1>8 DEF Mkdir
  <2>4. ASSUME role[now] = "owned", real = now, NEW n \in Nodes, Behind(n)'
        PROVE  leads[n] # now
    <3>1. kind[now] = "missing" /\ Behind(n) /\ now # Outside
      BY <2>1, <2>2, <2>4 DEF Outside
    <3> QED
      BY <2>1, <2>4, <3>1 DEF FoldersBehind, FolderOk
  <2> QED
    BY <2>1, <2>2, <2>3, <2>4
<1>9. CASE ResolveAgain
  BY <1>9 DEF ResolveAgain
<1>10. CASE Chown
  BY <1>10 DEF Chown
<1>11. CASE ScriptBreaks
  BY <1>11 DEF ScriptBreaks
<1>12. CASE ScriptDone
  BY <1>12 DEF ScriptDone
<1>13. CASE ContainerWrites
  BY <1>13, Writing
<1>14. CASE SwapIn
  <2>1. PICK gone \in SUBSET Nodes, moved \in SUBSET Nodes :
               SwapsOut(gone, moved)
    BY <1>14, Swapping
  <2> QED
    BY <2>1 DEF SwapsOut
<1>15. CASE DeployAgain
  BY <1>15 DEF DeployAgain
<1>16. CASE UNCHANGED volumeVars
  BY <1>16 DEF volumeVars
<1> QED
  BY <1>1, <1>2, <1>3, <1>4, <1>5, <1>6, <1>7, <1>8, <1>9, <1>10, <1>11,
       <1>12, <1>13, <1>14, <1>15, <1>16 DEF VolumesNext, ScriptCommands

(* What a script has made is given to its owner, or torn.                  *)
LEMMA VolumesMade == VolumesInv /\ [VolumesNext]_volumeVars => MadeAreOwned'
<1> SUFFICES ASSUME VolumesInv, [VolumesNext]_volumeVars
             PROVE  MadeAreOwned'
  OBVIOUS
<1> USE AboveType, VolumesBound DEF VolumesInv, AboveType, VolumesBound,
      placeVars, loopVars, traceVars, OneFolder, MadeAreOwned, VolumesTypeOK,
      NoNode, Folders
<1>1. CASE Start
  <2>1. CASE deploys = 0
    BY <1>1, <2>1, Starting
  <2>2. CASE deploys # 0
    BY <1>1, <2>2, Starting
  <2> QED
    BY <2>1, <2>2
<1>2. CASE Preflight
  BY <1>2 DEF Preflight
<1>3. CASE PreflightStops
  BY <1>3 DEF PreflightStops
<1>4. CASE RefusePaths
  BY <1>4 DEF RefusePaths
<1>5. CASE StartScript
  BY <1>5 DEF StartScript
<1>6. CASE SkipFolder
  BY <1>6 DEF SkipFolder
<1>7. CASE OpenFolder
  BY <1>7 DEF OpenFolder
<1>8. CASE Mkdir
  BY <1>8 DEF Mkdir, Resolves
<1>9. CASE ResolveAgain
  BY <1>9 DEF ResolveAgain
<1>10. CASE Chown
  <2>1. /\ now \in Nodes /\ role[now] \in {"plain", "owned"}
        /\ vpc = "script" /\ real \in Nodes
    BY <1>10 DEF Chown
  <2>2. UNCHANGED <<role, kind, made, torn, deploys, vpc>>
    BY <1>10 DEF Chown
  <2>3. ASSUME NEW p \in made \ torn
        PROVE  owner'[p] = "own" \/ <<p, "ids">> \in strays'
    <3>1. p \in Nodes /\ role[p] = "owned" /\ kind[p] = "dir"
      BY <2>3
    <3>2. CASE role[now] = "owned"
      BY <1>10, <2>1, <3>1, <3>2 DEF Chown
    <3>3. CASE role[now] = "plain" /\ real = now
      <4>1. p # now /\ p \notin Inside(now)
        BY <2>1, <3>1, <3>3
           DEF ScriptMayRun, KeepOwnerClash, Kept, Volume, Inside
      <4> QED
        BY <1>10, <3>1, <3>3, <4>1 DEF Chown
    <3>4. CASE role[now] = "plain" /\ real # now
      <4>1. CASE p \in {real} \cup Inside(real)
        BY <1>10, <3>1, <3>4, <4>1 DEF Chown
      <4>2. CASE p \notin {real} \cup Inside(real)
        BY <1>10, <3>1, <3>4, <4>2 DEF Chown
      <4> QED
        BY <4>1, <4>2
    <3> QED
      BY <2>1, <3>2, <3>3, <3>4
  <2> QED
    BY <2>1, <2>2, <2>3
<1>11. CASE ScriptBreaks
  BY <1>11 DEF ScriptBreaks
<1>12. CASE ScriptDone
  BY <1>12 DEF ScriptDone
<1>13. CASE ContainerWrites
  BY <1>13, Writing
<1>14. CASE SwapIn
  <2>1. PICK gone \in SUBSET Nodes, moved \in SUBSET Nodes :
               SwapsOut(gone, moved)
    BY <1>14, Swapping
  <2> QED
    BY <2>1 DEF SwapsOut, Owners
<1>15. CASE DeployAgain
  BY <1>15 DEF DeployAgain
<1>16. CASE UNCHANGED volumeVars
  BY <1>16 DEF volumeVars
<1> QED
  BY <1>1, <1>2, <1>3, <1>4, <1>5, <1>6, <1>7, <1>8, <1>9, <1>10, <1>11,
       <1>12, <1>13, <1>14, <1>15, <1>16 DEF VolumesNext, ScriptCommands

(* The folders behind the script stay as they should be.                   *)
LEMMA VolumesBehind ==
  VolumesInv /\ [VolumesNext]_volumeVars => FoldersBehind'
<1> SUFFICES ASSUME VolumesInv, [VolumesNext]_volumeVars
             PROVE  FoldersBehind'
  OBVIOUS
<1> USE AboveType, VolumesBound DEF VolumesInv, AboveType, VolumesBound,
      placeVars, loopVars, traceVars, OneFolder, FoldersBehind, Behind,
      VolumesTypeOK, Folders, FolderOk, NoNode
<1>1. CASE Start
  BY <1>1, Starting
<1>2. CASE Preflight
  BY <1>2 DEF Preflight
<1>3. CASE PreflightStops
  BY <1>3 DEF PreflightStops
<1>4. CASE RefusePaths
  BY <1>4 DEF RefusePaths
<1>5. CASE StartScript
  BY <1>5 DEF StartScript
<1>6. CASE SkipFolder
  BY <1>6 DEF SkipFolder, Ready, ReadyOutside
<1>7. CASE OpenFolder
  BY <1>7 DEF OpenFolder
<1>8. CASE Mkdir
  BY <1>8 DEF Mkdir, Resolves
<1>9. CASE ResolveAgain
  BY <1>9 DEF ResolveAgain
<1>10. CASE Chown
  <2>1. /\ now \in Nodes /\ role[now] \in {"plain", "owned"}
        /\ vpc = "script" /\ real \in Nodes /\ real = leads[now]
        /\ kind[real] = "dir"
    BY <1>10 DEF Chown
  <2>2. UNCHANGED <<role, kind, leads, todo, vpc, swapped>>
    BY <1>10 DEF Chown
  <2>3. ASSUME NEW n \in Nodes, Behind(n)' PROVE FolderOk(n)'
    <3>1. CASE n = now
      BY <1>10, <2>1, <2>2, <3>1 DEF Chown
    <3>2. CASE n # now
      <4>1. FolderOk(n) /\ leads[n] \in Nodes \cup {Outside}
        BY <2>1, <2>2, <2>3, <3>2
      <4>2. CASE role[now] = "plain"
        BY <1>10, <2>1, <2>2, <4>1, <4>2 DEF Chown
      <4>3. CASE role[now] = "owned" /\ real = now
        <5>1. leads[n] # real
          BY <2>1, <2>2, <2>3, <3>2, <4>3, <1>10 DEF OwnedIsNew, Chown
        <5> QED
          BY <1>10, <2>1, <2>2, <4>1, <4>3, <5>1 DEF Chown
      <4>4. CASE role[now] = "owned" /\ real # now
        BY <1>10, <2>1, <2>2, <4>1, <4>4 DEF Chown
      <4> QED
        BY <2>1, <4>2, <4>3, <4>4
    <3> QED
      BY <3>1, <3>2
  <2> QED
    BY <2>1, <2>2, <2>3
<1>11. CASE ScriptBreaks
  BY <1>11 DEF ScriptBreaks
<1>12. CASE ScriptDone
  BY <1>12 DEF ScriptDone
<1>13. CASE ContainerWrites
  BY <1>13, Writing
<1>14. CASE SwapIn
  <2>1. PICK gone \in SUBSET Nodes, moved \in SUBSET Nodes :
               SwapsOut(gone, moved)
    BY <1>14, Swapping
  <2>2. vpc' # "done" /\ vpc' = vpc /\ UNCHANGED <<role, todo, now>>
        /\ swapped' = swapped \cup moved
    BY <2>1 DEF SwapsOut
  <2>3. ASSUME NEW n \in Nodes, Behind(n)', vpc = "script"
        PROVE  FolderOk(n)'
    <3>1. FolderOk(n) /\ n \notin moved
      BY <2>2, <2>3
    <3>2. leads'[n] = leads[n] /\ leads[n] \notin gone /\ role' = role
      BY <2>1, <3>1 DEF SwapsOut
    <3>3. leads[n] \in Nodes =>
            /\ kind'[leads[n]] = kind[leads[n]]
            /\ owner'[leads[n]] = owner[leads[n]]
            /\ <<leads[n], "own">> \in strays =>
                 <<leads[n], "own">> \in strays'
      BY <2>1, <3>2 DEF SwapsOut, Owners
    <3> QED
      BY <3>1, <3>2, <3>3
  <2> QED
    BY <2>2, <2>3
<1>15. CASE DeployAgain
  BY <1>15 DEF DeployAgain
<1>16. CASE UNCHANGED volumeVars
  BY <1>16 DEF volumeVars
<1> QED
  BY <1>1, <1>2, <1>3, <1>4, <1>5, <1>6, <1>7, <1>8, <1>9, <1>10, <1>11,
       <1>12, <1>13, <1>14, <1>15, <1>16 DEF VolumesNext, ScriptCommands

(* No folder of a server is made or chowned before its first deploy.       *)
LEMMA VolumesStarts == VolumesInit => VolumesInv
<1> SUFFICES ASSUME VolumesInit PROVE VolumesInv
  OBVIOUS
<1>1. VolumesTypeOK
  <2>1. /\ role \in [Nodes -> Roles] /\ owner \in [Nodes -> Owners]
        /\ kind \in [Nodes -> {"missing", "dir", "file", "link"}]
        /\ leads \in [Nodes -> Nodes \cup {Outside}]
    BY DEF VolumesInit, Roles, Owners
  <2>2. sudo \in {"root", "sudo", "denied"} /\ base \in BOOLEAN
    BY Zenon DEF VolumesInit
  <2>3. deploys \in 0..MaxDeploys /\ swaps \in 0..MaxSwaps
    BY VolumesBound DEF VolumesInit, VolumesBound
  <2> QED
    BY <2>1, <2>2, <2>3 DEF VolumesInit, VolumesTypeOK
<1>2. ScriptMayRun /\ OneFolder /\ OwnedIsNew /\ MadeAreOwned /\ FoldersBehind
  BY DEF VolumesInit, ScriptMayRun, OneFolder, OwnedIsNew, MadeAreOwned,
         FoldersBehind, NoNode
<1> QED
  BY <1>1, <1>2 DEF VolumesInv

(* The conjuncts of the invariant, one step further.                       *)
LEMMA VolumesStep == VolumesInv /\ [VolumesNext]_volumeVars => VolumesInv'
BY VolumesTypes, VolumesMay, VolumesOne, VolumesNew, VolumesMade,
   VolumesBehind
   DEF VolumesInv

(* A plain folder that is chowned lies neither around a kept folder nor in *)
(* one: of two folders that a third is in, one is in the other.            *)
LEMMA ChownFromKept ==
  VolumesInv /\ vpc = "script" /\ now \in Nodes /\ role[now] = "plain" =>
    \A n \in {now} \cup Inside(now) : ({n} \cup Above[n]) \cap Kept(role) = {}
<1> SUFFICES ASSUME VolumesInv, vpc = "script", now \in Nodes,
                    role[now] = "plain", NEW n \in {now} \cup Inside(now),
                    NEW k \in ({n} \cup Above[n]) \cap Kept(role)
             PROVE  FALSE
  OBVIOUS
<1>1. k \in Nodes /\ k # now /\ n \in Nodes
  BY DEF Kept, Inside
<1>2. k \notin Above[now] /\ now \notin Above[k]
  BY <1>1 DEF VolumesInv, ScriptMayRun, KeepOwnerClash, Kept, Volume
<1>3. n # now /\ now \in Above[n]
  BY <1>1, <1>2 DEF Inside
<1>4. k # n /\ k \in Above[n]
  BY <1>1, <1>2, <1>3
<1> QED
  BY <1>1, <1>2, <1>3, <1>4, AboveType DEF AboveType

(* What a command of the script may do to a kept folder or a file mount,   *)
(* and what it may come to chown.                                          *)
KeptOne(n) ==
  /\ kind[n] # "missing" /\ ({n} \cup Above[n]) \cap Kept(role) # {}
       => \/ owner'[n] = owner[n] \/ (n = real /\ n \in made)
          \/ real # now
  /\ role[n] = "file" /\ n \notin swapped /\ leads[n] # Outside
       => kind'[leads[n]] = "file"
KeptStep ==
  ScriptCommands =>
    /\ \A n \in Nodes :
         /\ kind[n] # "missing" /\ ({n} \cup Above[n]) \cap Kept(role) # {}
              => \/ owner'[n] = owner[n] \/ (n = real /\ n \in made)
                 \/ real # now
         /\ role[n] = "file" /\ n \notin swapped /\ leads[n] # Outside
              => kind'[leads[n]] = "file"
    /\ sub' = "chown" => real' \in Nodes

(* The commands of the script, one by one.                                 *)
LEMMA KeptByCommands == VolumesInv => KeptStep
<1> USE DEF placeVars, loopVars, traceVars
<1>1. ASSUME VolumesInv, ScriptCommands, sub' = "chown"
      PROVE  real' \in Nodes
  BY <1>1 DEF ScriptCommands, SkipFolder, OpenFolder, Mkdir, ResolveAgain,
              Resolves, Chown, VolumesInv, OneFolder
<1>2. ASSUME VolumesInv, ScriptCommands, NEW n \in Nodes PROVE KeptOne(n)
  <2> USE DEF KeptOne
  <2>1. role[n] = "file" /\ n \notin swapped /\ leads[n] # Outside
          => kind[leads[n]] = "file" /\ leads[n] \in Nodes
    BY <1>2 DEF ScriptCommands, SkipFolder, OpenFolder, Mkdir, ResolveAgain,
                Chown, VolumesInv, ScriptMayRun, Mounts, VolumesTypeOK
  <2>2. CASE SkipFolder
    BY <1>2, <2>1, <2>2 DEF SkipFolder, VolumesInv, OneFolder
  <2>3. CASE OpenFolder
    BY <1>2, <2>1, <2>3 DEF OpenFolder
  <2>4. CASE Mkdir
    BY <1>2, <2>1, <2>4 DEF Mkdir, VolumesInv, VolumesTypeOK
  <2>5. CASE ResolveAgain
    BY <1>2, <2>1, <2>5 DEF ResolveAgain, Resolves
  <2>6. CASE Chown
    <3>1. now \in Nodes /\ role[now] \in {"plain", "owned"} /\ kind' = kind
          /\ sub' = "none" /\ vpc = "script" /\ real \in Nodes
          /\ real = leads[now]
      BY <1>2, <2>6 DEF Chown, VolumesInv, OneFolder, Folders, NoNode
    <3>2. CASE role[now] = "owned"
      BY <1>2, <2>1, <2>6, <3>1, <3>2
         DEF Chown, VolumesInv, OwnedIsNew, OneFolder, VolumesTypeOK, NoNode
    <3>3. CASE role[now] = "plain"
      <4>1. real = now /\ ({n} \cup Above[n]) \cap Kept(role) # {} =>
              n \notin {real} \cup Inside(real)
        BY <1>2, <3>1, <3>3, ChownFromKept
      <4> QED
        BY <1>2, <2>1, <2>6, <3>1, <3>3, <4>1 DEF Chown
    <3> QED
      BY <3>1, <3>2, <3>3
  <2> QED
    BY <1>2, <2>2, <2>3, <2>4, <2>5, <2>6 DEF ScriptCommands
<1> QED
  BY <1>1, <1>2 DEF KeptStep, KeptOne

(* Over any number of deploys, cut off anywhere and started again, with    *)
(* containers that write in between and links put anywhere: a deploy that  *)
(* ends well leaves every folder as it should be, and no script takes a    *)
(* kept folder from anybody, unless a link leads it there.                 *)
THEOREM FoldersKeepTheirOwners ==
  VolumesInit /\ [][VolumesNext]_volumeVars =>
    [](FoldersOwned /\ VolumesTypeOK) /\ KeptStaysKept
<1>1. VolumesInv => FoldersOwned /\ VolumesTypeOK
  BY DEF VolumesInv, FoldersOwned, FoldersBehind, FolderOk, MadeAreOwned,
         OneFolder
<1>2. KeptStaysKept <=> [][KeptStep]_volumeVars
  BY PTL DEF KeptStaysKept, KeptStep
<1> QED
  BY <1>1, <1>2, VolumesStarts, VolumesStep, KeptByCommands, PTL

-----------------------------------------------------------------------------
(* The offline drive, step by step.                                        *)

(* Repositories, places and counts keep their types.                       *)
LEMMA OdNumbers == OdSets /\ [OdNext]_odVars => OdSets'
<1> SUFFICES ASSUME OdSets, [OdNext]_odVars
             PROVE  OdSets'
  OBVIOUS
<1> USE OdBounds DEF askVars, diskVars, mountVars, OdBounds, OdSets,
      RepoStates, Held, NoTally
<1>1. CASE OdStart
  BY <1>1 DEF OdStart
<1>2. CASE OpenBackupDrive
  BY <1>2 DEF OpenBackupDrive
<1>3. CASE ConfirmErase
  BY <1>3 DEF ConfirmErase
<1>4. CASE OdRefused
  BY <1>4 DEF OdRefused
<1>5. CASE MakeTable
  BY <1>5 DEF MakeTable
<1>6. CASE MakeFilesystem
  BY <1>6 DEF MakeFilesystem
<1>7. CASE GuardBackup
  BY <1>7 DEF GuardBackup
<1>8. CASE TargetsOnDrive
  BY <1>8 DEF TargetsOnDrive
<1>9. CASE CopyRepo
  BY <1>9 DEF CopyRepo
<1>10. CASE Copied
  BY <1>10 DEF Copied
<1>11. CASE CheckRepo
  BY <1>11 DEF CheckRepo
<1>12. CASE Checked
  BY <1>12 DEF Checked
<1>13. CASE Release
  BY <1>13 DEF Release, Released
<1>14. CASE OdFails
  BY <1>14 DEF OdFails
<1>15. CASE LocalChanges
  BY <1>15 DEF LocalChanges
<1>16. CASE UNCHANGED odVars
  BY <1>16 DEF odVars
<1> QED
  BY <1>1, <1>2, <1>3, <1>4, <1>5, <1>6, <1>7, <1>8, <1>9, <1>10, <1>11,
       <1>12, <1>13, <1>14, <1>15, <1>16 DEF OdNext

(* What is true or false stays so.                                         *)
LEMMA OdTruths == OdFlags /\ [OdNext]_odVars => OdFlags'
<1> SUFFICES ASSUME OdFlags, [OdNext]_odVars
             PROVE  OdFlags'
  OBVIOUS
<1> USE DEF askVars, diskVars, mountVars, OdFlags
<1>1. CASE OdStart
  BY <1>1, Zenon DEF OdStart
<1>2. CASE OpenBackupDrive
  BY <1>2 DEF OpenBackupDrive
<1>3. CASE ConfirmErase
  BY <1>3 DEF ConfirmErase
<1>4. CASE OdRefused
  BY <1>4 DEF OdRefused
<1>5. CASE MakeTable
  BY <1>5 DEF MakeTable
<1>6. CASE MakeFilesystem
  BY <1>6 DEF MakeFilesystem
<1>7. CASE GuardBackup
  BY <1>7 DEF GuardBackup
<1>8. CASE TargetsOnDrive
  BY <1>8 DEF TargetsOnDrive
<1>9. CASE CopyRepo
  BY <1>9 DEF CopyRepo
<1>10. CASE Copied
  BY <1>10 DEF Copied
<1>11. CASE CheckRepo
  BY <1>11 DEF CheckRepo
<1>12. CASE Checked
  BY <1>12 DEF Checked
<1>13. CASE Release
  BY <1>13 DEF Release, Released
<1>14. CASE OdFails
  BY <1>14 DEF OdFails
<1>15. CASE LocalChanges
  BY <1>15 DEF LocalChanges
<1>16. CASE UNCHANGED odVars
  BY <1>16 DEF odVars
<1> QED
  BY <1>1, <1>2, <1>3, <1>4, <1>5, <1>6, <1>7, <1>8, <1>9, <1>10, <1>11,
       <1>12, <1>13, <1>14, <1>15, <1>16 DEF OdNext

(* The partition is mounted while a command works on it.                   *)
LEMMA OdMounted == OdInv /\ [OdNext]_odVars => MountedAsSaid'
<1> SUFFICES ASSUME OdInv, [OdNext]_odVars
             PROVE  MountedAsSaid'
  OBVIOUS
<1> USE DEF askVars, diskVars, mountVars, OdInv, MountedAsSaid, OdSets
<1>1. CASE OdStart
  BY <1>1 DEF OdStart
<1>2. CASE OpenBackupDrive
  BY <1>2 DEF OpenBackupDrive
<1>3. CASE ConfirmErase
  BY <1>3 DEF ConfirmErase
<1>4. CASE OdRefused
  BY <1>4 DEF OdRefused
<1>5. CASE MakeTable
  BY <1>5 DEF MakeTable
<1>6. CASE MakeFilesystem
  BY <1>6 DEF MakeFilesystem
<1>7. CASE GuardBackup
  BY <1>7 DEF GuardBackup
<1>8. CASE TargetsOnDrive
  BY <1>8 DEF TargetsOnDrive
<1>9. CASE CopyRepo
  BY <1>9 DEF CopyRepo
<1>10. CASE Copied
  BY <1>10 DEF Copied
<1>11. CASE CheckRepo
  BY <1>11 DEF CheckRepo
<1>12. CASE Checked
  BY <1>12 DEF Checked
<1>13. CASE Release
  <2>1. odAt' \in {"ok", "failed"} /\ before' = before /\ mountedAt
    BY <1>13 DEF Release, Released
  <2>2. CASE before
    <3>1. mountedAt' = mountedAt
      BY <1>13, <2>2, Zenon DEF Release, Released
    <3>2. mountedAt = before
      BY <2>1, <2>2, Zenon DEF OdFlags
    <3> QED
      BY <2>1, <3>1, <3>2
  <2>3. CASE ~before
    <3>1. mountedAt' = FALSE \/ stuck' = TRUE
      BY <1>13, <2>3, Zenon DEF Release, Released
    <3>2. before = FALSE
      BY <2>3, Zenon DEF OdFlags
    <3> QED
      BY <2>1, <3>1, <3>2
  <2> QED
    BY <2>2, <2>3
<1>14. CASE OdFails
  BY <1>14 DEF OdFails
<1>15. CASE LocalChanges
  BY <1>15 DEF LocalChanges
<1>16. CASE UNCHANGED odVars
  BY <1>16 DEF odVars
<1> QED
  BY <1>1, <1>2, <1>3, <1>4, <1>5, <1>6, <1>7, <1>8, <1>9, <1>10, <1>11,
       <1>12, <1>13, <1>14, <1>15, <1>16 DEF OdNext

(* A backup deletes what it has compared or asked for.                     *)
LEMMA OdCompared == OdInv /\ [OdNext]_odVars => ComparedFirst'
<1> SUFFICES ASSUME OdInv, [OdNext]_odVars
             PROVE  ComparedFirst'
  OBVIOUS
<1> USE DEF askVars, diskVars, mountVars, OdInv, ComparedFirst, OdSets, Held
<1>1. CASE OdStart
  BY <1>1 DEF OdStart
<1>2. CASE OpenBackupDrive
  BY <1>2 DEF OpenBackupDrive
<1>3. CASE ConfirmErase
  BY <1>3 DEF ConfirmErase
<1>4. CASE OdRefused
  BY <1>4 DEF OdRefused
<1>5. CASE MakeTable
  BY <1>5 DEF MakeTable
<1>6. CASE MakeFilesystem
  BY <1>6 DEF MakeFilesystem
<1>7. CASE GuardBackup
  BY <1>7 DEF GuardBackup, DriveOnly
<1>8. CASE TargetsOnDrive
  BY <1>8 DEF TargetsOnDrive
<1>9. CASE CopyRepo
  BY <1>9 DEF CopyRepo
<1>10. CASE Copied
  BY <1>10 DEF Copied
<1>11. CASE CheckRepo
  BY <1>11 DEF CheckRepo
<1>12. CASE Checked
  BY <1>12 DEF Checked
<1>13. CASE Release
  BY <1>13 DEF Release, Released
<1>14. CASE OdFails
  BY <1>14 DEF OdFails
<1>15. CASE LocalChanges
  BY <1>15 DEF LocalChanges
<1>16. CASE UNCHANGED odVars
  BY <1>16 DEF odVars
<1> QED
  BY <1>1, <1>2, <1>3, <1>4, <1>5, <1>6, <1>7, <1>8, <1>9, <1>10, <1>11,
       <1>12, <1>13, <1>14, <1>15, <1>16 DEF OdNext

(* The check counts what it finds.                                         *)
LEMMA OdTallied == OdInv /\ [OdNext]_odVars => TalliedAsFound'
<1> SUFFICES ASSUME OdInv, [OdNext]_odVars
             PROVE  TalliedAsFound'
  OBVIOUS
<1> USE DEF askVars, diskVars, mountVars, OdInv, TalliedAsFound,
      MountedAsSaid, OdSets, NoTally, Held, RepoStates
<1>1. CASE OdStart
  BY <1>1 DEF OdStart
<1>2. CASE OpenBackupDrive
  BY <1>2 DEF OpenBackupDrive
<1>3. CASE ConfirmErase
  BY <1>3 DEF ConfirmErase
<1>4. CASE OdRefused
  BY <1>4 DEF OdRefused
<1>5. CASE MakeTable
  BY <1>5 DEF MakeTable
<1>6. CASE MakeFilesystem
  BY <1>6 DEF MakeFilesystem
<1>7. CASE GuardBackup
  BY <1>7 DEF GuardBackup
<1>8. CASE TargetsOnDrive
  BY <1>8 DEF TargetsOnDrive
<1>9. CASE CopyRepo
  BY <1>9 DEF CopyRepo
<1>10. CASE Copied
  BY <1>10 DEF Copied
<1>11. CASE CheckRepo
  BY <1>11 DEF CheckRepo
<1>12. CASE Checked
  BY <1>12 DEF Checked
<1>13. CASE Release
  BY <1>13 DEF Release, Succeeded, Released
<1>14. CASE OdFails
  BY <1>14 DEF OdFails
<1>15. CASE LocalChanges
  BY <1>15 DEF LocalChanges
<1>16. CASE UNCHANGED odVars
  BY <1>16 DEF odVars
<1> QED
  BY <1>1, <1>2, <1>3, <1>4, <1>5, <1>6, <1>7, <1>8, <1>9, <1>10, <1>11,
       <1>12, <1>13, <1>14, <1>15, <1>16 DEF OdNext

(* The parts of the types are the types.                                   *)
LEMMA OdParts == OdTypeOK <=> OdSets /\ OdFlags
BY Zenon DEF OdTypeOK, OdSets, OdFlags

(* Before the first command nothing is mounted and nothing compared.       *)
LEMMA OdStarts == OdInit => OdInv
<1> SUFFICES ASSUME OdInit PROVE OdInv
  OBVIOUS
<1>1. OdFlags
  BY Zenon DEF OdInit, OdFlags
<1>2. OdSets
  BY OdBounds DEF OdInit, OdSets, OdBounds, RepoStates, NoTally
<1>3. MountedAsSaid /\ ComparedFirst /\ TalliedAsFound
  BY DEF OdInit, MountedAsSaid, ComparedFirst, TalliedAsFound
<1> QED
  BY <1>1, <1>2, <1>3 DEF OdInv

(* The conjuncts of the invariant, one step further.                       *)
LEMMA OdStep == OdInv /\ [OdNext]_odVars => OdInv'
BY OdNumbers, OdTruths, OdMounted, OdCompared, OdTallied DEF OdInv

(* No step of a command empties a place on the drive unasked.              *)
LEMMA OdAsks ==
  OdInv /\ [OdNext]_odVars => allowed \/ Vanished \subseteq known
<1> SUFFICES ASSUME OdInv, [OdNext]_odVars
             PROVE  allowed \/ Vanished \subseteq known
  OBVIOUS
<1> USE DEF askVars, diskVars, mountVars, OdInv, OdSets, Vanished, Held
<1>1. CASE OdStart
  BY <1>1 DEF OdStart
<1>2. CASE OpenBackupDrive
  BY <1>2 DEF OpenBackupDrive
<1>3. CASE ConfirmErase
  BY <1>3 DEF ConfirmErase
<1>4. CASE OdRefused
  BY <1>4 DEF OdRefused
<1>5. CASE MakeTable
  BY <1>5 DEF MakeTable, MountedAsSaid
<1>6. CASE MakeFilesystem
  BY <1>6 DEF MakeFilesystem
<1>7. CASE GuardBackup
  BY <1>7 DEF GuardBackup
<1>8. CASE TargetsOnDrive
  BY <1>8 DEF TargetsOnDrive
<1>9. CASE CopyRepo
  BY <1>9 DEF CopyRepo, ComparedFirst
<1>10. CASE Copied
  BY <1>10 DEF Copied
<1>11. CASE CheckRepo
  BY <1>11 DEF CheckRepo
<1>12. CASE Checked
  BY <1>12 DEF Checked
<1>13. CASE Release
  BY <1>13 DEF Release, Released
<1>14. CASE OdFails
  BY <1>14 DEF OdFails
<1>15. CASE LocalChanges
  BY <1>15 DEF LocalChanges
<1>16. CASE UNCHANGED odVars
  BY <1>16 DEF odVars
<1> QED
  BY <1>1, <1>2, <1>3, <1>4, <1>5, <1>6, <1>7, <1>8, <1>9, <1>10, <1>11,
       <1>12, <1>13, <1>14, <1>15, <1>16 DEF OdNext

(* Whatever changes on this machine meanwhile, and wherever a command is   *)
(* cut off: nothing leaves the drive that was not local or given up, and a *)
(* command that ends well has left what its check has read.                *)
THEOREM DriveKeepsCopies ==
  OdInit /\ [][OdNext]_odVars => [](GoodNews /\ OdTypeOK) /\ AsksBeforeDeleting
<1>1. OdInv => GoodNews
  <2> SUFFICES ASSUME OdInv PROVE GoodNews
    OBVIOUS
  <2>1. odAt = "ok" /\ checking /\ mode \in {"backup", "verify"} =>
          /\ \E r \in Repos : drive[r] = "whole"
          /\ \A r \in Repos : drive[r] # "broken"
    BY DEF OdInv, TalliedAsFound, OdSets
  <2> QED
    BY <2>1 DEF OdInv, MountedAsSaid, GoodNews
<1>2. OdInv => OdTypeOK
  BY OdParts DEF OdInv
<1> QED
  BY <1>1, <1>2, OdStarts, OdStep, OdAsks, PTL DEF AsksBeforeDeleting

-----------------------------------------------------------------------------
(* The self upgrade, step by step.                                         *)

(* Releases, runs and their files keep their types.                        *)
LEMMA UpgradeTypes ==
  UpgradeInv /\ [UpgradeNext]_upgradeVars => UpgradeTypeOK'
<1> SUFFICES ASSUME UpgradeInv, [UpgradeNext]_upgradeVars
             PROVE  UpgradeTypeOK'
  OBVIOUS
<1> USE SelfUpgradeConstants DEF SelfUpgradeConstants, UpgradeTypeOK,
      Fetching, Placing, Releases, Damaged, NoTemp, EmptyTemp, Source,
      LeftOver, UpgradeInv
<1>1. CASE ReleaseComes
  BY <1>1 DEF ReleaseComes
<1>2. ASSUME NEW q \in Runs, UpgradeStarts(q) PROVE UpgradeTypeOK'
  BY <1>2 DEF UpgradeStarts, Goto
<1>3. ASSUME NEW q \in Runs, InstallStarts(q) PROVE UpgradeTypeOK'
  BY <1>3 DEF InstallStarts, Goto
<1>4. ASSUME NEW q \in Runs, MakeTemp(q) PROVE UpgradeTypeOK'
  BY <1>4 DEF MakeTemp, Goto
<1>5. ASSUME NEW q \in Runs, FetchSums(q) PROVE UpgradeTypeOK'
  BY <1>5 DEF FetchSums, Goto
<1>6. ASSUME NEW q \in Runs, FetchArchive(q) PROVE UpgradeTypeOK'
  BY <1>6 DEF FetchArchive, Goto
<1>7. ASSUME NEW q \in Runs, VerifyChecksum(q) PROVE UpgradeTypeOK'
  BY <1>7 DEF VerifyChecksum, Goto
<1>8. ASSUME NEW q \in Runs, Unpack(q) PROVE UpgradeTypeOK'
  BY <1>8 DEF Unpack, Goto
<1>9. ASSUME NEW q \in Runs, RunVersion(q) PROVE UpgradeTypeOK'
  BY <1>9 DEF RunVersion, Goto
<1>10. ASSUME NEW q \in Runs, RenameOver(q) PROVE UpgradeTypeOK'
  BY <1>10 DEF RenameOver, Goto, InHand
<1>11. ASSUME NEW q \in Runs, RunFails(q) PROVE UpgradeTypeOK'
  BY <1>11 DEF RunFails, Goto
<1>12. ASSUME NEW q \in Runs, RunKilled(q) PROVE UpgradeTypeOK'
  BY <1>12 DEF RunKilled, Goto
<1>13. CASE UNCHANGED upgradeVars
  BY <1>13 DEF upgradeVars
<1> QED
  BY <1>1, <1>2, <1>3, <1>4, <1>5, <1>6, <1>7, <1>8, <1>9, <1>10, <1>11,
       <1>12, <1>13 DEF UpgradeNext

(* Each run has in its hands what it has fetched and checked.              *)
LEMMA UpgradeHands ==
  UpgradeInv /\ [UpgradeNext]_upgradeVars => (\A r \in Runs : InHand(r))'
<1> SUFFICES ASSUME UpgradeInv, [UpgradeNext]_upgradeVars,
                    NEW r \in Runs
             PROVE  InHand(r)'
  OBVIOUS
<1> USE SelfUpgradeConstants DEF SelfUpgradeConstants, UpgradeTypeOK,
      Fetching, Placing, Releases, Damaged, NoTemp, EmptyTemp, Source,
      LeftOver, UpgradeInv, InHand, SumsFetched
<1>1. CASE ReleaseComes
  BY <1>1 DEF ReleaseComes
<1>2. ASSUME NEW q \in Runs, UpgradeStarts(q) PROVE InHand(r)'
  BY <1>2 DEF UpgradeStarts, Goto
<1>3. ASSUME NEW q \in Runs, InstallStarts(q) PROVE InHand(r)'
  BY <1>3 DEF InstallStarts, Goto
<1>4. ASSUME NEW q \in Runs, MakeTemp(q) PROVE InHand(r)'
  BY <1>4 DEF MakeTemp, Goto
<1>5. ASSUME NEW q \in Runs, FetchSums(q) PROVE InHand(r)'
  BY <1>5 DEF FetchSums, Goto
<1>6. ASSUME NEW q \in Runs, FetchArchive(q) PROVE InHand(r)'
  BY <1>6 DEF FetchArchive, Goto
<1>7. ASSUME NEW q \in Runs, VerifyChecksum(q) PROVE InHand(r)'
  BY <1>7 DEF VerifyChecksum, Goto
<1>8. ASSUME NEW q \in Runs, Unpack(q) PROVE InHand(r)'
  BY <1>8 DEF Unpack, Goto
<1>9. ASSUME NEW q \in Runs, RunVersion(q) PROVE InHand(r)'
  BY <1>9 DEF RunVersion, Goto
<1>10. ASSUME NEW q \in Runs, RenameOver(q) PROVE InHand(r)'
  BY <1>10 DEF RenameOver, Goto
<1>11. ASSUME NEW q \in Runs, RunFails(q) PROVE InHand(r)'
  BY <1>11 DEF RunFails, Goto
<1>12. ASSUME NEW q \in Runs, RunKilled(q) PROVE InHand(r)'
  BY <1>12 DEF RunKilled, Goto
<1>13. CASE UNCHANGED upgradeVars
  BY <1>13 DEF upgradeVars
<1> QED
  BY <1>1, <1>2, <1>3, <1>4, <1>5, <1>6, <1>7, <1>8, <1>9, <1>10, <1>11,
       <1>12, <1>13 DEF UpgradeNext

(* Only what is a release is put in place.                                 *)
LEMMA UpgradeWhole == UpgradeInv /\ [UpgradeNext]_upgradeVars => WholeBinary'
<1> SUFFICES ASSUME UpgradeInv, [UpgradeNext]_upgradeVars
             PROVE  WholeBinary'
  OBVIOUS
<1> USE DEF UpgradeInv, WholeBinary, InHand
<1>1. CASE ReleaseComes
  BY <1>1 DEF ReleaseComes
<1>2. ASSUME NEW q \in Runs, UpgradeStarts(q) PROVE WholeBinary'
  BY <1>2 DEF UpgradeStarts, Goto
<1>3. ASSUME NEW q \in Runs, InstallStarts(q) PROVE WholeBinary'
  BY <1>3 DEF InstallStarts, Goto
<1>4. ASSUME NEW q \in Runs, MakeTemp(q) PROVE WholeBinary'
  BY <1>4 DEF MakeTemp, Goto
<1>5. ASSUME NEW q \in Runs, FetchSums(q) PROVE WholeBinary'
  BY <1>5 DEF FetchSums, Goto
<1>6. ASSUME NEW q \in Runs, FetchArchive(q) PROVE WholeBinary'
  BY <1>6 DEF FetchArchive, Goto
<1>7. ASSUME NEW q \in Runs, VerifyChecksum(q) PROVE WholeBinary'
  BY <1>7 DEF VerifyChecksum, Goto
<1>8. ASSUME NEW q \in Runs, Unpack(q) PROVE WholeBinary'
  BY <1>8 DEF Unpack, Goto
<1>9. ASSUME NEW q \in Runs, RunVersion(q) PROVE WholeBinary'
  BY <1>9 DEF RunVersion, Goto
<1>10. ASSUME NEW q \in Runs, RenameOver(q) PROVE WholeBinary'
  BY <1>10 DEF RenameOver, Goto
<1>11. ASSUME NEW q \in Runs, RunFails(q) PROVE WholeBinary'
  BY <1>11 DEF RunFails, Goto
<1>12. ASSUME NEW q \in Runs, RunKilled(q) PROVE WholeBinary'
  BY <1>12 DEF RunKilled, Goto
<1>13. CASE UNCHANGED upgradeVars
  BY <1>13 DEF upgradeVars
<1> QED
  BY <1>1, <1>2, <1>3, <1>4, <1>5, <1>6, <1>7, <1>8, <1>9, <1>10, <1>11,
       <1>12, <1>13 DEF UpgradeNext

(* The first release is in place, and no run has started.                  *)
LEMMA UpgradeBegins == UpgradeInit => UpgradeInv
BY SelfUpgradeConstants
   DEF UpgradeInit, UpgradeInv, UpgradeTypeOK, WholeBinary, InHand, Fetching,
       Placing, Releases, NoTemp, EmptyTemp, SumsFetched, SelfUpgradeConstants

(* The conjuncts of the invariant, one step further.                       *)
LEMMA UpgradeGoesOn == UpgradeInv /\ [UpgradeNext]_upgradeVars => UpgradeInv'
BY UpgradeTypes, UpgradeHands, UpgradeWhole DEF UpgradeInv

(* What a run that ends well puts in place.                                *)
PlacesStep ==
  \A r \in Runs \ Installs : runAt'[r] = "ok" /\ runAt[r] # "ok" =>
    binary' = want[r] /\ binary' \notin Broken

(* A run that ends well has put in place what it was asked for.            *)
LEMMA UpgradePlaces == UpgradeInv /\ [UpgradeNext]_upgradeVars => PlacesStep
<1> SUFFICES ASSUME UpgradeInv, [UpgradeNext]_upgradeVars,
                    NEW r \in Runs \ Installs, runAt'[r] = "ok",
                    runAt[r] # "ok"
             PROVE  binary' = want[r] /\ binary' \notin Broken
  BY DEF PlacesStep
<1> USE DEF UpgradeInv, UpgradeTypeOK, InHand, Fetching, Placing
<1>1. CASE ReleaseComes
  BY <1>1 DEF ReleaseComes
<1>2. ASSUME NEW q \in Runs, UpgradeStarts(q)
      PROVE  binary' = want[r] /\ binary' \notin Broken
  BY <1>2 DEF UpgradeStarts, Goto
<1>3. ASSUME NEW q \in Runs, InstallStarts(q)
      PROVE  binary' = want[r] /\ binary' \notin Broken
  BY <1>3 DEF InstallStarts, Goto
<1>4. ASSUME NEW q \in Runs, MakeTemp(q)
      PROVE  binary' = want[r] /\ binary' \notin Broken
  BY <1>4 DEF MakeTemp, Goto
<1>5. ASSUME NEW q \in Runs, FetchSums(q)
      PROVE  binary' = want[r] /\ binary' \notin Broken
  BY <1>5 DEF FetchSums, Goto
<1>6. ASSUME NEW q \in Runs, FetchArchive(q)
      PROVE  binary' = want[r] /\ binary' \notin Broken
  BY <1>6 DEF FetchArchive, Goto
<1>7. ASSUME NEW q \in Runs, VerifyChecksum(q)
      PROVE  binary' = want[r] /\ binary' \notin Broken
  BY <1>7 DEF VerifyChecksum, Goto
<1>8. ASSUME NEW q \in Runs, Unpack(q)
      PROVE  binary' = want[r] /\ binary' \notin Broken
  BY <1>8 DEF Unpack, Goto
<1>9. ASSUME NEW q \in Runs, RunVersion(q)
      PROVE  binary' = want[r] /\ binary' \notin Broken
  BY <1>9 DEF RunVersion, Goto
<1>10. ASSUME NEW q \in Runs, RenameOver(q)
       PROVE  binary' = want[r] /\ binary' \notin Broken
  BY <1>10 DEF RenameOver, Goto
<1>11. ASSUME NEW q \in Runs, RunFails(q)
       PROVE  binary' = want[r] /\ binary' \notin Broken
  BY <1>11 DEF RunFails, Goto
<1>12. ASSUME NEW q \in Runs, RunKilled(q)
       PROVE  binary' = want[r] /\ binary' \notin Broken
  BY <1>12 DEF RunKilled, Goto
<1>13. CASE UNCHANGED upgradeVars
  BY <1>13 DEF upgradeVars
<1> QED
  BY <1>1, <1>2, <1>3, <1>4, <1>5, <1>6, <1>7, <1>8, <1>9, <1>10, <1>11,
       <1>12, <1>13 DEF UpgradeNext

(* Whichever runs there are at once, and wherever each of them stops: the  *)
(* file at the path is a whole release, and an upgrade that ends well has  *)
(* put there the one it was asked for.                                     *)
THEOREM BinaryStaysWhole ==
  UpgradeInit /\ [][UpgradeNext]_upgradeVars =>
    [](WholeBinary /\ UpgradeTypeOK) /\ PlacesWanted
<1>1. UpgradeInv => WholeBinary /\ UpgradeTypeOK
  BY DEF UpgradeInv
<1>2. PlacesWanted <=> [][PlacesStep]_upgradeVars
  BY PTL DEF PlacesWanted, PlacesStep
<1> QED
  BY <1>1, <1>2, UpgradeBegins, UpgradeGoesOn, UpgradePlaces, PTL

-----------------------------------------------------------------------------
(* Server create, step by step, and what a deploy makes of its file.       *)

(* Short sequences of strings, as of the members of any other set.         *)
LEMMA ShortSequences ==
  ASSUME NEW S
  PROVE  /\ \A v \in S : <<v>> \in Seq(S)
         /\ \A v, w \in S : <<v, w>> \in Seq(S)
         /\ \A v \in Seq(S) : \A i \in 1..Len(v) : v[i] \in S
OBVIOUS

(* The values there are, and those chosen among them.                      *)
LEMMA EnvValues ==
  /\ None \in EnvValue /\ Blank \in EnvValue /\ Wrong \in EnvValue
  /\ DefaultPathApps \in EnvValue /\ <<"srv", "volumes">> \in EnvValue
  /\ \A t \in {"1000", "990", "me", "theirs", "ours", "true", "a", "b"} :
       <<t>> \in EnvValue
  /\ \A v \in STRING : <<v>> \in EnvValue
  /\ \A v, w \in EnvValue : Or(v, w) \in EnvValue
  /\ \A v \in EnvValue : \A i \in 1..Len(v) : v[i] \in STRING
<1>1. /\ "" \in STRING /\ "?" \in STRING /\ "srv" \in STRING
      /\ "apps" \in STRING /\ "volumes" \in STRING
      /\ \A t \in {"1000", "990", "me", "theirs", "ours", "true", "a", "b"} :
           t \in STRING
  BY Literals, Zenon
<1>2. /\ \A v \in STRING : <<v>> \in EnvValue
      /\ \A v, w \in STRING : <<v, w>> \in EnvValue
      /\ \A v \in EnvValue : \A i \in 1..Len(v) : v[i] \in STRING
  BY ShortSequences, Zenon DEF EnvValue
<1>3. None \in EnvValue
  BY DEF None, EnvValue
<1>4. \A v, w \in EnvValue : Or(v, w) \in EnvValue
  BY DEF Or
<1> QED
  BY <1>1, <1>2, <1>3, <1>4, Zenon DEF Blank, Wrong, DefaultPathApps

(* Nothing is taken of a reply that is no value, and never root.           *)
LEMMA TakenIsUsable ==
  ASSUME NEW reply \in [ProbedKeys -> EnvValue]
  PROVE  /\ Taken(reply) \in [ProbedKeys -> EnvValue]
         /\ \A k \in ProbedKeys : Taken(reply)[k] \notin {Blank, Wrong}
         /\ Taken(reply)["PUID"] # <<"0">>
<1>1. \A k \in ProbedKeys :
        /\ Usable(k, reply[k]) \in EnvValue
        /\ Usable(k, reply[k]) \notin {Blank, Wrong}
        /\ Usable(k, reply[k]) \in {None, reply[k]}
  BY EnvValues DEF Usable, None, Blank, Wrong
<1>2. <<"1000">> \in EnvValue /\ <<"1000">> \notin {Blank, Wrong, <<"0">>}
  BY EnvValues DEF Blank, Wrong
<1>3. \A k \in ProbedKeys :
        Taken(reply)[k] \in {Usable(k, reply[k]), <<"1000">>}
  BY DEF Taken
<1>4. Taken(reply)["PUID"] # <<"0">>
  <2>1. Taken(reply)["PUID"] =
          IF reply["PUID"] = <<"0">> /\ Usable("PUID", reply["PUID"]) # None
          THEN <<"1000">> ELSE Usable("PUID", reply["PUID"])
    BY DEF Taken, ProbedKeys
  <2>2. None # <<"0">>
    BY DEF None
  <2> QED
    BY <1>1, <1>2, <2>1, <2>2 DEF ProbedKeys
<1>5. Taken(reply) = [k \in ProbedKeys |-> Taken(reply)[k]]
  BY DEF Taken
<1> QED
  BY <1>1, <1>2, <1>3, <1>4, <1>5

(* The work of no run is empty.                                            *)
LEMMA IdleIsWork ==
  /\ IdleWork \in Works /\ IdleWork.address = None
  /\ IdleWork.probed = Nobody /\ Nobody \in [ProbedKeys -> EnvValue]
  /\ \A k \in ProbedKeys : Nobody[k] \notin {Blank, Wrong}
  /\ Nobody["PUID"] # <<"0">>
BY EnvValues DEF IdleWork, Works, Nobody, None, Blank, Wrong, ProbedKeys

(* Every answer is a value, whatever it was taken from.                    *)
LEMMA AnswersAreValues ==
  ASSUME CreateTypeOK, ValidAddress(work.address)
  PROVE  Answers \in [AskedKeys -> EnvValue]
<1> DEFINE puid == Answer("PUID", IdDefault("PUID", <<"1000">>))
           default == [k \in AskedKeys |->
             CASE k = "DOCKER_GROUP_ID" -> GroupDefault
               [] k = "TIMEZONE" -> ZoneDefault
               [] k = "PUID" -> puid
               [] k = "PGID" -> IdDefault("PGID", puid)
               [] k = "VOLUMES_PATH" ->
                    Or(work.existing["VOLUMES_PATH"], <<"srv", "volumes">>)
               [] k = "PATH_APPS" ->
                    Or(work.existing["PATH_APPS"], DefaultPathApps)
               [] OTHER -> None]
<1>1. /\ work.address \in EnvValue
      /\ \A k \in AskedKeys :
           work.given[k] \in EnvValue /\ work.typed[k] \in EnvValue
      /\ \A k \in Keys : work.existing[k] \in EnvValue
      /\ \A k \in ProbedKeys : work.probed[k] \in EnvValue
  BY DEF CreateTypeOK, Works
<1>2. \A k \in AskedKeys, v \in EnvValue : Answer(k, v) \in EnvValue
  BY <1>1, EnvValues DEF Answer
<1>3. \A k \in {"PUID", "PGID"}, v \in EnvValue : IdDefault(k, v) \in EnvValue
  BY <1>1, EnvValues DEF IdDefault, ProbedKeys, Keys, AskedKeys
<1>4. puid \in EnvValue
  BY <1>2, <1>3, EnvValues DEF AskedKeys
<1>5. GroupDefault \in EnvValue /\ ZoneDefault \in EnvValue
  BY <1>1, EnvValues DEF GroupDefault, ZoneDefault, ProbedKeys, Keys, AskedKeys
<1>6. <<"srv", "volumes">> \in EnvValue
  BY EnvValues
<1>7. \A k \in AskedKeys : default[k] \in EnvValue
  <2> HIDE DEF puid
  <2> QED
    BY <1>1, <1>3, <1>4, <1>5, <1>6, EnvValues DEF Keys, AskedKeys
<1>8. Login \in EnvValue
  <2>1. UserOf(work.address) \in EnvValue
    <3>1. work.address[1] \in STRING
      BY <1>1, EnvValues DEF ValidAddress
    <3> QED
      BY <3>1, EnvValues DEF UserOf
  <2> QED
    BY <1>1, <2>1, EnvValues DEF Login, ProbedKeys, Keys, AskedKeys
<1>9. Answers = [k \in AskedKeys |-> CASE k = "SSH_ADDRESS" -> work.address
                                       [] k = "SSH_USER" -> Login
                                       [] OTHER -> Answer(k, default[k])]
  BY DEF Answers
<1> HIDE DEF default
<1> QED
  BY <1>1, <1>2, <1>7, <1>8, <1>9

(* What server create works with keeps its types.                          *)
LEMMA CreateTypes == CreateInv /\ [CreateNext]_createVars => CreateTypeOK'
<1> SUFFICES ASSUME CreateInv, [CreateNext]_createVars
             PROVE  CreateTypeOK'
  OBVIOUS
<1> USE ServerConstants DEF ServerConstants, CreateInv, CreateTypeOK,
      EndCreate
<1>1. CASE CreateStarts
  <2>1. CASE EndCreate("refused")
    BY <1>1, <2>1, IdleIsWork DEF CreateStarts, EndCreate
  <2>2. CASE ~EndCreate("refused")
    <3>1. PICK given \in Vars, typed \in Typed \cup {IdleWork.typed} :
            /\ work' = [IdleWork EXCEPT !.given = given, !.typed = typed,
                                        !.existing = env]
            /\ creating' = "address" /\ created' = "none"
      BY <1>1, <2>2 DEF CreateStarts
    <3>2. /\ given \in [AskedKeys -> EnvValue]
          /\ typed \in [AskedKeys -> EnvValue]
      BY IdleIsWork DEF Works
    <3>3. work' \in Works /\ work'.address = None /\ work'.probed = Nobody
      BY <3>1, <3>2, IdleIsWork DEF Works
    <3>4. /\ touched' = {} /\ creates' = creates + 1 /\ creates < MaxCreates
          /\ UNCHANGED <<env, edits>>
      BY <1>1 DEF CreateStarts
    <3> QED
      BY <3>1, <3>3, <3>4, IdleIsWork
  <2> QED
    BY <2>1, <2>2
<1>2. CASE AskAddress
  <2> DEFINE a == Answer("SSH_ADDRESS", work.existing["SSH_ADDRESS"])
  <2>1. a \in EnvValue
    BY EnvValues DEF Answer, Works, Keys, AskedKeys
  <2>2. CASE ValidAddress(a)
    <3>1. work' = [work EXCEPT !.address = a] /\ creating' = "probe"
          /\ UNCHANGED <<created, env, edits, creates, touched>>
      BY <1>2, <2>2 DEF AskAddress
    <3> HIDE DEF a
    <3>2. work' \in Works /\ work'.address = a /\ work'.probed = work.probed
      BY <2>1, <3>1 DEF Works
    <3> QED
      BY <2>2, <3>1, <3>2
  <2>3. CASE ~ValidAddress(a)
    BY <1>2, <2>3, IdleIsWork DEF AskAddress
  <2> QED
    BY <2>2, <2>3
<1>3. CASE Probe
  <2>1. PICK reply \in Replies \cup {Nobody} :
        work' = [work EXCEPT !.probed = Taken(reply)]
    BY <1>3 DEF Probe
  <2>2. reply \in [ProbedKeys -> EnvValue]
    BY IdleIsWork
  <2>3. Taken(reply) \in [ProbedKeys -> EnvValue]
        /\ \A k \in ProbedKeys : Taken(reply)[k] \notin {Blank, Wrong}
    BY <2>2, TakenIsUsable
  <2>4. work' \in Works /\ work'.address = work.address
        /\ work'.probed = Taken(reply)
    BY <2>1, <2>3 DEF Works
  <2> QED
    BY <1>3, <2>3, <2>4 DEF Probe
<1>4. CASE SkipProbe
  BY <1>4 DEF SkipProbe
<1>5. CASE WriteServer
  <2>1. work' = IdleWork /\ creating' = "no"
        /\ created' \in {"ok", "refused"}
        /\ UNCHANGED <<edits, creates, touched>>
    BY <1>5 DEF WriteServer
  <2>2. env' \in [Keys -> EnvValue]
    <3>1. CASE UNCHANGED env
      BY <3>1
    <3>2. CASE ~UNCHANGED env
      <4>1. /\ \A k \in AskedKeys : Accepts(k, Answers[k])
            /\ env' = [k \in Keys |->
                         IF k \in AskedKeys THEN Answers[k] ELSE env[k]]
        BY <1>5, <3>2 DEF WriteServer
      <4>2. ValidAddress(work.address)
        BY <1>5 DEF WriteServer, RunInHand
      <4> QED
        BY <4>1, <4>2, AnswersAreValues
    <3> QED
      BY <3>1, <3>2
  <2> QED
    BY <2>1, <2>2, IdleIsWork
<1>6. CASE OwnerEdits
  <2>1. PICK e \in Edits :
        /\ env' = [k \in Keys |-> IF k \in DOMAIN e THEN e[k] ELSE env[k]]
        /\ touched' = touched \cup DOMAIN e
    BY <1>6 DEF OwnerEdits
  <2>2. env' \in [Keys -> EnvValue] /\ touched' \subseteq Keys
    BY <2>1
  <2> QED
    BY <1>6, <2>2 DEF OwnerEdits
<1>7. CASE UNCHANGED createVars
  BY <1>7 DEF createVars
<1> QED
  BY <1>1, <1>2, <1>3, <1>4, <1>5, <1>6, <1>7 DEF CreateNext

(* A run has in hand what it has read and been told.                       *)
LEMMA CreateHands == CreateInv /\ [CreateNext]_createVars => RunInHand'
<1> SUFFICES ASSUME CreateInv, [CreateNext]_createVars
             PROVE  RunInHand'
  OBVIOUS
<1> USE DEF CreateInv, RunInHand, EndCreate
<1>1. CASE CreateStarts
  <2>1. CASE EndCreate("refused")
    BY <1>1, <2>1, IdleIsWork DEF CreateStarts, EndCreate
  <2>2. CASE ~EndCreate("refused")
    <3>1. /\ created' = "none" /\ creating' = "address" /\ env' = env
          /\ work'.existing = env /\ work'.probed = Nobody
      BY <1>1, <2>2 DEF CreateStarts, IdleWork
    <3> QED
      BY <3>1, IdleIsWork
  <2> QED
    BY <2>1, <2>2
<1>2. CASE AskAddress
  <2> DEFINE a == Answer("SSH_ADDRESS", work.existing["SSH_ADDRESS"])
  <2>1. CASE ValidAddress(a)
    <3>1. work' = [work EXCEPT !.address = a] /\ creating' = "probe"
          /\ UNCHANGED <<created, env, edits, creates, touched>>
      BY <1>2, <2>1 DEF AskAddress
    <3>2. /\ work'.existing = work.existing /\ work'.probed = work.probed
          /\ work'.given = work.given /\ work'.typed = work.typed
          /\ work'.address = a
      BY <3>1 DEF CreateTypeOK, Works
    <3>3. work'.address =
            Answer("SSH_ADDRESS", work.existing["SSH_ADDRESS"])'
      BY <3>2 DEF Answer
    <3> QED
      BY <1>2, <2>1, <3>1, <3>2, <3>3 DEF AskAddress
  <2>2. CASE ~ValidAddress(a)
    BY <1>2, <2>2, IdleIsWork DEF AskAddress
  <2> QED
    BY <2>1, <2>2
<1>3. CASE Probe
  <2>1. PICK reply \in Replies \cup {Nobody} :
        work' = [work EXCEPT !.probed = Taken(reply)]
    BY <1>3 DEF Probe
  <2>2. Taken(reply)["PUID"] # <<"0">>
    BY ServerConstants, IdleIsWork, TakenIsUsable DEF ServerConstants
  <2>3. /\ work'.existing = work.existing /\ work'.probed = Taken(reply)
        /\ work'.given = work.given /\ work'.typed = work.typed
        /\ work'.address = work.address
    BY <2>1 DEF CreateTypeOK, Works
  <2>4. creating = "probe" /\ UNCHANGED <<created, env, touched>>
    BY <1>3 DEF Probe
  <2> QED
    BY <2>2, <2>3, <2>4 DEF Answer
<1>4. CASE SkipProbe
  BY <1>4 DEF SkipProbe, Answer
<1>5. CASE WriteServer
  BY <1>5, IdleIsWork DEF WriteServer
<1>6. CASE OwnerEdits
  <2>1. PICK e \in Edits :
        /\ env' = [k \in Keys |-> IF k \in DOMAIN e THEN e[k] ELSE env[k]]
        /\ touched' = touched \cup DOMAIN e
    BY <1>6 DEF OwnerEdits
  <2>2. \A k \in Keys \ touched' : k \in Keys \ touched /\ env'[k] = env[k]
    BY <2>1
  <2>3. UNCHANGED <<creating, work>> /\ created' = "none"
    BY <1>6 DEF OwnerEdits
  <2> QED
    BY <2>2, <2>3 DEF Answer
<1>7. CASE UNCHANGED createVars
  BY <1>7 DEF createVars, Answer
<1> QED
  BY <1>1, <1>2, <1>3, <1>4, <1>5, <1>6, <1>7 DEF CreateNext

(* What is written has been accepted.                                      *)
LEMMA CreateWrites == CreateInv /\ [CreateNext]_createVars => WrittenAccepted'
<1> SUFFICES ASSUME CreateInv, [CreateNext]_createVars
             PROVE  WrittenAccepted'
  OBVIOUS
<1> USE DEF CreateInv, WrittenAccepted, EndCreate
<1>1. CASE CreateStarts
  BY <1>1 DEF CreateStarts
<1>2. CASE AskAddress
  <2>1. created' # "ok"
    BY <1>2 DEF AskAddress, RunInHand
  <2> QED
    BY <2>1
<1>3. CASE Probe
  BY <1>3 DEF Probe, RunInHand
<1>4. CASE SkipProbe
  BY <1>4 DEF SkipProbe, RunInHand
<1>5. CASE WriteServer
  <2> SUFFICES ASSUME created' = "ok", NEW k \in AskedKeys
               PROVE  Accepts(k, env'[k])
    BY DEF Accepts
  <2>1. /\ \A j \in AskedKeys : Accepts(j, Answers[j])
        /\ env' = [j \in Keys |->
                     IF j \in AskedKeys THEN Answers[j] ELSE env[j]]
    BY <1>5 DEF WriteServer
  <2>2. env'[k] = Answers[k]
    BY <2>1 DEF Keys
  <2> QED
    BY <2>1, <2>2
<1>6. CASE OwnerEdits
  BY <1>6 DEF OwnerEdits
<1>7. CASE UNCHANGED createVars
  BY <1>7 DEF createVars, Accepts
<1> QED
  BY <1>1, <1>2, <1>3, <1>4, <1>5, <1>6, <1>7 DEF CreateNext

(* Nothing is given or written before the first run.                       *)
LEMMA CreateBegins == CreateInit => CreateInv
BY ServerConstants, IdleIsWork, EnvValues
   DEF CreateInit, CreateInv, CreateTypeOK, RunInHand, WrittenAccepted,
       ServerConstants

(* The conjuncts of the invariant, one step further.                       *)
LEMMA CreateStep == CreateInv /\ [CreateNext]_createVars => CreateInv'
BY CreateTypes, CreateHands, CreateWrites DEF CreateInv

(* A run that is told nothing answers with what it has read.               *)
LEMMA UnaskedAnswers ==
  ASSUME CreateInv, creating = "ask", work.given = IdleWork.given,
         work.typed = IdleWork.typed,
         NEW k \in AskedKeys \ {"DOCKER_GROUP_ID"}, work.existing[k] # None
  PROVE  \/ Answers[k] = work.existing[k]
         \/ k = "SSH_USER" /\ UserOf(work.address) # None
<1>1. \A j \in AskedKeys : work.given[j] = None /\ work.typed[j] = None
  BY DEF IdleWork
<1>2. \A j \in AskedKeys : \A v : Answer(j, v) = v
  BY <1>1 DEF Answer, Or
<1>3. k = "SSH_ADDRESS" => work.address = work.existing[k]
  BY <1>2 DEF CreateInv, RunInHand
<1>4. k = "SSH_USER" =>
        UserOf(work.address) # None \/ Login = work.existing[k]
  BY <1>1 DEF Login, Or
<1>5. k = "TIMEZONE" => ZoneDefault = work.existing[k]
  BY DEF ZoneDefault, Or
<1>6. k \in {"PUID", "PGID"} => \A v : IdDefault(k, v) = work.existing[k]
  BY DEF IdDefault, Or
<1>7. k \in {"VOLUMES_PATH", "PATH_APPS"} =>
        \A v : Or(work.existing[k], v) = work.existing[k]
  BY DEF Or
<1>8. CASE k = "SSH_ADDRESS"
  BY <1>3, <1>8 DEF Answers
<1>9. CASE k = "SSH_USER"
  BY <1>4, <1>9 DEF Answers
<1>10. CASE k = "TIMEZONE"
  BY <1>2, <1>5, <1>10 DEF Answers
<1>11. CASE k = "PUID"
  BY <1>2, <1>6, <1>11 DEF Answers
<1>12. CASE k = "PGID"
  BY <1>2, <1>6, <1>12 DEF Answers
<1>13. CASE k = "VOLUMES_PATH"
  BY <1>2, <1>7, <1>13 DEF Answers
<1>14. CASE k = "PATH_APPS"
  BY <1>2, <1>7, <1>14 DEF Answers
<1> QED
  BY <1>8, <1>9, <1>10, <1>11, <1>12, <1>13, <1>14 DEF AskedKeys

(* What a run does that is told nothing, and what may make it root.        *)
KeepsUnasked ==
  WritesUnasked =>
    \A k \in Keys \ (touched \cup {"DOCKER_GROUP_ID"}) :
      \/ env[k] = None \/ env'[k] = env[k]
      \/ k = "SSH_USER" /\ UserOf(work.address) # None
RootWritten ==
  creating = "ask" /\ created' = "ok" /\ env'["PUID"] = <<"0">> =>
    <<"0">> \in {work.given["PUID"], work.typed["PUID"],
                work.existing["PUID"]}

(* Only writing ends a run well, and it writes the answers.                *)
LEMMA OnlyAnswersWritten ==
  ASSUME CreateInv, [CreateNext]_createVars, creating = "ask", created' = "ok"
  PROVE  \A k \in Keys :
           env'[k] = IF k \in AskedKeys THEN Answers[k] ELSE env[k]
<1>1. created = "none"
  BY DEF CreateInv, RunInHand
<1>2. WriteServer
  BY <1>1 DEF CreateNext, createVars, CreateStarts, AskAddress, Probe,
              SkipProbe, OwnerEdits
<1> QED
  BY <1>2 DEF WriteServer, EndCreate

(* A rerun changes only what it is told to.                                *)
LEMMA CreateKeeps == CreateInv /\ [CreateNext]_createVars => KeepsUnasked
<1> SUFFICES ASSUME CreateInv, [CreateNext]_createVars, WritesUnasked,
                    NEW k \in Keys \ (touched \cup {"DOCKER_GROUP_ID"}),
                    env[k] # None
             PROVE  \/ env'[k] = env[k]
                    \/ k = "SSH_USER" /\ UserOf(work.address) # None
  BY DEF KeepsUnasked
<1>1. env'[k] = IF k \in AskedKeys THEN Answers[k] ELSE env[k]
  BY OnlyAnswersWritten DEF WritesUnasked
<1>2. work.existing[k] = env[k]
  BY DEF CreateInv, RunInHand, WritesUnasked
<1> QED
  BY <1>1, <1>2, UnaskedAnswers DEF WritesUnasked

(* No answer is root that nobody has written down.                         *)
LEMMA CreateNoRoot == CreateInv /\ [CreateNext]_createVars => RootWritten
<1> SUFFICES ASSUME CreateInv, [CreateNext]_createVars, creating = "ask",
                    created' = "ok", env'["PUID"] = <<"0">>
             PROVE  <<"0">> \in {work.given["PUID"], work.typed["PUID"],
                                work.existing["PUID"]}
  BY DEF RootWritten
<1>1. Answers["PUID"] = <<"0">>
  BY OnlyAnswersWritten DEF Keys, AskedKeys
<1>2. Answers["PUID"] =
        Answer("PUID", Answer("PUID", IdDefault("PUID", <<"1000">>)))
  BY DEF Answers, AskedKeys
<1>3. work.probed["PUID"] # <<"0">> /\ <<"1000">> # <<"0">>
  BY DEF CreateInv, RunInHand
<1> QED
  BY <1>1, <1>2, <1>3 DEF Answer, IdDefault, Or

(* Sequences of any set's members, put together and taken apart.           *)
LEMMA JoinedSequences ==
  ASSUME NEW S, NEW v \in Seq(S), NEW w \in Seq(S)
  PROVE  v # <<>> => Tail(v) \in Seq(S) /\ w \o Tail(v) \in Seq(S)
OBVIOUS

(* Laid over each other, files are files.                                  *)
LEMMA OverValues ==
  ASSUME NEW f \in [Keys -> EnvValue], NEW g \in [Keys -> EnvValue]
  PROVE  Over(f, g) \in [Keys -> EnvValue]
BY EnvValues DEF Over

(* What a reference is to is a key of the files.                           *)
LEMMA RefKeys ==
  /\ \A r \in References : RefKey[r] \in {"PATH_APPS", "BASE_PATH", "A_TOKEN"}
  /\ {"PATH_APPS", "BASE_PATH", "A_TOKEN"} \subseteq Keys
BY TokenKeys DEF References, RefKey, TokenKeys, Keys, AskedKeys

(* References are filled in with values of keys.                           *)
LEMMA ExpandedValue ==
  ASSUME NEW e \in [Keys -> EnvValue], NEW v \in EnvValue
  PROVE  Expand(v, e) \in EnvValue
<1>1. CASE v = None \/ v[1] \notin References
  BY <1>1 DEF Expand
<1>2. CASE v # None /\ v[1] \in References
  <2>1. e[RefKey[v[1]]] \in EnvValue
    BY <1>2, RefKeys
  <2>2. Tail(v) \in EnvValue /\ e[RefKey[v[1]]] \o Tail(v) \in EnvValue
    BY <1>2, <2>1, JoinedSequences DEF EnvValue, None
  <2> QED
    BY <1>2, <2>2, EnvValues DEF Expand
<1> QED
  BY <1>1, <1>2

(* What is put before the rest of another stays longer than nothing, is no *)
(* single thing that it was not, and begins as it does.                    *)
LEMMA JoinedText ==
  ASSUME NEW S, NEW v \in Seq(S), NEW w \in Seq(S), NEW b \in Seq(S),
         v # <<>>, w # <<>>, Len(b) = 1, w # b
  PROVE  /\ w \o Tail(v) # <<>> /\ w \o Tail(v) # b
         /\ (w \o Tail(v))[1] = w[1]
<1>1. /\ Len(w) \in Nat \ {0} /\ Tail(v) \in Seq(S) /\ Len(Tail(v)) \in Nat
  BY EmptySeq, HeadTailProperties, LenProperties
<1>2. /\ w \o Tail(v) \in Seq(S)
      /\ Len(w \o Tail(v)) = Len(w) + Len(Tail(v))
      /\ (w \o Tail(v))[1] = w[1]
  BY <1>1, ConcatProperties
<1>3. w \o Tail(v) # <<>>
  BY <1>1, <1>2
<1>4. ASSUME w \o Tail(v) = b PROVE FALSE
  <2>1. Len(w) = 1 /\ w[1] = b[1]
    BY <1>1, <1>2, <1>4
  <2>2. \A i \in 1..Len(w) : w[i] = b[i]
    BY <2>1
  <2>3. w = b
    BY <2>1, <2>2, SeqEqual
  <2> QED
    BY <2>3
<1> QED
  BY <1>2, <1>3, <1>4

(* A text with a reference to one in it is a text.                         *)
LEMMA ExpandedText ==
  ASSUME NEW e \in [Keys -> EnvValue], NEW v \in EnvValue, HasText(v),
         v[1] \in References => HasText(e[RefKey[v[1]]])
  PROVE  /\ HasText(Expand(v, e))
         /\ Expand(v, e)[1] = IF v[1] \in References THEN e[RefKey[v[1]]][1]
                              ELSE v[1]
<1>1. CASE v[1] \notin References
  BY <1>1 DEF Expand
<1>2. CASE v[1] \in References
  <2> DEFINE w == e[RefKey[v[1]]]
  <2>1. w \in Seq(STRING) /\ v \in Seq(STRING) /\ v # <<>>
    BY <1>2, RefKeys DEF EnvValue, HasText, None
  <2>2. w # <<>> /\ w # Blank /\ Len(Blank) = 1 /\ Blank \in Seq(STRING)
    <3>1. Len(Blank) = 1
      BY DEF Blank
    <3> QED
      BY <1>2, <3>1, EnvValues DEF HasText, None, EnvValue
  <2>3. Expand(v, e) = w \o Tail(v)
    BY <1>2, <2>1 DEF Expand, None
  <2> HIDE DEF w
  <2>4. /\ w \o Tail(v) # <<>> /\ w \o Tail(v) # Blank
        /\ (w \o Tail(v))[1] = w[1]
    BY <2>1, <2>2, JoinedText
  <2> QED
    BY <1>2, <2>3, <2>4 DEF HasText, None, w
<1> QED
  BY <1>1, <1>2

(* What compose reads are values.                                          *)
LEMMA ReadValues ==
  ASSUME NEW f \in [Keys -> EnvValue], NEW g \in [Keys -> EnvValue]
  PROVE  ReadBy(f, g) \in [Keys -> EnvValue]
<1>1. \A k \in Keys :
        [Over(g, f) EXCEPT ![k] = g[k]] \in [Keys -> EnvValue]
  BY OverValues
<1>2. \A k \in Keys :
        Expand(f[k], [Over(g, f) EXCEPT ![k] = g[k]]) \in EnvValue
  BY <1>1, ExpandedValue
<1> QED
  BY <1>2 DEF ReadBy

(* A text that begins with no reference compose reads as it is, and one    *)
(* that does as a text, if what it has read before it has one for the key. *)
LEMMA ReadText ==
  ASSUME NEW f \in [Keys -> EnvValue], NEW g \in [Keys -> EnvValue],
         NEW k \in Keys, HasText(f[k]),
         f[k][1] \in References =>
           /\ RefKey[f[k][1]] # k
           /\ HasText(Or(f[RefKey[f[k][1]]], g[RefKey[f[k][1]]]))
  PROVE  HasText(ReadBy(f, g)[k])
<1> DEFINE e == [Over(g, f) EXCEPT ![k] = g[k]]
<1>1. e \in [Keys -> EnvValue]
  BY OverValues
<1>2. f[k][1] \in References =>
        e[RefKey[f[k][1]]] = Or(f[RefKey[f[k][1]]], g[RefKey[f[k][1]]])
  BY RefKeys DEF Over
<1>3. ReadBy(f, g)[k] = Expand(f[k], e)
  BY DEF ReadBy
<1> HIDE DEF e
<1> QED
  BY <1>1, <1>2, <1>3, ExpandedText

(* What is filled in where nothing is.                                     *)
LEMMA FilledValues ==
  ASSUME NEW e \in [Keys -> EnvValue]
  PROVE  /\ Filled(e) \in [Keys -> EnvValue]
         /\ \A k \in Keys \ {"PATH_APPS", "PUID", "PGID"} : Filled(e)[k] = e[k]
         /\ \A k \in Keys : HasText(e[k]) => Filled(e)[k] = e[k]
BY EnvValues DEF Filled

(* What an .env resolves to, where a deploy takes it.                      *)
LEMMA ResolvedValues ==
  ASSUME NEW e \in [Keys -> EnvValue], EnvResolves(e)
  PROVE  /\ Resolution(e) \in [Keys -> EnvValue]
         /\ \A k \in Keys \ {"PATH_APPS", "VOLUMES_PATH", "PUID", "PGID"} :
              Resolution(e)[k] = e[k]
<1> DEFINE f == Filled(e)
           apps == [f EXCEPT !["PATH_APPS"] = Expand(@, f)]
<1>1. /\ f \in [Keys -> EnvValue]
      /\ \A k \in Keys \ {"PATH_APPS", "PUID", "PGID"} : f[k] = e[k]
  BY FilledValues
<1>3. {"PATH_APPS", "VOLUMES_PATH"} \subseteq Keys
  BY DEF Keys, AskedKeys
<1>4. Resolution(e) = [apps EXCEPT !["VOLUMES_PATH"] = Expand(@, apps)]
  BY DEF Resolution, Expanded
<1> HIDE DEF f
<1>5. apps \in [Keys -> EnvValue]
  <2>1. Expand(f["PATH_APPS"], f) \in EnvValue
    BY <1>1, <1>3, ExpandedValue
  <2> QED
    BY <1>1, <2>1
<1>6. apps["VOLUMES_PATH"] = f["VOLUMES_PATH"]
  BY <1>1, <1>3
<1>7. Expand(apps["VOLUMES_PATH"], apps) \in EnvValue
  BY <1>1, <1>3, <1>5, <1>6, ExpandedValue
<1> QED
  BY <1>1, <1>3, <1>4, <1>5, <1>7

(* The head of a sequence is one of its members, and what has three is not *)
(* empty.                                                                  *)
LEMMA SequenceHeads ==
  ASSUME NEW S, NEW v \in Seq(S)
  PROVE  /\ Len(v) >= 1 => v # <<>> /\ v[1] \in {v[i] : i \in DOMAIN v}
         /\ Len(v) >= 2 => Len(v) >= 1
         /\ Len(v) = 3 => v # <<>> /\ v # <<"">>
<1>1. Len(v) \in Nat /\ DOMAIN v = 1..Len(v)
  OBVIOUS
<1>2. Len(<<>>) = 0 /\ Len(<<"">>) = 1
  OBVIOUS
<1>3. Len(v) >= 1 => v # <<>> /\ 1 \in DOMAIN v
  BY <1>1, <1>2
<1>4. Len(v) = 3 => v # <<>> /\ v # <<"">>
  <2>1. Len(<<>>) # 3 /\ Len(<<"">>) # 3
    BY <1>2
  <2> QED
    BY <2>1, Zenon
<1> QED
  <2>1. Len(v) >= 2 => Len(v) >= 1
    BY <1>1
  <2> QED
    BY <1>3, <1>4, <2>1

(* An address has text, and a path too, that begins with no reference.     *)
LEMMA AcceptedHeads ==
  ASSUME NEW v \in EnvValue
  PROVE  /\ ValidAddress(v) => HasText(v)
         /\ ValidPath(v, 1) \/ ValidPath(v, 2) =>
              /\ HasText(v) /\ v[1] \notin References
              /\ \A f : RefersOnlyToPaths(v, f)
<1>1. /\ Len(v) >= 1 => v # <<>> /\ v[1] \in ComponentsOf(v)
      /\ Len(v) >= 2 => Len(v) >= 1
      /\ Len(v) = 3 => v # <<>> /\ v # <<"">>
  BY SequenceHeads, Zenon DEF EnvValue, ComponentsOf
<1>2. ValidAddress(v) => HasText(v)
  BY <1>1, Zenon DEF ValidAddress, HasText, None, Blank
<1>3. ASSUME ValidPath(v, 1) \/ ValidPath(v, 2)
      PROVE  /\ HasText(v) /\ v[1] \notin References
             /\ \A f : RefersOnlyToPaths(v, f)
  <2>1. /\ Len(v) >= 1
        /\ ComponentsOf(v) \cap (References \cup {"..", "?", ""}) = {}
    BY <1>1, <1>3, Zenon DEF ValidPath
  <2>2. v # <<>> /\ v[1] \in ComponentsOf(v)
    BY <1>1, <2>1, Zenon
  <2>3. v[1] \notin References /\ v[1] # ""
    <3> HIDE DEF References, ComponentsOf
    <3> QED
      BY <2>1, <2>2
  <2>4. v # <<"">>
    <3>1. <<"">>[1] = ""
      OBVIOUS
    <3> QED
      BY <2>3, <3>1, Zenon
  <2>5. \A f : RefersOnlyToPaths(v, f)
    <3>1. ComponentsOf(v) \cap References = {}
      BY <2>1
    <3> QED
      BY <3>1 DEF RefersOnlyToPaths
  <2> QED
    BY <2>2, <2>3, <2>4, <2>5 DEF HasText, None, Blank
<1> QED
  BY <1>2, <1>3

(* What server create has accepted, a deploy resolves as it is.            *)
LEMMA AcceptedResolves ==
  ASSUME NEW e \in [Keys -> EnvValue], \A k \in AskedKeys : Accepts(k, e[k]),
         ~Nested(e["PATH_APPS"], e["VOLUMES_PATH"]), ValidUser(e["SSH_USER"]),
         UserOf(e["SSH_ADDRESS"]) \in {None, e["SSH_USER"]}
  PROVE  EnvResolves(e)
<1>1. AskedKeys \subseteq Keys
  BY DEF Keys
<1>2. ValidAddress(e["SSH_ADDRESS"])
  BY DEF AskedKeys, Accepts
<1>3. /\ ValidId(e["DOCKER_GROUP_ID"]) /\ ValidId(e["PUID"])
      /\ ValidId(e["PGID"])
  BY DEF AskedKeys, Accepts
<1>4. ValidPath(e["VOLUMES_PATH"], 1) /\ ValidPath(e["PATH_APPS"], 2)
  BY DEF AskedKeys, Accepts
<1>5. /\ e["SSH_ADDRESS"] \in EnvValue /\ e["PATH_APPS"] \in EnvValue
      /\ e["VOLUMES_PATH"] \in EnvValue
  BY <1>1 DEF AskedKeys
<1>6. /\ HasText(e["DOCKER_GROUP_ID"]) /\ HasText(e["PUID"])
      /\ HasText(e["PGID"]) /\ HasText(e["SSH_USER"])
  BY <1>3 DEF ValidId, ValidUser, HasText
<1>7. HasText(e["SSH_ADDRESS"])
  BY <1>2, <1>5, AcceptedHeads
<1>8. /\ HasText(e["PATH_APPS"]) /\ HasText(e["VOLUMES_PATH"])
      /\ e["PATH_APPS"][1] \notin References
      /\ e["VOLUMES_PATH"][1] \notin References
      /\ \A f : /\ RefersOnlyToPaths(e["PATH_APPS"], f)
                /\ RefersOnlyToPaths(e["VOLUMES_PATH"], f)
  BY <1>4, <1>5, AcceptedHeads
<1>9. \A k \in Required : Filled(e)[k] = e[k] /\ HasText(e[k])
  <2>1. \A k \in Required : k \in Keys /\ HasText(e[k])
    BY <1>1, <1>6, <1>7, <1>8 DEF Required, AskedKeys
  <2> QED
    BY <2>1, FilledValues
<1>10. Filled(e) = e
  <2>1. \A k \in {"PATH_APPS", "PUID", "PGID"} : HasText(e[k])
    BY <1>6, <1>8
  <2> QED
    BY <2>1, FilledValues
<1>11. Resolution(e) = e
  <2>1. \A f : /\ Expand(e["PATH_APPS"], f) = e["PATH_APPS"]
               /\ Expand(e["VOLUMES_PATH"], f) = e["VOLUMES_PATH"]
    BY <1>8 DEF Expand
  <2>2. "PATH_APPS" \in Keys /\ "VOLUMES_PATH" \in Keys
    BY <1>1 DEF AskedKeys
  <2> QED
    BY <1>10, <2>1, <2>2 DEF Resolution, Expanded
<1> QED
  BY <1>2, <1>4, <1>8, <1>9, <1>10, <1>11 DEF EnvResolves

(* What server create has written, a deploy takes.                         *)
LEMMA WrittenIsTaken == CreateInv => CreatedIsDeployable
<1> SUFFICES ASSUME CreateInv, created = "ok", NEW r \in Roots,
                    ~Nested(env["PATH_APPS"], env["VOLUMES_PATH"]),
                    ValidUser(env["SSH_USER"]),
                    UserOf(env["SSH_ADDRESS"]) \in {None, env["SSH_USER"]}
             PROVE  EnvResolves(Over(r, env))
  BY DEF CreatedIsDeployable
<1>1. r \in [Keys -> EnvValue] /\ env \in [Keys -> EnvValue]
  BY DeployConstants DEF DeployConstants, CreateInv, CreateTypeOK
<1>2. \A k \in AskedKeys : k \in Keys /\ Accepts(k, env[k])
  BY DEF CreateInv, WrittenAccepted, Keys
<1>3. \A k \in AskedKeys : env[k] # None
  <2> SUFFICES ASSUME NEW k \in AskedKeys PROVE env[k] # None
    OBVIOUS
  <2>1. env[k] \in EnvValue /\ Accepts(k, env[k])
    BY <1>1, <1>2
  <2>2. CASE k = "SSH_ADDRESS"
    BY <2>1, <2>2, AcceptedHeads DEF Accepts, HasText
  <2>3. CASE k \in {"DOCKER_GROUP_ID", "PUID", "PGID"}
    BY <2>1, <2>3 DEF Accepts, ValidId
  <2>4. CASE k = "VOLUMES_PATH"
    BY <2>1, <2>4, AcceptedHeads DEF Accepts, HasText
  <2>5. CASE k = "PATH_APPS"
    BY <2>1, <2>5, AcceptedHeads DEF Accepts, HasText
  <2>6. CASE k \in {"SSH_USER", "TIMEZONE"}
    BY <2>1, <2>6 DEF Accepts
  <2> QED
    BY <2>2, <2>3, <2>4, <2>5, <2>6 DEF AskedKeys
<1>4. \A k \in AskedKeys : Over(r, env)[k] = env[k]
  BY <1>1, <1>2, <1>3 DEF Over, Or
<1>5. Over(r, env) \in [Keys -> EnvValue]
  BY <1>1, OverValues
<1>6. \A k \in AskedKeys : Accepts(k, Over(r, env)[k])
  BY <1>2, <1>4
<1>7. /\ ~Nested(Over(r, env)["PATH_APPS"], Over(r, env)["VOLUMES_PATH"])
      /\ ValidUser(Over(r, env)["SSH_USER"])
      /\ UserOf(Over(r, env)["SSH_ADDRESS"])
           \in {None, Over(r, env)["SSH_USER"]}
  BY <1>4 DEF AskedKeys
<1> QED
  BY <1>5, <1>6, <1>7, AcceptedResolves

(* The parts of an address are strings.                                    *)
LEMMA AddressParts ==
  ASSUME NEW v \in EnvValue, ValidAddress(v)
  PROVE  <<v[2]>> \in EnvValue /\ <<v[3]>> \in EnvValue
<1>1. \A S : \A w \in Seq(S) : Len(w) = 3 => w[2] \in S /\ w[3] \in S
  OBVIOUS
<1>2. v[2] \in STRING /\ v[3] \in STRING
  BY <1>1, Zenon DEF EnvValue, ValidAddress
<1> QED
  BY <1>2, EnvValues

(* The environment of a hook is one of values.                             *)
LEMMA HookValues ==
  ASSUME NEW s \in EnvStacks, NEW rt \in [Keys -> EnvValue],
         NEW sh \in [Keys \cup HookOnly -> EnvValue],
         NEW r \in [Keys -> EnvValue], ValidAddress(r["SSH_ADDRESS"]),
         env \in [Keys -> EnvValue]
  PROVE  HookEnv(s, rt, sh, r) \in [Keys \cup HookOnly -> EnvValue]
<1>1. r["SSH_ADDRESS"] \in EnvValue
  BY DEF Keys, AskedKeys
<1>2. /\ <<r["SSH_ADDRESS"][2]>> \in EnvValue
      /\ <<r["SSH_ADDRESS"][3]>> \in EnvValue
  BY <1>1, AddressParts
<1>3. <<"true">> \in EnvValue /\ None \in EnvValue /\ <<s>> \in EnvValue
  BY EnvValues DEF EnvStacks
<1>4. Over(rt, env) \in [Keys -> EnvValue]
  BY OverValues
<1>5. \A k \in Keys \cup HookOnly :
        k \notin Keys => k \in HookOnly /\ ~MayPass(k, s)
  BY TokenKeys DEF MayPass, Keys, Token, EnvStacks, TokenKeys
<1>6. \A k \in Keys \cup HookOnly :
        MayPass(k, s) => Or(Over(rt, env)[k], sh[k]) \in EnvValue
  BY <1>4, <1>5, EnvValues
<1>7. \A k \in {"SSH_ADDRESS", "SSH_USER", "PATH_APPS"} : r[k] \in EnvValue
  BY DEF Keys, AskedKeys
<1> QED
  BY <1>2, <1>3, <1>6, <1>7 DEF HookEnv

(* What a deploy has taken it works with.                                  *)
LEMMA TakesValues ==
  ASSUME CreateTypeOK, DeployTypes, DeployTakes
  PROVE  /\ root' \in [Keys -> EnvValue] /\ envs' \in [EnvStacks -> EnvValue]
         /\ Over(root', env) \in [Keys -> EnvValue]
         /\ EnvResolves(Over(root', env))
         /\ resolved' = Resolution(Over(root', env))
         /\ resolved' \in [Keys -> EnvValue]
         /\ ValidAddress(resolved'["SSH_ADDRESS"])
         /\ DeployTypes'
<1>1. /\ root' \in [Keys -> EnvValue] /\ envs' \in [EnvStacks -> EnvValue]
      /\ shell' \in [Keys \cup HookOnly -> EnvValue]
      /\ reads' \in 0..MaxReads /\ env \in [Keys -> EnvValue]
  BY DeployConstants
     DEF DeployConstants, DeployTakes, DeployReads, DeployTypes, CreateTypeOK
<1>2. Over(root', env) \in [Keys -> EnvValue]
  BY <1>1, OverValues
<1>3. EnvResolves(Over(root', env)) /\ resolved' = Resolution(Over(root', env))
  BY DEF DeployTakes, Acceptable
<1>4. resolved' \in [Keys -> EnvValue]
  BY <1>2, <1>3, ResolvedValues
<1>5. ValidAddress(resolved'["SSH_ADDRESS"])
  BY <1>3 DEF EnvResolves
<1>6. composed' \in [Keys -> EnvValue]
  <2> DEFINE sent == Sent(envs', resolved')
             first == ReadBy(root', NoValues)
  <2>1. sent \in [Keys -> EnvValue]
    BY <1>1, <1>4, EnvValues, ExpandedValue DEF Sent, EnvStacks, Or
  <2>2. first \in [Keys -> EnvValue]
    BY <1>1, EnvValues, ReadValues DEF NoValues
  <2>3. composed' = Over(first, ReadBy(sent, first))
    BY DEF DeployTakes, Composed
  <2> HIDE DEF sent, first
  <2> QED
    BY <2>1, <2>2, <2>3, ReadValues, OverValues
<1>7. hookEnvs' \in [EnvStacks -> [Keys \cup HookOnly -> EnvValue]]
  <2>1. \A s \in EnvStacks : HookEnv(s, root', shell', resolved')
                               \in [Keys \cup HookOnly -> EnvValue]
    BY <1>1, <1>4, <1>5, HookValues
  <2> QED
    BY <2>1 DEF DeployTakes
<1> QED
  BY <1>1, <1>2, <1>3, <1>4, <1>5, <1>6, <1>7
     DEF DeployTypes, DeployTakes, HollowToken

(* A hook gets what the deploy works with.                                 *)
LEMMA TakesHooks ==
  ASSUME CreateTypeOK, DeployTypes, DeployTakes
  PROVE  HooksFollowDeploy'
<1> SUFFICES ASSUME NEW s \in EnvStacks
             PROVE
      /\ UserOf(resolved'["SSH_ADDRESS"]) \in {None, hookEnvs'[s]["SSH_USER"]}
      /\ hookEnvs'[s]["PATH_APPS"] = resolved'["PATH_APPS"]
      /\ IF resolved'["SSH_ADDRESS"] = <<"", "local", "">>
           THEN /\ hookEnvs'[s]["SSH_HOST"] = None
                /\ hookEnvs'[s]["SSH_LOCAL"] = <<"true">>
           ELSE /\ hookEnvs'[s]["SSH_HOST"] = <<resolved'["SSH_ADDRESS"][2]>>
                /\ hookEnvs'[s]["SSH_LOCAL"] = None
      /\ hookEnvs'[s]["SSH_PORT"] # None =>
           hookEnvs'[s]["SSH_PORT"] = <<resolved'["SSH_ADDRESS"][3]>>
      /\ \A k \in {Token[t] : t \in EnvStacks \ {s}} \cup Denied :
           hookEnvs'[s][k] = shell'[k]
  BY Zenon DEF HooksFollowDeploy
<1>1. hookEnvs'[s] = HookEnv(s, root', shell', resolved')
  BY DEF DeployTakes
<1>2. HookOnly \cup {"SSH_ADDRESS", "SSH_USER", "PATH_APPS"}
        \subseteq Keys \cup HookOnly
  BY DEF Keys, AskedKeys
<1>3. /\ hookEnvs'[s]["SSH_USER"] = resolved'["SSH_USER"]
      /\ hookEnvs'[s]["PATH_APPS"] = resolved'["PATH_APPS"]
  BY <1>1, <1>2 DEF HookEnv
<1>4. UserOf(resolved'["SSH_ADDRESS"]) \in {None, resolved'["SSH_USER"]}
  BY TakesValues DEF EnvResolves
<1>5. IF resolved'["SSH_ADDRESS"] = <<"", "local", "">>
        THEN /\ hookEnvs'[s]["SSH_HOST"] = None
             /\ hookEnvs'[s]["SSH_LOCAL"] = <<"true">>
        ELSE /\ hookEnvs'[s]["SSH_HOST"] = <<resolved'["SSH_ADDRESS"][2]>>
             /\ hookEnvs'[s]["SSH_LOCAL"] = None
  BY <1>1, <1>2 DEF HookEnv, HookOnly
<1>6. hookEnvs'[s]["SSH_PORT"] # None =>
        hookEnvs'[s]["SSH_PORT"] = <<resolved'["SSH_ADDRESS"][3]>>
  BY <1>1, <1>2 DEF HookEnv, HookOnly
<1>7. ASSUME NEW k \in {Token[t] : t \in EnvStacks \ {s}} \cup Denied
      PROVE  hookEnvs'[s][k] = shell'[k]
  <2>1. k \in {"A_TOKEN", "B_TOKEN", "LD_PRELOAD"} /\ k \in Keys
    BY TokenKeys DEF Token, Denied, EnvStacks, Keys, TokenKeys
  <2>2. ~MayPass(k, s)
    BY <2>1 DEF MayPass, Token, Denied, EnvStacks, AskedKeys
  <2> QED
    BY <1>1, <2>1, <2>2 DEF HookEnv
<1> QED
  BY <1>3, <1>4, <1>5, <1>6, <1>7

(* The token the check has found is in what compose reads: compose and the *)
(* check differ only over an entry that is contested and over references.  *)
LEMMA TakesToken ==
  ASSUME CreateTypeOK, DeployTypes, DeployTakes,
         HasValue("A_TOKEN", resolved', envs'),
         resolved'["A_TOKEN"] = Or(env["A_TOKEN"], root'["A_TOKEN"])
  PROVE  HasText(composed'["A_TOKEN"]) \/ Contested' \/ hollow'
<1> DEFINE sent == Sent(envs', resolved')
           first == ReadBy(root', NoValues)
           A == "A_TOKEN"
<1> SUFFICES ASSUME ~Contested', ~hollow'
             PROVE  HasText(composed'[A])
  OBVIOUS
<1>1. /\ A \in Keys /\ None # Blank /\ None \in EnvValue
      /\ env \in [Keys -> EnvValue]
      /\ root' \in [Keys -> EnvValue] /\ envs' \in [EnvStacks -> EnvValue]
      /\ resolved' \in [Keys -> EnvValue] /\ NoValues \in [Keys -> EnvValue]
  BY RefKeys, EnvValues, TakesValues
     DEF CreateTypeOK, None, Blank, NoValues
<1>2. /\ envs'["a"] = None \/ envs'["b"] = None
      /\ root'[A] # None => envs'["a"] # Blank /\ envs'["b"] # Blank
  BY DEF Contested, EnvStacks
<1>3. ASSUME NEW v \in {root'[A], env[A], envs'["a"], envs'["b"]},
             NEW r \in ComponentsOf(v) \cap References
      PROVE  /\ root'[RefKey[r]] # Blank /\ env[RefKey[r]] # Blank
             /\ ComponentsOf(root'[RefKey[r]]) \cap References = {}
             /\ ComponentsOf(env[RefKey[r]]) \cap References = {}
  BY <1>3 DEF HollowToken, DeployTakes
<1>4. \A v \in EnvValue : v # None => v[1] \in ComponentsOf(v)
  BY DEF EnvValue, ComponentsOf, None
<1>5. /\ ~Dangling(root', NoValues) /\ ~Dangling(env, root')
      /\ NamesKnown(envs', resolved')
  BY TakesValues DEF DeployTakes, Acceptable
<1>6. /\ sent = [env EXCEPT ![A] = Or(env[A], Or(Expand(envs'["a"], resolved'),
                                               Expand(envs'["b"], resolved')))]
      /\ sent \in [Keys -> EnvValue]
  BY <1>1, ExpandedValue DEF Sent, EnvStacks, Or
<1>7. first \in [Keys -> EnvValue]
  BY <1>1, ReadValues
<1>8. composed'[A] = Or(ReadBy(sent, first)[A], first[A])
  BY <1>1, <1>7 DEF DeployTakes, Composed, Over, ReadBy
<1> HIDE DEF sent, first
<1>9. CASE env[A] # None
  <2>1. HasText(env[A]) /\ sent[A] = env[A]
    BY <1>1, <1>6, <1>9 DEF HasValue, Or
  <2>2. ASSUME env[A][1] \in References
        PROVE  LET k == RefKey[env[A][1]] IN
               k # A /\ HasText(Or(sent[k], first[k]))
    <3> DEFINE r == env[A][1]
               k == RefKey[r]
    <3>1. r \in ComponentsOf(env[A]) \cap References /\ k \in Keys
      BY <1>1, <1>4, <1>9, <2>2, RefKeys
    <3>2. /\ root'[k] # Blank /\ env[k] # Blank
          /\ ComponentsOf(root'[k]) \cap References = {}
          /\ ComponentsOf(env[k]) \cap References = {}
      BY <1>3, <3>1
    <3>3. k # A
      BY <3>1, <3>2
    <3>4. env[k] # None \/ root'[k] # None
      BY <1>1, <1>5, <3>1 DEF Dangling
    <3>5. sent[k] = env[k]
      BY <1>1, <1>6, <3>1, <3>3
    <3>6. first[k] = root'[k]
      BY <1>1, <1>4, <3>1, <3>2 DEF first, ReadBy, Expand
    <3> QED
      BY <3>2, <3>3, <3>4, <3>5, <3>6 DEF Or, HasText
  <2>3. HasText(ReadBy(sent, first)[A])
    BY <1>1, <1>6, <1>7, <2>1, <2>2, ReadText
  <2> QED
    BY <1>8, <2>3 DEF Or, HasText
<1>10. CASE env[A] = None /\ (envs'["a"] # None \/ envs'["b"] # None)
  <2>1. PICK v \in {envs'["a"], envs'["b"]} :
          /\ v # None /\ sent[A] = Expand(v, resolved')
          /\ Or(envs'["b"], envs'["a"]) = v
    BY <1>1, <1>2, <1>6, <1>10 DEF Or, Expand
  <2>2. HasText(v) /\ v \in EnvValue
    BY <1>1, <1>2, <1>10, <2>1 DEF HasValue, Shared, HasText, Or, EnvStacks
  <2>3. ASSUME v[1] \in References
        PROVE  /\ HasText(resolved'[RefKey[v[1]]])
               /\ resolved'[RefKey[v[1]]][1] \notin References
    <3> DEFINE k == RefKey[v[1]]
    <3>1. /\ v[1] \in ComponentsOf(v) \cap References
          /\ k \in {"PATH_APPS", "BASE_PATH", "A_TOKEN"} /\ k \in Keys
      BY <1>4, <2>1, <2>2, <2>3, RefKeys
    <3>2. resolved'[k] # None
      BY <1>5, <2>1, <3>1 DEF NamesKnown, EnvStacks
    <3>3. CASE k = "PATH_APPS"
      <4>1. ValidPath(resolved'[k], 2)
        BY <3>3, TakesValues DEF EnvResolves
      <4>2. Len(resolved'[k]) >= 2
            /\ ComponentsOf(resolved'[k]) \cap References = {}
        BY <4>1 DEF ValidPath
      <4>3. Len(Blank) = 1
        BY DEF Blank
      <4> QED
        <5>1. resolved'[k] # Blank
          <6>1. resolved'[k] = Blank => Len(resolved'[k]) = 1
            BY <4>3, Zenon
          <6>2. Len(resolved'[k]) # 1
            <7>1. Len(resolved'[k]) \in Nat
              BY <1>1, <3>1, LenProperties DEF EnvValue
            <7>2. Len(resolved'[k]) >= 2
              BY <4>1, Zenon DEF ValidPath
            <7>3. \A i \in Nat : i >= 2 => i # 1
              OBVIOUS
            <7> QED
              BY <7>1, <7>2, <7>3, Zenon
          <6> QED
            BY <6>1, <6>2
        <5>2. resolved'[k][1] \in ComponentsOf(resolved'[k])
          BY <1>1, <1>4, <3>1, <3>2
        <5> QED
          BY <3>2, <4>2, <5>1, <5>2 DEF HasText
    <3>4. CASE k # "PATH_APPS"
      <4>1. resolved'[k] = Or(env[k], root'[k])
        <5>1. k \notin {"PATH_APPS", "VOLUMES_PATH", "PUID", "PGID"}
          BY <3>1, <3>4
        <5>2. resolved'[k] = Over(root', env)[k]
          BY <3>1, <5>1, TakesValues, ResolvedValues
        <5> QED
          BY <1>1, <3>1, <5>2 DEF Over
      <4>2. /\ root'[k] # Blank /\ env[k] # Blank
            /\ ComponentsOf(root'[k]) \cap References = {}
            /\ ComponentsOf(env[k]) \cap References = {}
        BY <1>3, <2>1, <3>1
      <4>3. ComponentsOf(resolved'[k]) \cap References = {}
            /\ resolved'[k] # Blank
        BY <4>1, <4>2 DEF Or
      <4> QED
        BY <1>1, <1>4, <3>1, <3>2, <4>3 DEF HasText
    <3> QED
      BY <3>3, <3>4
  <2>4. HasText(sent[A]) /\ sent[A][1] \notin References
    BY <1>1, <2>1, <2>2, <2>3, ExpandedText
  <2>5. HasText(ReadBy(sent, first)[A])
    BY <1>1, <1>6, <1>7, <2>4, ReadText
  <2> QED
    BY <1>8, <2>5 DEF Or, HasText
<1>11. CASE env[A] = None /\ envs'["a"] = None /\ envs'["b"] = None
  <2>1. sent[A] = None
    BY <1>1, <1>6, <1>11 DEF Or, Expand
  <2>2. HasText(root'[A])
    BY <1>11 DEF HasValue, Shared, Or, HasText
  <2>3. ASSUME root'[A][1] \in References
        PROVE  LET k == RefKey[root'[A][1]] IN
               k # A /\ HasText(Or(root'[k], NoValues[k]))
    <3> DEFINE r == root'[A][1]
               k == RefKey[r]
    <3>1. r \in ComponentsOf(root'[A]) \cap References /\ k \in Keys
      BY <1>1, <1>4, <2>2, <2>3, RefKeys DEF HasText
    <3>2. /\ root'[k] # Blank
          /\ ComponentsOf(root'[k]) \cap References = {}
      BY <1>3, <3>1
    <3>3. k # A /\ NoValues[k] = None
      BY <3>1, <3>2 DEF NoValues
    <3>4. root'[k] # None
      BY <1>1, <1>5, <3>1, <3>3 DEF Dangling
    <3> QED
      BY <3>2, <3>3, <3>4 DEF Or, HasText
  <2>4. HasText(first[A])
    BY <1>1, <2>2, <2>3, ReadText DEF first
  <2>5. ReadBy(sent, first)[A] = None
    BY <1>1, <2>1 DEF ReadBy, Expand
  <2> QED
    BY <1>8, <2>4, <2>5 DEF Or
<1> QED
  BY <1>9, <1>10, <1>11

(* What a deploy takes is no danger to the data, and has its token.        *)
LEMMA TakesSound ==
  ASSUME CreateTypeOK, DeployTypes, DeployTakes
  PROVE  TakenIsSound'
<1> DEFINE e == Over(root', env)
<1>1. /\ ~Nested(resolved'["PATH_APPS"], resolved'["VOLUMES_PATH"])
      /\ ValidPath(resolved'["PATH_APPS"], 2)
      /\ ValidPath(resolved'["VOLUMES_PATH"], 1)
  BY TakesValues DEF EnvResolves
<1>2. References \cap (ComponentsOf(resolved'["PATH_APPS"])
                       \cup ComponentsOf(resolved'["VOLUMES_PATH"])) = {}
  BY <1>1 DEF ValidPath
<1>3. "A_TOKEN" \in Keys
  BY TokenKeys DEF Keys, TokenKeys
<1>4. /\ root' \in [Keys -> EnvValue] /\ env \in [Keys -> EnvValue]
      /\ envs' \in [EnvStacks -> EnvValue] /\ e \in [Keys -> EnvValue]
  BY TakesValues DEF CreateTypeOK
<1>5. HasValue("A_TOKEN", resolved', envs')
  <2>1. Missing("a", resolved', envs') = {}
    BY DEF DeployTakes, Acceptable, EnvStacks
  <2>2. Token["a"] = "A_TOKEN" /\ Needs("a", "A_TOKEN")
    BY DEF Token, EnvStacks, Needs, Uses
  <2> QED
    BY <2>1, <2>2 DEF Missing
<1>6. resolved'["A_TOKEN"] = Or(env["A_TOKEN"], root'["A_TOKEN"])
  <2>1. resolved'["A_TOKEN"] = e["A_TOKEN"]
    BY <1>3, <1>4, TakesValues, ResolvedValues
  <2> QED
    BY <1>3, <1>4, <2>1 DEF Over
<1>7. HasText(composed'["A_TOKEN"]) \/ Contested' \/ hollow'
  BY <1>4, <1>5, <1>6, TakesToken
<1>8. (HasText(composed["A_TOKEN"]) \/ Contested \/ hollow)'
        <=> HasText(composed'["A_TOKEN"]) \/ Contested' \/ hollow'
  BY DEF HasText, None, Blank
<1> QED
  BY <1>1, <1>2, <1>7, Zenon DEF TakenIsSound, References, RefKey

(* No deploy touches what server create works with.                        *)
LEMMA DeployLeavesCreate ==
  [ServerNext]_serverVars => [CreateNext]_createVars
BY DEF ServerNext, serverVars, DeployTakes, DeployRefuses, DeployReads

(* What is true of a deploy that has taken its files stays so.             *)
LEMMA DeployStep ==
  CreateTypeOK /\ TakenInv /\ [ServerNext]_serverVars => TakenInv'
<1> SUFFICES ASSUME CreateTypeOK, TakenInv, [ServerNext]_serverVars
             PROVE  TakenInv'
  OBVIOUS
<1> USE DEF TakenInv
<1>1. CASE DeployTakes
  BY <1>1, TakesValues, TakesHooks, TakesSound
<1>2. CASE DeployRefuses
  <2>1. DeployTypes'
    <3>1. DeployReads /\ deployed' = "refused"
          /\ UNCHANGED <<resolved, composed, hookEnvs, hollow>>
      BY <1>2 DEF DeployRefuses
    <3>2. /\ root' \in [Keys -> EnvValue] /\ envs' \in [EnvStacks -> EnvValue]
          /\ shell' \in [Keys \cup HookOnly -> EnvValue]
          /\ reads' \in 0..MaxReads
      BY <3>1, DeployConstants DEF DeployReads, DeployConstants, DeployTypes
    <3> HIDE DEF TakenInv
    <3> QED
      BY <3>1, <3>2, Zenon DEF TakenInv, DeployTypes
  <2>2. deployed' = "refused"
    BY <1>2 DEF DeployRefuses
  <2> QED
    BY <2>1, <2>2 DEF HooksFollowDeploy, TakenIsSound
<1>3. CASE CreateNext /\ UNCHANGED deployEnvVars
  <2>1. UNCHANGED deployEnvVars
    BY <1>3
  <2>2. DeployTypes'
    BY <2>1 DEF DeployTypes, deployEnvVars
  <2>3. HooksFollowDeploy'
    BY <2>1 DEF HooksFollowDeploy, deployEnvVars
  <2>4. TakenIsSound'
    BY <2>1 DEF TakenIsSound, Contested, deployEnvVars
  <2> QED
    BY <2>2, <2>3, <2>4
<1>4. CASE UNCHANGED serverVars
  <2>1. UNCHANGED deployEnvVars
    BY <1>4 DEF serverVars
  <2>2. DeployTypes'
    BY <2>1 DEF DeployTypes, deployEnvVars
  <2>3. HooksFollowDeploy'
    BY <2>1 DEF HooksFollowDeploy, deployEnvVars
  <2>4. TakenIsSound'
    BY <2>1 DEF TakenIsSound, Contested, deployEnvVars
  <2> QED
    BY <2>2, <2>3, <2>4
<1> QED
  BY <1>1, <1>2, <1>3, <1>4 DEF ServerNext

(* Before the first deploy every file is empty.                            *)
LEMMA ServerBegins == DeployEnvInit => CreateInv /\ TakenInv
<1> SUFFICES ASSUME DeployEnvInit PROVE CreateInv /\ TakenInv
  OBVIOUS
<1>1. None \in EnvValue
  BY EnvValues
<1>2. DeployTypes
  <2>1. hollow \in BOOLEAN /\ reads \in 0..MaxReads
    <3>1. reads = 0 /\ MaxReads \in Nat
      BY DeployConstants, Zenon DEF DeployEnvInit, DeployConstants
    <3>2. hollow \in BOOLEAN
      BY Zenon DEF DeployEnvInit
    <3> QED
      BY <3>1, <3>2
  <2>2. deployed \in {"no", "refused", "taken"}
    BY DEF DeployEnvInit
  <2> QED
    BY <1>1, <2>1, <2>2
       DEF DeployEnvInit, DeployTypes, NoValues, NoShell, NoHooks
<1>3. HooksFollowDeploy /\ TakenIsSound
  BY DEF DeployEnvInit, HooksFollowDeploy, TakenIsSound
<1> QED
  BY <1>2, <1>3, CreateBegins DEF DeployEnvInit, TakenInv

(* From the first question server create asks to the hooks of a deploy: a  *)
(* rerun that is told nothing changes nothing, no container is made root's *)
(* unasked, what is written a deploy takes, and what a deploy has taken    *)
(* endangers no data, has its token, and is what its hooks work with.      *)
THEOREM ServerFilesSound ==
  DeployEnvInit /\ [][ServerNext]_serverVars =>
    /\ RerunKeeps /\ RootOnlyAsked
    /\ [](CreatedIsDeployable /\ HooksFollowDeploy /\ TakenIsSound)
    /\ []ServerTypeOK
<1>1. CreateInv /\ TakenInv /\ [ServerNext]_serverVars =>
        (CreateInv /\ TakenInv)'
  BY CreateStep, DeployStep, DeployLeavesCreate DEF CreateInv
<1>2. CreateInv /\ TakenInv =>
        /\ CreatedIsDeployable /\ HooksFollowDeploy /\ TakenIsSound
        /\ ServerTypeOK
  BY WrittenIsTaken DEF TakenInv, CreateInv, DeployTypes, ServerTypeOK
<1>3. CreateInv /\ TakenInv /\ [ServerNext]_serverVars =>
        [KeepsUnasked]_createVars /\ [RootWritten]_createVars
  BY CreateKeeps, CreateNoRoot, DeployLeavesCreate
<1>4. RerunKeeps <=> [][KeepsUnasked]_createVars
  BY DEF RerunKeeps, KeepsUnasked
<1>5. RootOnlyAsked <=> [][RootWritten]_createVars
  BY DEF RootOnlyAsked, RootWritten
<1> QED
  BY <1>1, <1>2, <1>3, <1>4, <1>5, ServerBegins, PTL
=============================================================================
