----------------------------- MODULE StackProofs ----------------------------
(* What the properties of the stacks' own scripts and hooks rest on.  Each *)
(* is proved for any constants, of any behaviour of its part.              *)
EXTENDS PgUpgrade, MailServer, ConfigFile, Sieve, Syncthing, TLAPS

-----------------------------------------------------------------------------
(* PgUpgrade.  Where the rows are: under the old folder's name or its new  *)
(* one, until Postgres 18 has all of them and nothing says it has not.     *)
OldData == IF data["db"] = Absent THEN data["kept"] = written
           ELSE data["db"] = written
Finished ==
  /\ data["db"] = Absent /\ data["new"] = written
  /\ ~marker /\ upAt \in {"done", "off"} /\ pg # "16"

RowsSomewhere ==
  ~cut =>
    /\ pg # "18" => OldData
    /\ pg = "18" \/ check = "passed" => Finished
    /\ data["new"] # Absent /\ ~marker => Finished

(* No folder has more rows than the app has written.                       *)
RowsCounted ==
  \A f \in DOMAIN data : data[f] = Absent \/ data[f] <= written

(* Where the script is, and what it has done to the folder by then.        *)
Before == {"stopApps", "dump", "stopDb", "rename"}
Beyond == {"flagged", "start", "restore", "count", "finish", "done"}
FolderFollows ==
  /\ pg = "16" => data["db"] # Absent /\ upAt # "rename"
  /\ upAt \in Before => data["db"] # Absent /\ ~moved
  /\ upAt = "renamed" => data["db"] = Absent /\ ~moved
  /\ upAt \in Beyond => data["db"] = Absent /\ moved
  /\ upAt = "moveBack" => data["db"] = Absent

(* What the dump holds while nothing can write, if no deploy came between. *)
DumpHoldsAll ==
  /\ dump <= written
  /\ ~cut =>
       /\ upAt \in {"dump", "stopDb", "rename", "renamed"} \cup Beyond =>
            ~apps \/ pg = "18"
       /\ upAt \in {"stopDb", "rename", "renamed"} \cup (Beyond \ {"done"}) =>
            dump = written
       /\ upAt = "finish" => data["new"] = dump
       /\ upAt = "done" => Finished
       /\ upAt \in {"start", "restore", "count", "finish"} => marker

(* The types once more, by what they are.                                  *)
PgSets ==
  /\ data \in [{"db", "kept", "new"} -> 0..Absent] /\ dump \in 0..MaxRows
  /\ pg \in {"none", "16", "18"} /\ upAt \in PgSteps \cup Undoing \cup {"off"}
  /\ check \in {"none", "passed"} /\ written \in 0..MaxRows
  /\ upgrades \in 0..MaxUpgrades
PgFlags ==
  /\ marker \in BOOLEAN /\ apps \in BOOLEAN
  /\ moved \in BOOLEAN /\ cut \in BOOLEAN

PgInv ==
  /\ PgSets /\ PgFlags /\ RowsSomewhere /\ FolderFollows /\ DumpHoldsAll
  /\ RowsCounted

-----------------------------------------------------------------------------
(* MailServer.  Beyond the hook that wrote compose.yml, what a deploy      *)
(* serves is what its .env lists.                                          *)
ServesListed ==
  mailAt \in {"preflight", "up", "healthy", "manual", "reread", "match",
              "rest", "ok"} =>
    BadName \notin listed /\ served = listed \ {Primary}

(* Whatever has been compared belongs to Stalwart no more, and is right.   *)
ComparedHold ==
  mailAt \in {"match", "rest", "ok"} =>
    /\ Expected \subseteq manual
    /\ \A d \in Expected \ toMatch : d \in dual /\ keys[d] = dns[d]
    /\ mailAt # "match" => toMatch = {}

(* Keys are rotated a step at a time.                                      *)
RotatedAtMost == \A d \in MailDomains : keys[d] <= mailMoves

(* The types once more, by what they are.                                  *)
MailSets ==
  /\ mailAt \in Steps \cup {"idle", "ok", "failed"}
  /\ listed \subseteq MailDomains \cup {BadName}
  /\ served \subseteq MailDomains \ {Primary}
  /\ manual \subseteq MailDomains /\ dual \subseteq MailDomains
  /\ toMatch \subseteq MailDomains
  /\ verdict \in Verdicts
  /\ settings \subseteq Extra \cup UNION InOrder
KeyTypes ==
  /\ keys \in [MailDomains -> 0..MaxMail]
  /\ dns \in [MailDomains -> 0..MaxMail]
  /\ mailMoves \in 0..MaxMail /\ runs \in 0..MaxMail
MailFlags == initial \in BOOLEAN /\ running \in BOOLEAN

MailInv ==
  /\ MailSets /\ KeyTypes /\ MailFlags /\ ServesListed /\ ComparedHold
  /\ RotatedAtMost /\ StoppedWhenWrong

-----------------------------------------------------------------------------
(* ConfigFile.  Texts, files and containers, as records.                   *)
Texts == (0..2) \X (0..MaxCfRuns)
CfFiles == [text : Texts, mtime : 0..MaxCfTime, ctime : 0..MaxCfTime]
CfContainers ==
  [text : Texts, label : Texts, since : 0..MaxCfTime, again : BOOLEAN]
CfRecords ==
  /\ server \in CfFiles /\ saw \in CfFiles /\ staged \in CfFiles
  /\ container \in CfContainers
CfPlaces ==
  /\ app \in {"traefik", "gatus", "authelia"} /\ wish \in 1..2
  /\ cfAt \in CfSteps \cup {"idle", "ok", "failed"}
  /\ clock \in 0..MaxCfTime /\ cfRuns \in 0..MaxCfRuns
CfFlags == ownFile \in BOOLEAN /\ settled \in BOOLEAN /\ blind \in BOOLEAN

(* Nothing is from the future, and the file on the server is from a second *)
(* before that of a deploy which has not sent its own.                     *)
TimesPassed ==
  /\ clock >= 2 /\ server.ctime <= clock /\ container.since <= clock
  /\ staged.ctime <= clock /\ (staged # NotThere => staged.ctime >= 2)
  /\ IF staged = NotThere THEN Sec(server.mtime) < Sec(clock)
     ELSE Sec(server.mtime) <= Sec(staged.ctime)
  /\ cfAt = "rsync" => Sec(server.mtime) < Sec(staged.ctime)

(* What is staged fits the settings, and is what the server has once it is *)
(* sent: a file with the server's time has the server's bytes.             *)
StagedFits ==
  /\ cfAt \in {"read", "render"} => staged = NotThere
  /\ cfAt \in {"rsync", "up", "after"} =>
       staged # NotThere /\ Fits(staged.text)
  /\ cfAt = "render" => saw \in {server, NotThere}
  /\ cfAt = "rsync" =>
       \/ staged.mtime = staged.ctime
       \/ staged.mtime = server.mtime /\ staged.text = server.text
  /\ cfAt \in {"up", "after"} => server.text = staged.text
  /\ cfAt \in {"up", "after", "ok"} => Fits(server.text)
  /\ cfAt \in {"read", "after"} => app # "authelia"

(* What the container has loaded, as far as its start tells.               *)
ContainerKnows ==
  /\ container # NoContainer /\ Sec(container.since) > Sec(server.ctime) =>
       container.text = server.text
  /\ app = "authelia" /\ container # NoContainer =>
       container.again \/ container.text = container.label
  /\ cfAt \in {"after", "ok"} => container # NoContainer
  /\ ServesCurrent

(* A deploy for which nothing had to change finds that nothing has.        *)
SettledStays ==
  /\ app # "traefik" => server.text[2] = 0 /\ staged.text[2] = 0
  /\ settled /\ cfAt \in CfSteps =>
       /\ container # NoContainer
       /\ app = "authelia" => container.label = <<wish, 0>>
  /\ settled /\ ~blind /\ cfAt \in CfSteps /\ app # "authelia" =>
       /\ Sec(server.ctime) < Sec(container.since)
       /\ server.text[1] = wish
       /\ cfAt = "render" => saw = server
       /\ cfAt = "rsync" => staged.mtime = server.mtime

CfInv ==
  /\ CfRecords /\ CfPlaces /\ CfFlags /\ TimesPassed /\ StagedFits
  /\ ContainerKnows /\ SettledStays

-----------------------------------------------------------------------------
(* Sieve.  Which scripts there are, and which of them is active.           *)
NoOwnScript ==
  redirect /\ ~ownerActed /\ sieveAt \in {"query", "swap"} => active # "own"
FoundAll == sieveAt = "swap" => replaced = scripts
NewScript ==
  sieveAt \in {"boxes", "search", "move", "bounces", "done", "ok"} =>
    /\ scripts = {"new"}
    /\ ~ownerActed => active = "new"

(* The messages: only bounces are ever deleted, and what a run has done by *)
(* the time it reaches a step.                                             *)
Sorted(m) == inBox[m] \in {TargetOf(m), "gone"}
MailSorted ==
  /\ \A m \in Mails : inBox[m] = "gone" => m \in Bounces
  /\ sieveAt \in {"boxes", "search", "move", "bounces", "done"} => tidy # "no"
  /\ sieveAt = "bounces" => tidy = "all"
  /\ ~missed /\ ~ownerActed =>
       /\ sieveAt = "move" => \A m \in Matching \ toMove : Sorted(m)
       /\ sieveAt \in {"bounces", "done"} => \A m \in Matching : Sorted(m)
       /\ sieveAt = "done" /\ tidy = "all" =>
            \A m \in Bounces : inBox[m] = "gone"

(* The types once more, by what they are.                                  *)
SieveSets ==
  /\ sieveAt \in SieveSteps \cup {"idle", "ok", "failed"}
  /\ tidy \in {"no", "move", "all"}
  /\ scripts \subseteq {"old", "new"} /\ replaced \subseteq {"old", "new"}
  /\ active \in {"none", "old", "new", "own"}
  /\ boxes \subseteq Targets /\ toMove \subseteq Matching
  /\ sieveRuns \in 0..MaxSieve
BoxTypes == inBox \in [Mails -> Places]
SieveFlags ==
  /\ redirect \in BOOLEAN /\ account \in BOOLEAN
  /\ missed \in BOOLEAN /\ ownerActed \in BOOLEAN

SieveInv ==
  /\ SieveSets /\ BoxTypes /\ SieveFlags /\ NoOwnScript /\ FoundAll
  /\ NewScript /\ MailSorted

-----------------------------------------------------------------------------
(* Syncthing.  The folders a run of the hooks has made so far; and from    *)
(* where it has gone on, all of them.                                      *)
MadeSoFar ==
  syncAt = "dirs" /\ file # NoFile =>
    /\ HostPaths(file) \subseteq HostDirs
    /\ \A d \in HostPaths(file) \ makeDirs : hostDir[d] = "dir"

(* What a run has still to send is of its file, and while nobody else      *)
(* writes, what it has read of it is still what is there.                  *)
LeftOfFile ==
  /\ syncAt = "devices" => entriesLeft \subseteq EntryNames(file)
  /\ syncAt \in {"devices", "folders"} =>
       foldersLeft \subseteq FileFolders(file)
SeenIsThere ==
  ~meddled =>
    /\ syncAt = "readDevices" => seen.folder = folder
    /\ syncAt \in {"devices", "folders"} =>
         \A f \in foldersLeft : seen.folder[f] = folder[f]
    /\ syncAt = "devices" =>
         \A i \in Ids : seen.device[i].extra = device[i].extra
    /\ syncAt = "verify" => seen.device = device

(* The types once more, by what they are.                                  *)
SyncSets ==
  /\ syncAt \in SyncRunning \cup {"idle", "ok", "failed"}
  /\ file \in Files \cup {NoFile}
  /\ makeDirs \subseteq HostDirs
  /\ tries \in 0..1 /\ gui \in 0..MaxGui /\ hooks \in 0..MaxHooks
  /\ entriesLeft \subseteq Names /\ foldersLeft \subseteq FolderIds
  /\ syncAt \in {"dirs", "wait"} => tries = 0
HostTypes == hostDir \in [HostDirs -> {"missing", "dir", "file"}]
KeptTypes ==
  /\ device \in KeptDevices /\ folder \in KeptFolders
  /\ seen \in [device : KeptDevices, folder : KeptFolders]
SyncFlags == api \in BOOLEAN /\ meddled \in BOOLEAN

SyncInv ==
  /\ SyncSets /\ HostTypes /\ KeptTypes /\ SyncFlags /\ MadeSoFar
  /\ MountsExist /\ LeftOfFile /\ SeenIsThere

-----------------------------------------------------------------------------
(* The move to Postgres 18, step by step.                                  *)

(* Folders, rows and places keep their types.                              *)
LEMMA PgNumbers == PgInv /\ [PgNext]_pgVars => PgSets'
<1> SUFFICES ASSUME PgInv, [PgNext]_pgVars
             PROVE  PgSets'
  OBVIOUS
<1> USE PgBounds DEF PgBounds, runVars, Absent, PgSteps, Undoing, PgSets,
      Before, Beyond, PgInv, FolderFollows, RowsSomewhere, OldData, Finished
<1>1. CASE UpStart
  BY <1>1 DEF UpStart, MayUpgrade
<1>2. CASE StopApps
  BY <1>2 DEF StopApps
<1>3. CASE Dump
  BY <1>3 DEF Dump
<1>4. CASE StopDb
  BY <1>4 DEF StopDb
<1>5. CASE Rename
  BY <1>5 DEF Rename
<1>6. CASE SetMoved
  BY <1>6 DEF SetMoved
<1>7. CASE PutMarker
  BY <1>7 DEF PutMarker
<1>8. CASE StartNew
  BY <1>8 DEF StartNew
<1>9. CASE RestoreDump
  BY <1>9 DEF RestoreDump
<1>10. CASE CountRows
  BY <1>10 DEF CountRows
<1>11. CASE RemoveMarker
  BY <1>11 DEF RemoveMarker
<1>12. CASE SetDone
  BY <1>12 DEF SetDone
<1>13. CASE RollBack
  BY <1>13 DEF RollBack
<1>14. CASE MoveBack
  BY <1>14 DEF MoveBack
<1>15. CASE MoveNew
  BY <1>15 DEF MoveNew
<1>16. CASE StartOld
  BY <1>16 DEF StartOld
<1>17. CASE Killed
  BY <1>17 DEF Killed, Hidden
<1>18. CASE Check
  BY <1>18 DEF Check, Hidden, CheckPasses
<1>19. CASE DeployUp
  BY <1>19 DEF DeployUp
<1>20. CASE OwnerPutsBack
  BY <1>20 DEF OwnerPutsBack
<1>21. CASE OwnerStartsOld
  BY <1>21 DEF OwnerStartsOld
<1>22. CASE AppWrites
  BY <1>22 DEF AppWrites
<1>23. CASE UNCHANGED pgVars
  BY <1>23 DEF pgVars
<1> QED
  BY <1>1, <1>2, <1>3, <1>4, <1>5, <1>6, <1>7, <1>8, <1>9, <1>10, <1>11,
       <1>12, <1>13, <1>14, <1>15, <1>16, <1>17, <1>18, <1>19, <1>20, <1>21,
       <1>22, <1>23 DEF PgNext, UpgradeStep

(* What is true or false stays so.                                         *)
LEMMA PgTruths == PgFlags /\ [PgNext]_pgVars => PgFlags'
<1> SUFFICES ASSUME PgFlags, [PgNext]_pgVars
             PROVE  PgFlags'
  OBVIOUS
<1> USE PgBounds DEF PgBounds, runVars, Absent, PgSteps, Undoing, PgSets,
      Before, Beyond, PgFlags
<1>1. CASE UpStart
  BY <1>1 DEF UpStart, MayUpgrade
<1>2. CASE StopApps
  BY <1>2 DEF StopApps
<1>3. CASE Dump
  BY <1>3 DEF Dump
<1>4. CASE StopDb
  BY <1>4 DEF StopDb
<1>5. CASE Rename
  BY <1>5 DEF Rename
<1>6. CASE SetMoved
  BY <1>6 DEF SetMoved
<1>7. CASE PutMarker
  BY <1>7 DEF PutMarker
<1>8. CASE StartNew
  BY <1>8 DEF StartNew
<1>9. CASE RestoreDump
  BY <1>9 DEF RestoreDump
<1>10. CASE CountRows
  BY <1>10 DEF CountRows
<1>11. CASE RemoveMarker
  BY <1>11 DEF RemoveMarker
<1>12. CASE SetDone
  BY <1>12 DEF SetDone
<1>13. CASE RollBack
  BY <1>13, Zenon DEF RollBack, Hidden
<1>14. CASE MoveBack
  BY <1>14 DEF MoveBack
<1>15. CASE MoveNew
  BY <1>15, Zenon DEF MoveNew, Hidden
<1>16. CASE StartOld
  BY <1>16, Zenon DEF StartOld, Hidden
<1>17. CASE Killed
  BY <1>17, Zenon DEF Killed, Hidden
<1>18. CASE Check
  BY <1>18, Zenon DEF Check, Hidden
<1>19. CASE DeployUp
  BY <1>19 DEF DeployUp
<1>20. CASE OwnerPutsBack
  BY <1>20 DEF OwnerPutsBack
<1>21. CASE OwnerStartsOld
  BY <1>21 DEF OwnerStartsOld
<1>22. CASE AppWrites
  BY <1>22 DEF AppWrites
<1>23. CASE UNCHANGED pgVars
  BY <1>23 DEF pgVars
<1> QED
  BY <1>1, <1>2, <1>3, <1>4, <1>5, <1>6, <1>7, <1>8, <1>9, <1>10, <1>11,
       <1>12, <1>13, <1>14, <1>15, <1>16, <1>17, <1>18, <1>19, <1>20, <1>21,
       <1>22, <1>23 DEF PgNext, UpgradeStep

(* The rows stay under one of the names.                                   *)
LEMMA PgRows == PgInv /\ [PgNext]_pgVars => RowsSomewhere'
<1> SUFFICES ASSUME PgInv, [PgNext]_pgVars
             PROVE  RowsSomewhere'
  OBVIOUS
<1> USE PgBounds DEF PgBounds, runVars, Absent, PgSteps, Undoing, PgSets,
      Before, Beyond, PgInv, FolderFollows, RowsSomewhere, OldData, Finished
<1>1. CASE UpStart
  BY <1>1 DEF UpStart, MayUpgrade
<1>2. CASE StopApps
  BY <1>2 DEF StopApps
<1>3. CASE Dump
  BY <1>3 DEF Dump
<1>4. CASE StopDb
  BY <1>4 DEF StopDb
<1>5. CASE Rename
  BY <1>5 DEF Rename
<1>6. CASE SetMoved
  BY <1>6 DEF SetMoved
<1>7. CASE PutMarker
  BY <1>7 DEF PutMarker
<1>8. CASE StartNew
  BY <1>8 DEF StartNew, DumpHoldsAll
<1>9. CASE RestoreDump
  BY <1>9 DEF RestoreDump, DumpHoldsAll
<1>10. CASE CountRows
  BY <1>10 DEF CountRows
<1>11. CASE RemoveMarker
  BY <1>11 DEF RemoveMarker, DumpHoldsAll
<1>12. CASE SetDone
  BY <1>12 DEF SetDone
<1>13. CASE RollBack
  BY <1>13 DEF RollBack
<1>14. CASE MoveBack
  BY <1>14 DEF MoveBack
<1>15. CASE MoveNew
  BY <1>15 DEF MoveNew
<1>16. CASE StartOld
  BY <1>16 DEF StartOld
<1>17. CASE Killed
  BY <1>17 DEF Killed, Hidden
<1>18. CASE Check
  BY <1>18 DEF Check, Hidden, CheckPasses
<1>19. CASE DeployUp
  BY <1>19 DEF DeployUp
<1>20. CASE OwnerPutsBack
  BY <1>20 DEF OwnerPutsBack
<1>21. CASE OwnerStartsOld
  BY <1>21 DEF OwnerStartsOld
<1>22. CASE AppWrites
  BY <1>22 DEF AppWrites
<1>23. CASE UNCHANGED pgVars
  BY <1>23 DEF pgVars
<1> QED
  BY <1>1, <1>2, <1>3, <1>4, <1>5, <1>6, <1>7, <1>8, <1>9, <1>10, <1>11,
       <1>12, <1>13, <1>14, <1>15, <1>16, <1>17, <1>18, <1>19, <1>20, <1>21,
       <1>22, <1>23 DEF PgNext, UpgradeStep

(* No folder gets more rows than were written.                             *)
LEMMA PgCounted == PgInv /\ [PgNext]_pgVars => RowsCounted'
<1> SUFFICES ASSUME PgInv, [PgNext]_pgVars
             PROVE  RowsCounted'
  OBVIOUS
<1> USE PgBounds DEF PgBounds, runVars, Absent, PgSteps, Undoing, PgSets,
      Before, Beyond, PgInv, RowsCounted, DumpHoldsAll, FolderFollows
<1>1. CASE UpStart
  BY <1>1 DEF UpStart, MayUpgrade
<1>2. CASE StopApps
  BY <1>2 DEF StopApps
<1>3. CASE Dump
  BY <1>3 DEF Dump
<1>4. CASE StopDb
  BY <1>4 DEF StopDb
<1>5. CASE Rename
  BY <1>5 DEF Rename
<1>6. CASE SetMoved
  BY <1>6 DEF SetMoved
<1>7. CASE PutMarker
  BY <1>7 DEF PutMarker
<1>8. CASE StartNew
  BY <1>8 DEF StartNew
<1>9. CASE RestoreDump
  BY <1>9 DEF RestoreDump
<1>10. CASE CountRows
  BY <1>10 DEF CountRows
<1>11. CASE RemoveMarker
  BY <1>11 DEF RemoveMarker
<1>12. CASE SetDone
  BY <1>12 DEF SetDone
<1>13. CASE RollBack
  BY <1>13 DEF RollBack
<1>14. CASE MoveBack
  BY <1>14 DEF MoveBack
<1>15. CASE MoveNew
  BY <1>15 DEF MoveNew
<1>16. CASE StartOld
  BY <1>16 DEF StartOld
<1>17. CASE Killed
  BY <1>17 DEF Killed, Hidden
<1>18. CASE Check
  BY <1>18 DEF Check, Hidden, CheckPasses
<1>19. CASE DeployUp
  BY <1>19 DEF DeployUp
<1>20. CASE OwnerPutsBack
  BY <1>20 DEF OwnerPutsBack
<1>21. CASE OwnerStartsOld
  BY <1>21 DEF OwnerStartsOld
<1>22. CASE AppWrites
  <2>1. written' = written + 1 /\ DOMAIN data' = DOMAIN data
    BY <1>22 DEF AppWrites
  <2>2. ASSUME NEW f \in DOMAIN data
        PROVE  data'[f] = Absent \/ data'[f] <= written'
    <3>1. data[f] \in Nat /\ (data[f] = Absent \/ data[f] <= written)
      BY <2>2
    <3>2. data'[f] = data[f] \/ (data'[f] = data[f] + 1 /\ data[f] # Absent)
      BY <1>22, <2>2 DEF AppWrites
    <3> QED
      BY <2>1, <3>1, <3>2
  <2> QED
    BY <2>1, <2>2
<1>23. CASE UNCHANGED pgVars
  BY <1>23 DEF pgVars
<1> QED
  BY <1>1, <1>2, <1>3, <1>4, <1>5, <1>6, <1>7, <1>8, <1>9, <1>10, <1>11,
       <1>12, <1>13, <1>14, <1>15, <1>16, <1>17, <1>18, <1>19, <1>20, <1>21,
       <1>22, <1>23 DEF PgNext, UpgradeStep

(* The folder is where the script has put it.                              *)
LEMMA PgFolder == PgInv /\ [PgNext]_pgVars => FolderFollows'
<1> SUFFICES ASSUME PgInv, [PgNext]_pgVars
             PROVE  FolderFollows'
  OBVIOUS
<1> USE PgBounds DEF PgBounds, runVars, Absent, PgSteps, Undoing, PgSets,
      Before, Beyond, PgInv, FolderFollows, RowsSomewhere, OldData, Finished
<1>1. CASE UpStart
  BY <1>1 DEF UpStart, MayUpgrade
<1>2. CASE StopApps
  BY <1>2 DEF StopApps
<1>3. CASE Dump
  BY <1>3 DEF Dump
<1>4. CASE StopDb
  BY <1>4 DEF StopDb
<1>5. CASE Rename
  BY <1>5 DEF Rename
<1>6. CASE SetMoved
  BY <1>6 DEF SetMoved
<1>7. CASE PutMarker
  BY <1>7 DEF PutMarker
<1>8. CASE StartNew
  BY <1>8 DEF StartNew
<1>9. CASE RestoreDump
  BY <1>9 DEF RestoreDump
<1>10. CASE CountRows
  BY <1>10 DEF CountRows
<1>11. CASE RemoveMarker
  BY <1>11 DEF RemoveMarker
<1>12. CASE SetDone
  BY <1>12 DEF SetDone
<1>13. CASE RollBack
  BY <1>13 DEF RollBack
<1>14. CASE MoveBack
  BY <1>14 DEF MoveBack
<1>15. CASE MoveNew
  BY <1>15 DEF MoveNew
<1>16. CASE StartOld
  BY <1>16 DEF StartOld
<1>17. CASE Killed
  BY <1>17 DEF Killed, Hidden
<1>18. CASE Check
  BY <1>18 DEF Check, Hidden, CheckPasses
<1>19. CASE DeployUp
  BY <1>19 DEF DeployUp
<1>20. CASE OwnerPutsBack
  BY <1>20 DEF OwnerPutsBack
<1>21. CASE OwnerStartsOld
  BY <1>21 DEF OwnerStartsOld
<1>22. CASE AppWrites
  <2>1. data["db"] = Absent \/ data["db"] < MaxRows
    BY <1>22 DEF AppWrites, RowsCounted
  <2>2. data'["db"] = Absent <=> data["db"] = Absent
    BY <1>22, <2>1 DEF AppWrites
  <2> QED
    BY <1>22, <2>2 DEF AppWrites
<1>23. CASE UNCHANGED pgVars
  BY <1>23 DEF pgVars
<1> QED
  BY <1>1, <1>2, <1>3, <1>4, <1>5, <1>6, <1>7, <1>8, <1>9, <1>10, <1>11,
       <1>12, <1>13, <1>14, <1>15, <1>16, <1>17, <1>18, <1>19, <1>20, <1>21,
       <1>22, <1>23 DEF PgNext, UpgradeStep

(* The dump holds what the app has written.                                *)
LEMMA PgDump == PgInv /\ [PgNext]_pgVars => DumpHoldsAll'
<1> SUFFICES ASSUME PgInv, [PgNext]_pgVars
             PROVE  DumpHoldsAll'
  OBVIOUS
<1> USE PgBounds DEF PgBounds, runVars, Absent, PgSteps, Undoing, PgSets,
      Before, Beyond, PgInv, RowsCounted, FolderFollows, DumpHoldsAll,
      RowsSomewhere, OldData, Finished
<1>1. CASE UpStart
  BY <1>1 DEF UpStart, MayUpgrade
<1>2. CASE StopApps
  BY <1>2 DEF StopApps
<1>3. CASE Dump
  BY <1>3 DEF Dump
<1>4. CASE StopDb
  BY <1>4 DEF StopDb
<1>5. CASE Rename
  BY <1>5 DEF Rename
<1>6. CASE SetMoved
  BY <1>6 DEF SetMoved
<1>7. CASE PutMarker
  BY <1>7 DEF PutMarker
<1>8. CASE StartNew
  BY <1>8 DEF StartNew
<1>9. CASE RestoreDump
  BY <1>9 DEF RestoreDump
<1>10. CASE CountRows
  BY <1>10 DEF CountRows
<1>11. CASE RemoveMarker
  BY <1>11 DEF RemoveMarker
<1>12. CASE SetDone
  BY <1>12 DEF SetDone
<1>13. CASE RollBack
  BY <1>13 DEF RollBack
<1>14. CASE MoveBack
  BY <1>14 DEF MoveBack
<1>15. CASE MoveNew
  BY <1>15 DEF MoveNew
<1>16. CASE StartOld
  BY <1>16 DEF StartOld
<1>17. CASE Killed
  BY <1>17 DEF Killed, Hidden
<1>18. CASE Check
  BY <1>18 DEF Check, Hidden, CheckPasses
<1>19. CASE DeployUp
  BY <1>19 DEF DeployUp
<1>20. CASE OwnerPutsBack
  BY <1>20 DEF OwnerPutsBack
<1>21. CASE OwnerStartsOld
  BY <1>21 DEF OwnerStartsOld
<1>22. CASE AppWrites
  <2>1. dump' = dump /\ written' = written + 1 /\ upAt' = upAt /\ pg' = pg
        /\ apps' = apps /\ marker' = marker /\ cut' = cut /\ apps
        /\ pg # "none"
    BY <1>22 DEF AppWrites
  <2>2. CASE cut
    BY <2>1, <2>2
  <2>3. CASE ~cut /\ pg = "18"
    <3>1. Finished
      BY <2>3
    <3>2. data'["db"] = data["db"] /\ data'["new"] = data["new"] + 1
      BY <1>22, <2>3, <3>1 DEF AppWrites
    <3>3. Finished'
      BY <2>1, <3>1, <3>2
    <3> QED
      BY <2>1, <2>3, <3>1, <3>3
  <2>4. CASE ~cut /\ pg = "16"
    BY <2>1, <2>4
  <2> QED
    BY <2>1, <2>2, <2>3, <2>4
<1>23. CASE UNCHANGED pgVars
  BY <1>23 DEF pgVars
<1> QED
  BY <1>1, <1>2, <1>3, <1>4, <1>5, <1>6, <1>7, <1>8, <1>9, <1>10, <1>11,
       <1>12, <1>13, <1>14, <1>15, <1>16, <1>17, <1>18, <1>19, <1>20, <1>21,
       <1>22, <1>23 DEF PgNext, UpgradeStep

(* The parts of the types are the types.                                   *)
LEMMA PgParts == PgTypeOK <=> PgSets /\ PgFlags
BY Zenon DEF PgTypeOK, PgSets, PgFlags

(* Before the first run Postgres 16 has the one row.                       *)
LEMMA PgStarts == PgInit => PgInv
<1> SUFFICES ASSUME PgInit PROVE PgInv
  OBVIOUS
<1>1. PgFlags
  BY Zenon DEF PgInit, PgFlags
<1>2. PgSets
  BY PgBounds DEF PgInit, PgSets, PgBounds, Absent
<1>3. RowsSomewhere /\ FolderFollows /\ DumpHoldsAll /\ RowsCounted
  BY PgBounds
     DEF PgInit, RowsSomewhere, FolderFollows, DumpHoldsAll, OldData, Before,
         Beyond, RowsCounted, PgBounds, Absent
<1> QED
  BY <1>1, <1>2, <1>3 DEF PgInv

(* The conjuncts of the invariant, one step further.                       *)
LEMMA PgStep == PgInv /\ [PgNext]_pgVars => PgInv'
BY PgNumbers, PgTruths, PgRows, PgCounted, PgFolder, PgDump DEF PgInv

(* Whatever the script, the deploy, the app and the owner do, wherever the *)
(* script ends but for the places that cut names: no row is lost, and      *)
(* Postgres 18 does not run on fewer.                                      *)
THEOREM RowsOutliveUpgrade ==
  PgInit /\ [][PgNext]_pgVars => [](RowsKept /\ StartsComplete /\ PgTypeOK)
<1>1. PgInv => RowsKept
  <2> SUFFICES ASSUME PgInv, ~cut
               PROVE  \E f \in {"db", "kept", "new"} :
                        data[f] # Absent /\ data[f] = written
    BY DEF RowsKept
  <2>1. written \in 0..MaxRows /\ written # Absent
    BY PgBounds DEF PgInv, PgSets, PgBounds, Absent
  <2>2. CASE data["db"] = written
    BY <2>1, <2>2
  <2>3. CASE data["kept"] = written
    BY <2>1, <2>3
  <2>4. CASE data["new"] = written
    BY <2>1, <2>4
  <2> QED
    BY <2>2, <2>3, <2>4 DEF PgInv, RowsSomewhere, OldData, Finished
<1>2. PgInv => StartsComplete
  BY DEF PgInv, RowsSomewhere, Finished, StartsComplete
<1>3. PgInv => PgTypeOK
  BY PgParts DEF PgInv
<1> QED
  BY <1>1, <1>2, <1>3, PgStarts, PgStep, PTL

-----------------------------------------------------------------------------
(* The mail server, step by step.                                          *)

(* Places and domains keep their types.                                    *)
LEMMA MailPlaces == MailSets /\ [MailNext]_mailVars => MailSets'
<1> SUFFICES ASSUME MailSets, [MailNext]_mailVars
             PROVE  MailSets'
  OBVIOUS
<1> USE MailConstants DEF MailConstants, envVars, dkimVars, MailSets, Steps,
      Expected, Known, Verdicts
<1>1. CASE MailStarts
  BY <1>1 DEF MailStarts
<1>2. CASE StageDomains
  BY <1>2 DEF StageDomains
<1>3. CASE PreflightLive
  BY <1>3 DEF PreflightLive, SetManual
<1>4. CASE PreflightSkipped
  BY <1>4 DEF PreflightSkipped
<1>5. CASE BeforeFails
  BY <1>5 DEF BeforeFails, SetManual
<1>6. CASE MailUp
  BY <1>6 DEF MailUp
<1>7. CASE Healthy
  BY <1>7 DEF Healthy
<1>8. CASE MakeManual
  BY <1>8 DEF MakeManual, SetManual
<1>9. CASE Reread
  BY <1>9 DEF Reread
<1>10. CASE Match
  BY <1>10 DEF Match
<1>11. CASE Matched
  BY <1>11 DEF Matched
<1>12. CASE DkimFails
  BY <1>12 DEF DkimFails, KeysWrong, OtherFailure, SetManual
<1>13. CASE StopContainer
  BY <1>13 DEF StopContainer
<1>14. CASE StopFails
  BY <1>14 DEF StopFails
<1>15. CASE Setup
  <2>1. PICK some \in InOrder, more \in SUBSET Extra :
               settings' = settings \cup some \cup more
    BY <1>15 DEF Setup
  <2>2. settings' \subseteq Extra \cup UNION InOrder
    BY <2>1
  <2> QED
    BY <1>15, <2>2 DEF Setup
<1>16. CASE MailAgain
  BY <1>16 DEF MailAgain
<1>17. CASE Rotate
  BY <1>17 DEF Rotate
<1>18. CASE Publish
  BY <1>18 DEF Publish
<1>19. CASE Administer
  BY <1>19 DEF Administer
<1>20. CASE UNCHANGED mailVars
  BY <1>20 DEF mailVars
<1> QED
  BY <1>1, <1>2, <1>3, <1>4, <1>5, <1>6, <1>7, <1>8, <1>9, <1>10, <1>11,
       <1>12, <1>13, <1>14, <1>15, <1>16, <1>17, <1>18, <1>19, <1>20 DEF
       MailNext, MailHook

(* Keys and counts keep their types.                                       *)
LEMMA MailNumbers == MailInv /\ [MailNext]_mailVars => KeyTypes'
<1> SUFFICES ASSUME MailInv, [MailNext]_mailVars
             PROVE  KeyTypes'
  OBVIOUS
<1> USE MailConstants DEF MailConstants, envVars, dkimVars, MailInv,
      KeyTypes, RotatedAtMost, Known
<1>1. CASE MailStarts
  BY <1>1 DEF MailStarts
<1>2. CASE StageDomains
  BY <1>2 DEF StageDomains
<1>3. CASE PreflightLive
  BY <1>3 DEF PreflightLive, SetManual
<1>4. CASE PreflightSkipped
  BY <1>4 DEF PreflightSkipped
<1>5. CASE BeforeFails
  BY <1>5 DEF BeforeFails, SetManual
<1>6. CASE MailUp
  BY <1>6 DEF MailUp
<1>7. CASE Healthy
  BY <1>7 DEF Healthy
<1>8. CASE MakeManual
  BY <1>8 DEF MakeManual, SetManual
<1>9. CASE Reread
  BY <1>9 DEF Reread
<1>10. CASE Match
  BY <1>10 DEF Match
<1>11. CASE Matched
  BY <1>11 DEF Matched
<1>12. CASE DkimFails
  BY <1>12 DEF DkimFails, KeysWrong, OtherFailure, SetManual
<1>13. CASE StopContainer
  BY <1>13 DEF StopContainer
<1>14. CASE StopFails
  BY <1>14 DEF StopFails
<1>15. CASE Setup
  BY <1>15 DEF Setup
<1>16. CASE MailAgain
  BY <1>16 DEF MailAgain
<1>17. CASE Rotate
  BY <1>17 DEF Rotate
<1>18. CASE Publish
  BY <1>18 DEF Publish
<1>19. CASE Administer
  BY <1>19 DEF Administer
<1>20. CASE UNCHANGED mailVars
  BY <1>20 DEF mailVars
<1> QED
  BY <1>1, <1>2, <1>3, <1>4, <1>5, <1>6, <1>7, <1>8, <1>9, <1>10, <1>11,
       <1>12, <1>13, <1>14, <1>15, <1>16, <1>17, <1>18, <1>19, <1>20 DEF
       MailNext, MailHook

(* What is true or false stays so.                                         *)
LEMMA MailTruths == MailFlags /\ [MailNext]_mailVars => MailFlags'
<1> SUFFICES ASSUME MailFlags, [MailNext]_mailVars
             PROVE  MailFlags'
  OBVIOUS
<1> USE MailConstants DEF MailConstants, envVars, dkimVars, MailFlags
<1>1. CASE MailStarts
  BY <1>1, Zenon DEF MailStarts
<1>2. CASE StageDomains
  BY <1>2 DEF StageDomains
<1>3. CASE PreflightLive
  BY <1>3 DEF PreflightLive, SetManual
<1>4. CASE PreflightSkipped
  BY <1>4 DEF PreflightSkipped
<1>5. CASE BeforeFails
  BY <1>5 DEF BeforeFails, SetManual
<1>6. CASE MailUp
  BY <1>6 DEF MailUp
<1>7. CASE Healthy
  BY <1>7 DEF Healthy
<1>8. CASE MakeManual
  BY <1>8 DEF MakeManual, SetManual
<1>9. CASE Reread
  BY <1>9 DEF Reread
<1>10. CASE Match
  BY <1>10 DEF Match
<1>11. CASE Matched
  BY <1>11 DEF Matched
<1>12. CASE DkimFails
  BY <1>12 DEF DkimFails, KeysWrong, OtherFailure, SetManual
<1>13. CASE StopContainer
  BY <1>13 DEF StopContainer
<1>14. CASE StopFails
  BY <1>14 DEF StopFails
<1>15. CASE Setup
  BY <1>15 DEF Setup
<1>16. CASE MailAgain
  BY <1>16 DEF MailAgain
<1>17. CASE Rotate
  BY <1>17 DEF Rotate
<1>18. CASE Publish
  BY <1>18 DEF Publish
<1>19. CASE Administer
  BY <1>19 DEF Administer
<1>20. CASE UNCHANGED mailVars
  BY <1>20 DEF mailVars
<1> QED
  BY <1>1, <1>2, <1>3, <1>4, <1>5, <1>6, <1>7, <1>8, <1>9, <1>10, <1>11,
       <1>12, <1>13, <1>14, <1>15, <1>16, <1>17, <1>18, <1>19, <1>20 DEF
       MailNext, MailHook

(* Keys are rotated a step at a time.                                      *)
LEMMA MailRotated == MailInv /\ [MailNext]_mailVars => RotatedAtMost'
<1> SUFFICES ASSUME MailInv, [MailNext]_mailVars
             PROVE  RotatedAtMost'
  OBVIOUS
<1> USE MailConstants DEF MailConstants, envVars, dkimVars, MailInv,
      KeyTypes, RotatedAtMost, Known
<1>1. CASE MailStarts
  BY <1>1 DEF MailStarts
<1>2. CASE StageDomains
  BY <1>2 DEF StageDomains
<1>3. CASE PreflightLive
  BY <1>3 DEF PreflightLive, SetManual
<1>4. CASE PreflightSkipped
  BY <1>4 DEF PreflightSkipped
<1>5. CASE BeforeFails
  BY <1>5 DEF BeforeFails, SetManual
<1>6. CASE MailUp
  BY <1>6 DEF MailUp
<1>7. CASE Healthy
  BY <1>7 DEF Healthy
<1>8. CASE MakeManual
  BY <1>8 DEF MakeManual, SetManual
<1>9. CASE Reread
  BY <1>9 DEF Reread
<1>10. CASE Match
  BY <1>10 DEF Match
<1>11. CASE Matched
  BY <1>11 DEF Matched
<1>12. CASE DkimFails
  BY <1>12 DEF DkimFails, KeysWrong, OtherFailure, SetManual
<1>13. CASE StopContainer
  BY <1>13 DEF StopContainer
<1>14. CASE StopFails
  BY <1>14 DEF StopFails
<1>15. CASE Setup
  BY <1>15 DEF Setup
<1>16. CASE MailAgain
  BY <1>16 DEF MailAgain
<1>17. CASE Rotate
  BY <1>17 DEF Rotate
<1>18. CASE Publish
  BY <1>18 DEF Publish
<1>19. CASE Administer
  BY <1>19 DEF Administer
<1>20. CASE UNCHANGED mailVars
  BY <1>20 DEF mailVars
<1> QED
  BY <1>1, <1>2, <1>3, <1>4, <1>5, <1>6, <1>7, <1>8, <1>9, <1>10, <1>11,
       <1>12, <1>13, <1>14, <1>15, <1>16, <1>17, <1>18, <1>19, <1>20 DEF
       MailNext, MailHook

(* What is staged is what is listed.                                       *)
LEMMA MailServes == MailInv /\ [MailNext]_mailVars => ServesListed'
<1> SUFFICES ASSUME MailInv, [MailNext]_mailVars
             PROVE  ServesListed'
  OBVIOUS
<1> USE MailConstants DEF MailConstants, envVars, dkimVars, MailInv,
      ServesListed, MailSets
<1>1. CASE MailStarts
  BY <1>1 DEF MailStarts
<1>2. CASE StageDomains
  BY <1>2 DEF StageDomains
<1>3. CASE PreflightLive
  BY <1>3 DEF PreflightLive, SetManual
<1>4. CASE PreflightSkipped
  BY <1>4 DEF PreflightSkipped
<1>5. CASE BeforeFails
  BY <1>5 DEF BeforeFails, SetManual
<1>6. CASE MailUp
  BY <1>6 DEF MailUp
<1>7. CASE Healthy
  BY <1>7 DEF Healthy
<1>8. CASE MakeManual
  BY <1>8 DEF MakeManual, SetManual
<1>9. CASE Reread
  BY <1>9 DEF Reread
<1>10. CASE Match
  BY <1>10 DEF Match
<1>11. CASE Matched
  BY <1>11 DEF Matched
<1>12. CASE DkimFails
  BY <1>12 DEF DkimFails, KeysWrong, OtherFailure, SetManual
<1>13. CASE StopContainer
  BY <1>13 DEF StopContainer
<1>14. CASE StopFails
  BY <1>14 DEF StopFails
<1>15. CASE Setup
  BY <1>15 DEF Setup
<1>16. CASE MailAgain
  BY <1>16 DEF MailAgain
<1>17. CASE Rotate
  BY <1>17 DEF Rotate
<1>18. CASE Publish
  BY <1>18 DEF Publish
<1>19. CASE Administer
  BY <1>19 DEF Administer
<1>20. CASE UNCHANGED mailVars
  BY <1>20 DEF mailVars
<1> QED
  BY <1>1, <1>2, <1>3, <1>4, <1>5, <1>6, <1>7, <1>8, <1>9, <1>10, <1>11,
       <1>12, <1>13, <1>14, <1>15, <1>16, <1>17, <1>18, <1>19, <1>20 DEF
       MailNext, MailHook

(* What has been compared can no longer change.                            *)
LEMMA MailCompared == MailInv /\ [MailNext]_mailVars => ComparedHold'
<1> SUFFICES ASSUME MailInv, [MailNext]_mailVars
             PROVE  ComparedHold'
  OBVIOUS
<1> USE MailConstants DEF MailConstants, envVars, dkimVars, MailInv,
      ComparedHold, MailSets, KeyTypes, Expected, Known
<1>1. CASE MailStarts
  BY <1>1 DEF MailStarts
<1>2. CASE StageDomains
  BY <1>2 DEF StageDomains
<1>3. CASE PreflightLive
  BY <1>3 DEF PreflightLive, SetManual
<1>4. CASE PreflightSkipped
  BY <1>4 DEF PreflightSkipped
<1>5. CASE BeforeFails
  BY <1>5 DEF BeforeFails, SetManual
<1>6. CASE MailUp
  BY <1>6 DEF MailUp
<1>7. CASE Healthy
  BY <1>7 DEF Healthy
<1>8. CASE MakeManual
  BY <1>8 DEF MakeManual, SetManual
<1>9. CASE Reread
  BY <1>9 DEF Reread
<1>10. CASE Match
  BY <1>10 DEF Match
<1>11. CASE Matched
  BY <1>11 DEF Matched
<1>12. CASE DkimFails
  BY <1>12 DEF DkimFails, KeysWrong, OtherFailure, SetManual
<1>13. CASE StopContainer
  BY <1>13 DEF StopContainer
<1>14. CASE StopFails
  BY <1>14 DEF StopFails
<1>15. CASE Setup
  BY <1>15 DEF Setup
<1>16. CASE MailAgain
  BY <1>16 DEF MailAgain
<1>17. CASE Rotate
  BY <1>17 DEF Rotate
<1>18. CASE Publish
  BY <1>18 DEF Publish
<1>19. CASE Administer
  BY <1>19 DEF Administer
<1>20. CASE UNCHANGED mailVars
  BY <1>20 DEF mailVars
<1> QED
  BY <1>1, <1>2, <1>3, <1>4, <1>5, <1>6, <1>7, <1>8, <1>9, <1>10, <1>11,
       <1>12, <1>13, <1>14, <1>15, <1>16, <1>17, <1>18, <1>19, <1>20 DEF
       MailNext, MailHook

(* Nothing starts a server with wrong keys again.                          *)
LEMMA MailStops == MailInv /\ [MailNext]_mailVars => StoppedWhenWrong'
<1> SUFFICES ASSUME MailInv, [MailNext]_mailVars
             PROVE  StoppedWhenWrong'
  OBVIOUS
<1> USE MailConstants DEF MailConstants, envVars, dkimVars, MailInv,
      StoppedWhenWrong, MailSets
<1>1. CASE MailStarts
  BY <1>1 DEF MailStarts
<1>2. CASE StageDomains
  BY <1>2 DEF StageDomains
<1>3. CASE PreflightLive
  BY <1>3 DEF PreflightLive, SetManual
<1>4. CASE PreflightSkipped
  BY <1>4 DEF PreflightSkipped
<1>5. CASE BeforeFails
  BY <1>5 DEF BeforeFails, SetManual
<1>6. CASE MailUp
  BY <1>6 DEF MailUp
<1>7. CASE Healthy
  BY <1>7 DEF Healthy
<1>8. CASE MakeManual
  BY <1>8 DEF MakeManual, SetManual
<1>9. CASE Reread
  BY <1>9 DEF Reread
<1>10. CASE Match
  BY <1>10 DEF Match
<1>11. CASE Matched
  BY <1>11 DEF Matched
<1>12. CASE DkimFails
  BY <1>12 DEF DkimFails, KeysWrong, OtherFailure, SetManual
<1>13. CASE StopContainer
  BY <1>13 DEF StopContainer
<1>14. CASE StopFails
  BY <1>14 DEF StopFails
<1>15. CASE Setup
  BY <1>15 DEF Setup
<1>16. CASE MailAgain
  BY <1>16 DEF MailAgain
<1>17. CASE Rotate
  BY <1>17 DEF Rotate
<1>18. CASE Publish
  BY <1>18 DEF Publish
<1>19. CASE Administer
  BY <1>19 DEF Administer
<1>20. CASE UNCHANGED mailVars
  BY <1>20 DEF mailVars
<1> QED
  BY <1>1, <1>2, <1>3, <1>4, <1>5, <1>6, <1>7, <1>8, <1>9, <1>10, <1>11,
       <1>12, <1>13, <1>14, <1>15, <1>16, <1>17, <1>18, <1>19, <1>20 DEF
       MailNext, MailHook

(* The parts of the types are the types.                                   *)
LEMMA MailParts == MailTypeOK <=> MailSets /\ KeyTypes /\ MailFlags
BY Zenon DEF MailTypeOK, MailSets, KeyTypes, MailFlags

(* Before the first deploy no domain is listed or served.                  *)
LEMMA MailBegins == MailInit => MailInv
<1> SUFFICES ASSUME MailInit PROVE MailInv
  OBVIOUS
<1>1. MailFlags
  BY Zenon DEF MailInit, MailFlags
<1>2. MailSets
  BY MailConstants DEF MailInit, MailSets, MailConstants, Verdicts
<1>3. KeyTypes /\ RotatedAtMost
  BY MailConstants DEF MailInit, KeyTypes, RotatedAtMost, MailConstants
<1>4. ServesListed /\ ComparedHold /\ StoppedWhenWrong
  BY DEF MailInit, ServesListed, ComparedHold, StoppedWhenWrong
<1> QED
  BY <1>1, <1>2, <1>3, <1>4 DEF MailInv

(* The conjuncts of the invariant, one step further.                       *)
LEMMA MailStep == MailInv /\ [MailNext]_mailVars => MailInv'
BY MailPlaces, MailNumbers, MailTruths, MailRotated, MailServes, MailCompared,
   MailStops DEF MailInv

(* Whatever Stalwart, the DNS and an administrator do between any two      *)
(* steps: a deploy that ends well signs with what is published, and keys   *)
(* found wrong leave nothing running, unless docker stop failed as well.   *)
THEOREM MailSignsRight ==
  MailInit /\ [][MailNext]_mailVars =>
    [](SignsAsPublished /\ StoppedWhenWrong /\ MailTypeOK)
<1>1. MailInv => SignsAsPublished
  BY DEF MailInv, ServesListed, ComparedHold, Expected, SignsAsPublished
<1>2. MailInv => StoppedWhenWrong /\ MailTypeOK
  BY MailParts DEF MailInv
<1> QED
  BY <1>1, <1>2, MailBegins, MailStep, PTL

(* The settings as the promise sees them: the managers of the domains.     *)
Managers == [d \in MailDomains |->
               IF d \in manual THEN "manual" ELSE "automatic"]
MayManage == [d \in MailDomains |-> IF d \in Expected THEN {"manual"}
                                    ELSE {"manual", "automatic"}]
MailPhase == IF mailAt \in Steps THEN "running" ELSE mailAt
PromiseVars == <<Managers, MayManage, MailPhase>>

(* Nothing the promise sees changes.                                       *)
LEMMA UnseenByPromise ==
  manual' = manual /\ listed' = listed /\ mailAt' = mailAt =>
    UNCHANGED PromiseVars
BY DEF PromiseVars, Managers, MayManage, MailPhase, Expected

(* A hook goes on, and leaves the managers as they are.                    *)
LEMMA HookGoesOn ==
  /\ mailAt \in Steps /\ mailAt' \in Steps \cup {"failed"}
  /\ manual' = manual /\ listed' = listed
  => MailPromise!Moves
<1> SUFFICES ASSUME mailAt \in Steps, mailAt' \in Steps \cup {"failed"},
                    manual' = manual, listed' = listed
             PROVE  MailPromise!Moves
  OBVIOUS
<1>1. MailPhase = "running" /\ MailPhase' \in {"running", "failed"}
  BY DEF MailPhase
<1>2. Managers' = Managers /\ MayManage' = MayManage
  BY DEF Managers, MayManage, Expected
<1> QED
  BY <1>1, <1>2
     DEF MailPromise!Moves, Managers, MayManage, MailPhase

(* A hook goes on, and takes no domain from Stalwart but expected ones.    *)
LEMMA TakesExpected ==
  ASSUME NEW some, SetManual(some), listed' = listed,
         mailAt \in Steps, mailAt' \in Steps \cup {"failed"}
  PROVE  MailPromise!Moves
<1>1. MailPhase = "running" /\ MailPhase' \in {"running", "failed"}
  BY DEF MailPhase
<1>2. MayManage' = MayManage
  BY DEF MayManage, Expected
<1>3. ASSUME NEW d \in MailDomains, Managers'[d] # Managers[d]
      PROVE  MayManage[d] # {"manual", "automatic"}
             /\ Managers'[d] \in MayManage[d]
  <2>1. d \in Expected /\ d \in manual'
    BY <1>3 DEF Managers, SetManual
  <2> QED
    BY <2>1 DEF Managers, MayManage
<1> QED
  BY <1>1, <1>2, <1>3
     DEF MailPromise!Moves, Managers, MayManage, MailPhase

(* A step of the hooks, of Stalwart or of people is one the promise allows.*)
LEMMA MailPromiseStep ==
  MailInv /\ [MailNext]_mailVars => [MailPromise!Next]_PromiseVars
<1> SUFFICES ASSUME MailInv, [MailNext]_mailVars
             PROVE  MailPromise!Next \/ UNCHANGED PromiseVars
  BY DEF PromiseVars
<1> USE DEF MailPromise!Next, envVars, dkimVars
<1>1. CASE MailStarts
  BY <1>1 DEF MailStarts, MailPromise!Elsewhere, Steps
<1>2. CASE MailAgain
  BY <1>2 DEF MailAgain, MailPromise!Elsewhere, Steps
<1>3. CASE Administer
  BY <1>3 DEF Administer, MailPromise!Elsewhere, Steps
<1>4. CASE Rotate \/ Publish
  BY <1>4, UnseenByPromise DEF Rotate, Publish
<1>5. CASE PreflightLive \/ MakeManual
  <2>1. PICK some : SetManual(some)
    BY <1>5 DEF PreflightLive, MakeManual
  <2>2. mailAt \in Steps /\ mailAt' \in Steps /\ listed' = listed
    BY <1>5 DEF PreflightLive, MakeManual, Steps
  <2> QED
    BY <2>1, <2>2, TakesExpected
<1>6. CASE \/ StageDomains \/ PreflightSkipped \/ MailUp \/ Healthy \/ Reread
           \/ Match \/ Matched \/ StopContainer \/ StopFails
  <2>1. mailAt \in Steps /\ mailAt' \in Steps \cup {"failed"}
        /\ manual' = manual /\ listed' = listed
    BY <1>6
       DEF StageDomains, PreflightSkipped, MailUp, Healthy, Reread, Match,
           Matched, StopContainer, StopFails, Steps
  <2> QED
    BY <2>1, HookGoesOn
<1>9. CASE BeforeFails \/ DkimFails
  <2>1. mailAt \in Steps /\ mailAt' \in Steps \cup {"failed"}
        /\ listed' = listed
    BY <1>9 DEF BeforeFails, DkimFails, Steps
  <2>2. manual' = manual \/ \E some : SetManual(some)
    BY <1>9 DEF BeforeFails, DkimFails, KeysWrong, OtherFailure
  <2> QED
    BY <2>1, <2>2, HookGoesOn, TakesExpected
<1>7. CASE Setup
  <2>1. manual' = manual /\ listed' = listed /\ mailAt = "rest"
        /\ mailAt' = "ok" /\ Expected \subseteq manual
    BY <1>7 DEF Setup, MailInv, ComparedHold
  <2>2. MailPhase = "running" /\ MailPhase' = "ok"
    BY <2>1 DEF MailPhase, Steps
  <2>3. Managers' = Managers /\ MayManage' = MayManage
    BY <2>1 DEF Managers, MayManage, Expected
  <2>4. \A d \in MailDomains : Managers[d] \in MayManage[d]
    BY <2>1 DEF Managers, MayManage
  <2> QED
    BY <2>2, <2>3, <2>4
       DEF MailPromise!Succeeds, MailPromise!Holds, Managers, MayManage,
           MailPhase
<1>8. CASE UNCHANGED mailVars
  BY <1>8, UnseenByPromise DEF mailVars
<1> QED
  BY <1>1, <1>2, <1>3, <1>4, <1>5, <1>6, <1>7, <1>8, <1>9
     DEF MailNext, MailHook

(* The hooks of the mail server implement what a hook promises: they take  *)
(* the domains of the deploy from Stalwart and no other, and end well only *)
(* with all of them taken, whoever else changes what between the runs.     *)
THEOREM MailHooksReconcile ==
  MailInit /\ [][MailNext]_mailVars => MailKeepsPromise
<1>1. MailInit => MailPromise!Init
  BY DEF MailInit, MailPromise!Init, Steps
<1> QED
  BY <1>1, MailBegins, MailStep, MailPromiseStep, PTL
     DEF MailKeepsPromise, MailPromise!Spec, PromiseVars, Managers, MayManage,
         MailPhase

-----------------------------------------------------------------------------
(* The configuration file, step by step.                                   *)

(* Seconds pass as half seconds do.                                        *)
LEMMA Seconds ==
  /\ \A t \in Nat : Sec(t) \in Nat
  /\ \A t, u \in Nat : t <= u => Sec(t) <= Sec(u)
  /\ Sec(0) = 0 /\ \A t \in Nat : t >= 2 => Sec(t) > 0
BY DEF Sec

(* Files and the container keep their types.                               *)
LEMMA CfShapes == CfInv /\ [CfNext]_cfVars => CfRecords'
<1> SUFFICES ASSUME CfInv, [CfNext]_cfVars
             PROVE  CfRecords'
  OBVIOUS
<1> USE CfBounds, Seconds DEF CfBounds, wishVars, NotThere, NoContainer,
      CfSteps, CfInv, CfPlaces, CfRecords, CfFiles, CfContainers, Texts
<1>1. CASE CfStart
  BY <1>1 DEF CfStart
<1>2. CASE ReadServerFile
  BY <1>2 DEF ReadServerFile
<1>3. CASE Render
  BY <1>3 DEF Render, Rendered, Fits, Fresh, KeepsTime
<1>4. CASE HookRefuses
  BY <1>4 DEF HookRefuses
<1>5. CASE Rsync
  BY <1>5 DEF Rsync
<1>6. CASE Up
  <2>1. Loaded \in CfContainers
    <3>1. server.text \in Texts /\ clock \in 0..MaxCfTime
          /\ (IF app = "authelia" THEN staged.text ELSE <<0, 0>>) \in Texts
      OBVIOUS
    <3> QED
      BY <3>1 DEF Loaded
  <2>2. container' = container \/ container' = Loaded
    BY <1>6 DEF Up
  <2>3. container' \in CfContainers
    BY <2>1, <2>2
  <2> QED
    BY <1>6, <2>3 DEF Up
<1>7. CASE LeaveRunning
  BY <1>7 DEF LeaveRunning, NeedsRestart
<1>8. CASE DockerRestart
  BY <1>8 DEF DockerRestart, NeedsRestart
<1>9. CASE CfFails
  BY <1>9 DEF CfFails
<1>10. CASE ContainerDies
  BY <1>10 DEF ContainerDies
<1>11. CASE Tick
  BY <1>11 DEF Tick
<1>12. CASE UNCHANGED cfVars
  BY <1>12 DEF cfVars
<1> QED
  BY <1>1, <1>2, <1>3, <1>4, <1>5, <1>6, <1>7, <1>8, <1>9, <1>10, <1>11,
       <1>12 DEF CfNext

(* Places and times keep their types.                                      *)
LEMMA CfNumbers == CfPlaces /\ [CfNext]_cfVars => CfPlaces'
<1> SUFFICES ASSUME CfPlaces, [CfNext]_cfVars
             PROVE  CfPlaces'
  OBVIOUS
<1> USE CfBounds, Seconds DEF CfBounds, wishVars, NotThere, NoContainer,
      CfSteps, CfPlaces
<1>1. CASE CfStart
  BY <1>1 DEF CfStart
<1>2. CASE ReadServerFile
  BY <1>2 DEF ReadServerFile
<1>3. CASE Render
  BY <1>3 DEF Render, Rendered, Fits, Fresh, KeepsTime
<1>4. CASE HookRefuses
  BY <1>4 DEF HookRefuses
<1>5. CASE Rsync
  BY <1>5 DEF Rsync
<1>6. CASE Up
  BY <1>6 DEF Up, Loaded
<1>7. CASE LeaveRunning
  BY <1>7 DEF LeaveRunning, NeedsRestart
<1>8. CASE DockerRestart
  BY <1>8 DEF DockerRestart, NeedsRestart
<1>9. CASE CfFails
  BY <1>9 DEF CfFails
<1>10. CASE ContainerDies
  BY <1>10 DEF ContainerDies
<1>11. CASE Tick
  BY <1>11 DEF Tick
<1>12. CASE UNCHANGED cfVars
  BY <1>12 DEF cfVars
<1> QED
  BY <1>1, <1>2, <1>3, <1>4, <1>5, <1>6, <1>7, <1>8, <1>9, <1>10, <1>11,
       <1>12 DEF CfNext

(* What is true or false stays so.                                         *)
LEMMA CfTruths == CfFlags /\ [CfNext]_cfVars => CfFlags'
<1> SUFFICES ASSUME CfFlags, [CfNext]_cfVars
             PROVE  CfFlags'
  OBVIOUS
<1> USE CfBounds, Seconds DEF CfBounds, wishVars, NotThere, NoContainer,
      CfSteps, CfFlags
<1>1. CASE CfStart
  BY <1>1, Zenon DEF CfStart
<1>2. CASE ReadServerFile
  BY <1>2 DEF ReadServerFile
<1>3. CASE Render
  BY <1>3 DEF Render, Rendered, Fits, Fresh, KeepsTime
<1>4. CASE HookRefuses
  BY <1>4 DEF HookRefuses
<1>5. CASE Rsync
  BY <1>5 DEF Rsync
<1>6. CASE Up
  BY <1>6 DEF Up, Loaded
<1>7. CASE LeaveRunning
  BY <1>7 DEF LeaveRunning, NeedsRestart
<1>8. CASE DockerRestart
  BY <1>8 DEF DockerRestart, NeedsRestart
<1>9. CASE CfFails
  BY <1>9 DEF CfFails
<1>10. CASE ContainerDies
  BY <1>10 DEF ContainerDies
<1>11. CASE Tick
  BY <1>11 DEF Tick
<1>12. CASE UNCHANGED cfVars
  BY <1>12 DEF cfVars
<1> QED
  BY <1>1, <1>2, <1>3, <1>4, <1>5, <1>6, <1>7, <1>8, <1>9, <1>10, <1>11,
       <1>12 DEF CfNext

(* Nothing comes from the future.                                          *)
LEMMA CfTimes == CfInv /\ [CfNext]_cfVars => TimesPassed'
<1> SUFFICES ASSUME CfInv, [CfNext]_cfVars
             PROVE  TimesPassed'
  OBVIOUS
<1> USE CfBounds, Seconds DEF CfBounds, wishVars, NotThere, NoContainer,
      CfSteps, CfInv, TimesPassed, CfPlaces, CfRecords, CfFiles,
      CfContainers, Texts
<1>1. CASE CfStart
  BY <1>1 DEF CfStart
<1>2. CASE ReadServerFile
  BY <1>2 DEF ReadServerFile
<1>3. CASE Render
  BY <1>3 DEF Render, StagedFits, Rendered, Fits, Fresh, KeepsTime
<1>4. CASE HookRefuses
  BY <1>4 DEF HookRefuses
<1>5. CASE Rsync
  <2>1. Sec(staged.mtime) <= Sec(staged.ctime) /\ staged # NotThere
    BY <1>5 DEF Rsync, StagedFits
  <2>2. server' = server \/ (server'.mtime = staged.mtime
                             /\ server'.ctime = clock)
    BY <1>5 DEF Rsync
  <2>3. UNCHANGED <<staged, clock, container>> /\ cfAt' # "rsync"
    BY <1>5 DEF Rsync
  <2> QED
    BY <2>1, <2>2, <2>3
<1>6. CASE Up
  BY <1>6 DEF Up, Loaded
<1>7. CASE LeaveRunning
  BY <1>7 DEF LeaveRunning, NeedsRestart
<1>8. CASE DockerRestart
  BY <1>8 DEF DockerRestart, NeedsRestart
<1>9. CASE CfFails
  BY <1>9 DEF CfFails
<1>10. CASE ContainerDies
  BY <1>10 DEF ContainerDies
<1>11. CASE Tick
  BY <1>11 DEF Tick
<1>12. CASE UNCHANGED cfVars
  BY <1>12 DEF cfVars
<1> QED
  BY <1>1, <1>2, <1>3, <1>4, <1>5, <1>6, <1>7, <1>8, <1>9, <1>10, <1>11,
       <1>12 DEF CfNext

(* What is staged is what the server gets.                                 *)
LEMMA CfStaged == CfInv /\ [CfNext]_cfVars => StagedFits'
<1> SUFFICES ASSUME CfInv, [CfNext]_cfVars
             PROVE  StagedFits'
  OBVIOUS
<1> USE CfBounds, Seconds DEF CfBounds, wishVars, NotThere, NoContainer,
      CfSteps, CfInv, StagedFits, TimesPassed, CfPlaces, Fits, CfRecords,
      CfFiles, CfContainers, Texts
<1>1. CASE CfStart
  BY <1>1 DEF CfStart
<1>2. CASE ReadServerFile
  BY <1>2 DEF ReadServerFile
<1>3. CASE Render
  BY <1>3 DEF Render, Rendered, Fits, Fresh, KeepsTime
<1>4. CASE HookRefuses
  BY <1>4 DEF HookRefuses
<1>5. CASE Rsync
  <2>1. UNCHANGED <<app, wish, saw, staged>> /\ cfAt = "rsync" /\ cfAt' = "up"
    BY <1>5 DEF Rsync
  <2>2. staged # NotThere /\ Fits(staged.text) /\ Fits(staged.text)'
    BY <2>1
  <2>3. server'.text = staged.text
    <3>1. CASE server' = [text |-> staged.text, mtime |-> staged.mtime,
                          ctime |-> clock]
      BY <3>1
    <3>2. CASE server' = server /\ Sec(server.mtime) = Sec(staged.mtime)
      <4>1. Sec(server.mtime) < Sec(staged.ctime)
        BY <2>1
      <4>2. Sec(server.mtime) \in Nat
        OBVIOUS
      <4>3. staged.mtime # staged.ctime
        BY <3>2, <4>1, <4>2
      <4> QED
        BY <2>1, <3>2, <4>3
    <3> QED
      BY <1>5, <3>1, <3>2 DEF Rsync
  <2> QED
    BY <2>1, <2>2, <2>3
<1>6. CASE Up
  BY <1>6 DEF Up, Loaded
<1>7. CASE LeaveRunning
  BY <1>7 DEF LeaveRunning, NeedsRestart
<1>8. CASE DockerRestart
  BY <1>8 DEF DockerRestart, NeedsRestart
<1>9. CASE CfFails
  BY <1>9 DEF CfFails
<1>10. CASE ContainerDies
  BY <1>10 DEF ContainerDies
<1>11. CASE Tick
  BY <1>11 DEF Tick
<1>12. CASE UNCHANGED cfVars
  BY <1>12 DEF cfVars
<1> QED
  BY <1>1, <1>2, <1>3, <1>4, <1>5, <1>6, <1>7, <1>8, <1>9, <1>10, <1>11,
       <1>12 DEF CfNext

(* A container started later has what the server has.                      *)
LEMMA CfKnows == CfInv /\ [CfNext]_cfVars => ContainerKnows'
<1> SUFFICES ASSUME CfInv, [CfNext]_cfVars
             PROVE  ContainerKnows'
  OBVIOUS
<1> USE CfBounds, Seconds DEF CfBounds, wishVars, NotThere, NoContainer,
      CfSteps, CfInv, ContainerKnows, ServesCurrent, TimesPassed, CfPlaces,
      Fits, StagedFits, CfRecords, CfFiles, CfContainers, Texts
<1>1. CASE CfStart
  BY <1>1 DEF CfStart
<1>2. CASE ReadServerFile
  BY <1>2 DEF ReadServerFile
<1>3. CASE Render
  BY <1>3 DEF Render, Rendered, Fits, Fresh, KeepsTime
<1>4. CASE HookRefuses
  BY <1>4 DEF HookRefuses
<1>5. CASE Rsync
  BY <1>5 DEF Rsync
<1>6. CASE Up
  BY <1>6 DEF Up, Loaded
<1>7. CASE LeaveRunning
  BY <1>7 DEF LeaveRunning, NeedsRestart
<1>8. CASE DockerRestart
  <2>1. container'.text = server.text /\ container'.since = clock
        /\ container'.label = container.label
        /\ container'.again = container.again
    BY <1>8 DEF DockerRestart
  <2>2. container' # NoContainer
    BY <2>1
  <2>3. app # "authelia" /\ Fits(server.text) /\ cfAt' = "ok"
        /\ UNCHANGED <<app, wish, server, staged>>
    BY <1>8 DEF DockerRestart
  <2> QED
    BY <2>1, <2>2, <2>3
<1>9. CASE CfFails
  BY <1>9 DEF CfFails
<1>10. CASE ContainerDies
  BY <1>10 DEF ContainerDies
<1>11. CASE Tick
  BY <1>11 DEF Tick
<1>12. CASE UNCHANGED cfVars
  BY <1>12 DEF cfVars
<1> QED
  BY <1>1, <1>2, <1>3, <1>4, <1>5, <1>6, <1>7, <1>8, <1>9, <1>10, <1>11,
       <1>12 DEF CfNext

(* A deploy that has nothing to change changes nothing.                    *)
LEMMA CfSettled == CfInv /\ [CfNext]_cfVars => SettledStays'
<1> SUFFICES ASSUME CfInv, [CfNext]_cfVars
             PROVE  SettledStays'
  OBVIOUS
<1> USE CfBounds, Seconds DEF CfBounds, wishVars, NotThere, NoContainer,
      CfSteps, CfInv, SettledStays, TimesPassed, CfPlaces, Fits, StagedFits,
      CfRecords, CfFiles, CfContainers, Texts
<1>1. CASE CfStart
  BY <1>1 DEF CfStart
<1>2. CASE ReadServerFile
  BY <1>2 DEF ReadServerFile
<1>3. CASE Render
  BY <1>3 DEF Render, Rendered, Fits, Fresh, KeepsTime
<1>4. CASE HookRefuses
  BY <1>4 DEF HookRefuses
<1>5. CASE Rsync
  BY <1>5 DEF Rsync
<1>6. CASE Up
  BY <1>6 DEF Up, Loaded
<1>7. CASE LeaveRunning
  BY <1>7 DEF LeaveRunning, NeedsRestart
<1>8. CASE DockerRestart
  BY <1>8 DEF DockerRestart, NeedsRestart
<1>9. CASE CfFails
  BY <1>9 DEF CfFails
<1>10. CASE ContainerDies
  <2>1. container'.since = clock /\ container'.label = container.label
        /\ container # NoContainer
    BY <1>10 DEF ContainerDies
  <2>2. container' # NoContainer
    BY <2>1
  <2>3. UNCHANGED <<app, wish, server, saw, staged, cfAt, settled, blind>>
    BY <1>10 DEF ContainerDies
  <2>4. Sec(container.since) <= Sec(clock)
    OBVIOUS
  <2>5. Sec(server.ctime) < Sec(container.since) =>
          Sec(server.ctime) < Sec(clock)
    <3>1. /\ Sec(server.ctime) \in Nat /\ Sec(container.since) \in Nat
          /\ Sec(clock) \in Nat
      OBVIOUS
    <3> QED
      BY ONLY <2>4, <3>1
  <2> QED
    BY <2>1, <2>2, <2>3, <2>5
<1>11. CASE Tick
  BY <1>11 DEF Tick
<1>12. CASE UNCHANGED cfVars
  BY <1>12 DEF cfVars
<1> QED
  BY <1>1, <1>2, <1>3, <1>4, <1>5, <1>6, <1>7, <1>8, <1>9, <1>10, <1>11,
       <1>12 DEF CfNext

(* The parts of the types are among the types.                             *)
LEMMA CfParts == CfRecords /\ CfPlaces /\ CfFlags => CfTypeOK
<1> SUFFICES ASSUME CfRecords, CfPlaces, CfFlags PROVE CfTypeOK
  OBVIOUS
<1>1. \A f \in {server, saw, staged} :
        /\ f.text \in (0..2) \X (0..MaxCfRuns)
        /\ f.mtime \in 0..MaxCfTime /\ f.ctime \in 0..MaxCfTime
  BY DEF CfRecords, CfFiles, Texts
<1>2. container.text \in (0..2) \X (0..MaxCfRuns)
      /\ container.since \in 0..MaxCfTime
  BY DEF CfRecords, CfContainers, Texts
<1> QED
  BY <1>1, <1>2, Zenon DEF CfTypeOK, CfPlaces, CfFlags

(* Before the first deploy there is neither a file nor a container.        *)
LEMMA CfStarts == CfInit => CfInv
<1> SUFFICES ASSUME CfInit PROVE CfInv
  OBVIOUS
<1>1. CfFlags
  BY Zenon DEF CfInit, CfFlags
<1>2. CfRecords
  <2>1. NotThere \in CfFiles /\ NoContainer \in CfContainers
    BY CfBounds
       DEF NotThere, NoContainer, CfFiles, CfContainers, Texts, CfBounds
  <2> QED
    BY <2>1 DEF CfInit, CfRecords
<1>3. CfPlaces
  BY CfBounds DEF CfInit, CfPlaces, CfBounds
<1>4. TimesPassed
  BY Seconds DEF CfInit, TimesPassed, NotThere, NoContainer
<1>5. StagedFits /\ ContainerKnows /\ SettledStays
  BY DEF CfInit, StagedFits, ContainerKnows, ServesCurrent, SettledStays,
         CfSteps, NotThere
<1> QED
  BY <1>1, <1>2, <1>3, <1>4, <1>5 DEF CfInv

(* The conjuncts of the invariant, one step further.                       *)
LEMMA CfStep == CfInv /\ [CfNext]_cfVars => CfInv'
BY CfShapes, CfNumbers, CfTruths, CfTimes, CfStaged, CfKnows, CfSettled
   DEF CfInv

(* A deploy with nothing to change leaves the container alone.             *)
LEMMA CfLeavesAlone == CfInv /\ [CfNext]_cfVars => LeftAlone
<1> SUFFICES ASSUME CfInv, [CfNext]_cfVars
             PROVE  LeftAlone
  OBVIOUS
<1> USE CfBounds, Seconds DEF CfBounds, wishVars, NotThere, NoContainer,
      CfSteps, CfInv, SettledStays, StagedFits, CfPlaces, LeftAlone,
      CfRecords, CfFiles, CfContainers, Texts
<1>1. CASE CfStart
  BY <1>1 DEF CfStart
<1>2. CASE ReadServerFile
  BY <1>2 DEF ReadServerFile
<1>3. CASE Render
  BY <1>3 DEF Render, Rendered, Fits, Fresh, KeepsTime
<1>4. CASE HookRefuses
  BY <1>4 DEF HookRefuses
<1>5. CASE Rsync
  BY <1>5 DEF Rsync
<1>6. CASE Up
  <2> SUFFICES ASSUME settled, container # NoContainer
               PROVE  container' = container
    BY <1>6 DEF Up
  <2>1. CASE app # "authelia"
    BY <1>6, <2>1, Zenon DEF Up
  <2>2. CASE app = "authelia"
    <3>1. container.label = <<wish, 0>>
      BY <1>6, <2>2 DEF Up
    <3>2. staged.text[1] = wish /\ staged.text[2] = 0
      BY <1>6, <2>2 DEF Up, Fits
    <3>3. staged.text = <<wish, 0>>
      BY <3>2
    <3> QED
      BY <1>6, <3>1, <3>3, Zenon DEF Up
  <2> QED
    BY <2>1, <2>2
<1>7. CASE LeaveRunning
  BY <1>7 DEF LeaveRunning, NeedsRestart
<1>8. CASE DockerRestart
  <2> SUFFICES ASSUME settled, ~blind' PROVE FALSE
    OBVIOUS
  <2>1. NeedsRestart /\ (blind' = blind \/ blind' = TRUE)
    BY <1>8, Zenon DEF DockerRestart
  <2>2. ~blind
    BY <2>1, Zenon
  <2>3. cfAt = "after" /\ app # "authelia"
    BY <1>8 DEF DockerRestart
  <2>4. Sec(server.ctime) < Sec(container.since)
    BY <2>2, <2>3
  <2>5. Sec(server.ctime) \in Nat /\ Sec(container.since) \in Nat
    OBVIOUS
  <2> QED
    BY ONLY <2>1, <2>4, <2>5 DEF NeedsRestart
<1>9. CASE CfFails
  BY <1>9 DEF CfFails
<1>10. CASE ContainerDies
  BY <1>10 DEF ContainerDies
<1>11. CASE Tick
  BY <1>11 DEF Tick
<1>12. CASE UNCHANGED cfVars
  BY <1>12 DEF cfVars
<1> QED
  BY <1>1, <1>2, <1>3, <1>4, <1>5, <1>6, <1>7, <1>8, <1>9, <1>10, <1>11,
       <1>12 DEF CfNext

(* Whatever fails in however many deploys, and whenever the container dies:*)
(* behind one that ends well it runs on that deploy's file, and one that   *)
(* has nothing to change leaves it running.                                *)
THEOREM ServesWhatWasDeployed ==
  CfInit /\ [][CfNext]_cfVars => [](ServesCurrent /\ CfTypeOK) /\ LeavesRunning
<1>1. CfInv => ServesCurrent /\ CfTypeOK
  BY CfParts DEF CfInv, ContainerKnows
<1> QED
  BY <1>1, CfStarts, CfStep, CfLeavesAlone, PTL DEF LeavesRunning

-----------------------------------------------------------------------------
(* The mailbox's scripts and its messages, step by step.                   *)

(* Places and scripts keep their types.                                    *)
LEMMA SievePlaces == SieveSets /\ [SieveNext]_sieveVars => SieveSets'
<1> SUFFICES ASSUME SieveSets, [SieveNext]_sieveVars
             PROVE  SieveSets'
  OBVIOUS
<1> USE SieveBound DEF SieveBound, optionVars, scriptVars, mailboxVars,
      SieveSteps, SieveSets
<1>1. CASE SieveStarts
  BY <1>1 DEF SieveStarts
<1>2. CASE EnsureAccount
  BY <1>2 DEF EnsureAccount
<1>3. CASE CheckOther
  BY <1>3 DEF CheckOther
<1>4. CASE QueryAndUpload
  BY <1>4 DEF QueryAndUpload
<1>5. CASE Swap
  BY <1>5 DEF Swap
<1>6. CASE DryRun
  BY <1>6 DEF DryRun
<1>7. CASE EnsureBoxes
  BY <1>7 DEF EnsureBoxes
<1>8. CASE Search
  BY <1>8 DEF Search
<1>9. CASE MoveBatch
  BY <1>9 DEF MoveBatch
<1>10. CASE AllMoved
  BY <1>10 DEF AllMoved
<1>11. CASE DeleteBounces
  BY <1>11 DEF DeleteBounces
<1>12. CASE SieveEnds
  BY <1>12 DEF SieveEnds
<1>13. CASE SieveFails
  BY <1>13 DEF SieveFails
<1>14. CASE OwnerActs
  BY <1>14 DEF OwnerActs
<1>15. CASE UNCHANGED sieveVars
  BY <1>15 DEF sieveVars
<1> QED
  BY <1>1, <1>2, <1>3, <1>4, <1>5, <1>6, <1>7, <1>8, <1>9, <1>10, <1>11,
       <1>12, <1>13, <1>14, <1>15 DEF SieveNext, SieveStep

(* Every message is in one place.                                          *)
LEMMA SieveBoxes == BoxTypes /\ [SieveNext]_sieveVars => BoxTypes'
<1> SUFFICES ASSUME BoxTypes, [SieveNext]_sieveVars
             PROVE  BoxTypes'
  OBVIOUS
<1> USE SieveBound DEF SieveBound, optionVars, scriptVars, mailboxVars,
      SieveSteps, BoxTypes, Places, TargetOf, Targets, Bounces
<1>1. CASE SieveStarts
  BY <1>1 DEF SieveStarts
<1>2. CASE EnsureAccount
  BY <1>2 DEF EnsureAccount
<1>3. CASE CheckOther
  BY <1>3 DEF CheckOther
<1>4. CASE QueryAndUpload
  BY <1>4 DEF QueryAndUpload
<1>5. CASE Swap
  BY <1>5 DEF Swap
<1>6. CASE DryRun
  BY <1>6 DEF DryRun
<1>7. CASE EnsureBoxes
  BY <1>7 DEF EnsureBoxes
<1>8. CASE Search
  BY <1>8 DEF Search
<1>9. CASE MoveBatch
  BY <1>9 DEF MoveBatch
<1>10. CASE AllMoved
  BY <1>10 DEF AllMoved
<1>11. CASE DeleteBounces
  BY <1>11 DEF DeleteBounces
<1>12. CASE SieveEnds
  BY <1>12 DEF SieveEnds
<1>13. CASE SieveFails
  BY <1>13 DEF SieveFails
<1>14. CASE OwnerActs
  BY <1>14 DEF OwnerActs
<1>15. CASE UNCHANGED sieveVars
  BY <1>15 DEF sieveVars
<1> QED
  BY <1>1, <1>2, <1>3, <1>4, <1>5, <1>6, <1>7, <1>8, <1>9, <1>10, <1>11,
       <1>12, <1>13, <1>14, <1>15 DEF SieveNext, SieveStep

(* What is true or false stays so.                                         *)
LEMMA SieveTruths == SieveFlags /\ [SieveNext]_sieveVars => SieveFlags'
<1> SUFFICES ASSUME SieveFlags, [SieveNext]_sieveVars
             PROVE  SieveFlags'
  OBVIOUS
<1> USE SieveBound DEF SieveBound, optionVars, scriptVars, mailboxVars,
      SieveSteps, SieveFlags
<1>1. CASE SieveStarts
  BY <1>1, Zenon DEF SieveStarts
<1>2. CASE EnsureAccount
  BY <1>2 DEF EnsureAccount
<1>3. CASE CheckOther
  BY <1>3 DEF CheckOther
<1>4. CASE QueryAndUpload
  BY <1>4 DEF QueryAndUpload
<1>5. CASE Swap
  BY <1>5 DEF Swap
<1>6. CASE DryRun
  BY <1>6 DEF DryRun
<1>7. CASE EnsureBoxes
  BY <1>7 DEF EnsureBoxes
<1>8. CASE Search
  BY <1>8 DEF Search
<1>9. CASE MoveBatch
  BY <1>9, Zenon DEF MoveBatch
<1>10. CASE AllMoved
  BY <1>10 DEF AllMoved
<1>11. CASE DeleteBounces
  BY <1>11, Zenon DEF DeleteBounces
<1>12. CASE SieveEnds
  BY <1>12 DEF SieveEnds
<1>13. CASE SieveFails
  BY <1>13 DEF SieveFails
<1>14. CASE OwnerActs
  BY <1>14 DEF OwnerActs
<1>15. CASE UNCHANGED sieveVars
  BY <1>15 DEF sieveVars
<1> QED
  BY <1>1, <1>2, <1>3, <1>4, <1>5, <1>6, <1>7, <1>8, <1>9, <1>10, <1>11,
       <1>12, <1>13, <1>14, <1>15 DEF SieveNext, SieveStep

(* A script of the owner's stops a redirect.                               *)
LEMMA SieveOwns == SieveInv /\ [SieveNext]_sieveVars => NoOwnScript'
<1> SUFFICES ASSUME SieveInv, [SieveNext]_sieveVars
             PROVE  NoOwnScript'
  OBVIOUS
<1> USE SieveBound DEF SieveBound, optionVars, scriptVars, mailboxVars,
      SieveSteps, SieveInv, NoOwnScript, SieveSets
<1>1. CASE SieveStarts
  BY <1>1 DEF SieveStarts
<1>2. CASE EnsureAccount
  BY <1>2 DEF EnsureAccount
<1>3. CASE CheckOther
  BY <1>3 DEF CheckOther
<1>4. CASE QueryAndUpload
  BY <1>4 DEF QueryAndUpload
<1>5. CASE Swap
  BY <1>5 DEF Swap
<1>6. CASE DryRun
  BY <1>6 DEF DryRun
<1>7. CASE EnsureBoxes
  BY <1>7 DEF EnsureBoxes
<1>8. CASE Search
  BY <1>8 DEF Search
<1>9. CASE MoveBatch
  BY <1>9 DEF MoveBatch
<1>10. CASE AllMoved
  BY <1>10 DEF AllMoved
<1>11. CASE DeleteBounces
  BY <1>11 DEF DeleteBounces
<1>12. CASE SieveEnds
  BY <1>12 DEF SieveEnds
<1>13. CASE SieveFails
  BY <1>13 DEF SieveFails
<1>14. CASE OwnerActs
  BY <1>14 DEF OwnerActs
<1>15. CASE UNCHANGED sieveVars
  BY <1>15 DEF sieveVars
<1> QED
  BY <1>1, <1>2, <1>3, <1>4, <1>5, <1>6, <1>7, <1>8, <1>9, <1>10, <1>11,
       <1>12, <1>13, <1>14, <1>15 DEF SieveNext, SieveStep

(* Nobody else makes scripts of that name.                                 *)
LEMMA SieveFound == SieveInv /\ [SieveNext]_sieveVars => FoundAll'
<1> SUFFICES ASSUME SieveInv, [SieveNext]_sieveVars
             PROVE  FoundAll'
  OBVIOUS
<1> USE SieveBound DEF SieveBound, optionVars, scriptVars, mailboxVars,
      SieveSteps, SieveInv, FoundAll, SieveSets
<1>1. CASE SieveStarts
  BY <1>1 DEF SieveStarts
<1>2. CASE EnsureAccount
  BY <1>2 DEF EnsureAccount
<1>3. CASE CheckOther
  BY <1>3 DEF CheckOther
<1>4. CASE QueryAndUpload
  BY <1>4 DEF QueryAndUpload
<1>5. CASE Swap
  BY <1>5 DEF Swap
<1>6. CASE DryRun
  BY <1>6 DEF DryRun
<1>7. CASE EnsureBoxes
  BY <1>7 DEF EnsureBoxes
<1>8. CASE Search
  BY <1>8 DEF Search
<1>9. CASE MoveBatch
  BY <1>9 DEF MoveBatch
<1>10. CASE AllMoved
  BY <1>10 DEF AllMoved
<1>11. CASE DeleteBounces
  BY <1>11 DEF DeleteBounces
<1>12. CASE SieveEnds
  BY <1>12 DEF SieveEnds
<1>13. CASE SieveFails
  BY <1>13 DEF SieveFails
<1>14. CASE OwnerActs
  BY <1>14 DEF OwnerActs
<1>15. CASE UNCHANGED sieveVars
  BY <1>15 DEF sieveVars
<1> QED
  BY <1>1, <1>2, <1>3, <1>4, <1>5, <1>6, <1>7, <1>8, <1>9, <1>10, <1>11,
       <1>12, <1>13, <1>14, <1>15 DEF SieveNext, SieveStep

(* Behind the swap there is the new script alone.                          *)
LEMMA SieveNew == SieveInv /\ [SieveNext]_sieveVars => NewScript'
<1> SUFFICES ASSUME SieveInv, [SieveNext]_sieveVars
             PROVE  NewScript'
  OBVIOUS
<1> USE SieveBound DEF SieveBound, optionVars, scriptVars, mailboxVars,
      SieveSteps, SieveInv, NewScript, FoundAll, SieveSets
<1>1. CASE SieveStarts
  BY <1>1 DEF SieveStarts
<1>2. CASE EnsureAccount
  BY <1>2 DEF EnsureAccount
<1>3. CASE CheckOther
  BY <1>3 DEF CheckOther
<1>4. CASE QueryAndUpload
  BY <1>4 DEF QueryAndUpload
<1>5. CASE Swap
  BY <1>5 DEF Swap
<1>6. CASE DryRun
  BY <1>6 DEF DryRun
<1>7. CASE EnsureBoxes
  BY <1>7 DEF EnsureBoxes
<1>8. CASE Search
  BY <1>8 DEF Search
<1>9. CASE MoveBatch
  BY <1>9 DEF MoveBatch
<1>10. CASE AllMoved
  BY <1>10 DEF AllMoved
<1>11. CASE DeleteBounces
  BY <1>11 DEF DeleteBounces
<1>12. CASE SieveEnds
  BY <1>12 DEF SieveEnds
<1>13. CASE SieveFails
  BY <1>13 DEF SieveFails
<1>14. CASE OwnerActs
  BY <1>14 DEF OwnerActs
<1>15. CASE UNCHANGED sieveVars
  BY <1>15 DEF sieveVars
<1> QED
  BY <1>1, <1>2, <1>3, <1>4, <1>5, <1>6, <1>7, <1>8, <1>9, <1>10, <1>11,
       <1>12, <1>13, <1>14, <1>15 DEF SieveNext, SieveStep

(* What is not among the messages to move has been moved.                  *)
LEMMA SieveSorts == SieveInv /\ [SieveNext]_sieveVars => MailSorted'
<1> SUFFICES ASSUME SieveInv, [SieveNext]_sieveVars
             PROVE  MailSorted'
  OBVIOUS
<1> USE SieveBound DEF SieveBound, optionVars, scriptVars, mailboxVars,
      SieveSteps, SieveInv, MailSorted, SieveSets, BoxTypes, Sorted,
      Matching, Bounces
<1>1. CASE SieveStarts
  BY <1>1 DEF SieveStarts
<1>2. CASE EnsureAccount
  BY <1>2 DEF EnsureAccount
<1>3. CASE CheckOther
  BY <1>3 DEF CheckOther
<1>4. CASE QueryAndUpload
  BY <1>4 DEF QueryAndUpload
<1>5. CASE Swap
  BY <1>5 DEF Swap
<1>6. CASE DryRun
  BY <1>6 DEF DryRun
<1>7. CASE EnsureBoxes
  BY <1>7 DEF EnsureBoxes
<1>8. CASE Search
  BY <1>8 DEF Search
<1>9. CASE MoveBatch
  <2>1. PICK batch \in SUBSET toMove \ {{}} :
        \E those \in SUBSET {m \in batch : TargetOf(m) \in boxes} :
          /\ inBox' = [m \in Mails |-> IF m \in those THEN TargetOf(m)
                                       ELSE inBox[m]]
          /\ toMove' = toMove \ batch
          /\ missed' = (missed \/ those # batch)
    BY <1>9 DEF MoveBatch
  <2>2. PICK those \in SUBSET {m \in batch : TargetOf(m) \in boxes} :
          /\ inBox' = [m \in Mails |-> IF m \in those THEN TargetOf(m)
                                       ELSE inBox[m]]
          /\ toMove' = toMove \ batch
          /\ missed' = (missed \/ those # batch)
    BY <2>1
  <2>3. /\ sieveAt = "move" /\ sieveAt' \in {"move", "failed"}
        /\ tidy' = tidy /\ ownerActed' = ownerActed
    BY <1>9 DEF MoveBatch
  <2>4. \A m \in Mails : inBox'[m] = "gone" => m \in Bounces
    BY <2>2 DEF TargetOf
  <2>5. ~missed' => ~missed /\ those = batch
    BY <2>2
  <2>6. ASSUME ~missed', ~ownerActed', NEW m \in Matching \ toMove'
        PROVE  Sorted(m)'
    <3>1. CASE m \in batch
      BY <2>2, <2>5, <2>6, <3>1
    <3>2. CASE m \notin batch
      <4>1. m \in Matching \ toMove
        BY <2>2, <2>6, <3>2
      <4>2. Sorted(m)
        BY <2>3, <2>5, <2>6, <4>1
      <4> QED
        BY <2>2, <2>5, <2>6, <3>2, <4>1, <4>2
    <3> QED
      BY <3>1, <3>2
  <2> QED
    BY <2>3, <2>4, <2>6
<1>10. CASE AllMoved
  BY <1>10 DEF AllMoved
<1>11. CASE DeleteBounces
  BY <1>11 DEF DeleteBounces
<1>12. CASE SieveEnds
  BY <1>12 DEF SieveEnds
<1>13. CASE SieveFails
  BY <1>13 DEF SieveFails
<1>14. CASE OwnerActs
  BY <1>14 DEF OwnerActs
<1>15. CASE UNCHANGED sieveVars
  BY <1>15 DEF sieveVars
<1> QED
  BY <1>1, <1>2, <1>3, <1>4, <1>5, <1>6, <1>7, <1>8, <1>9, <1>10, <1>11,
       <1>12, <1>13, <1>14, <1>15 DEF SieveNext, SieveStep

(* The parts of the types are the types.                                   *)
LEMMA SieveParts == SieveTypeOK <=> SieveSets /\ BoxTypes /\ SieveFlags
BY Zenon DEF SieveTypeOK, SieveSets, BoxTypes, SieveFlags, Places

(* Before the first run there is no account and no script.                 *)
LEMMA SieveBegins == SieveInit => SieveInv
<1> SUFFICES ASSUME SieveInit PROVE SieveInv
  OBVIOUS
<1>1. SieveFlags
  BY Zenon DEF SieveInit, SieveFlags
<1>2. SieveSets
  BY SieveBound DEF SieveInit, SieveSets, SieveBound
<1>3. BoxTypes
  BY DEF SieveInit, BoxTypes, Places
<1>4. NoOwnScript /\ FoundAll /\ NewScript /\ MailSorted
  BY DEF SieveInit, NoOwnScript, FoundAll, NewScript, MailSorted
<1> QED
  BY <1>1, <1>2, <1>3, <1>4 DEF SieveInv

(* The conjuncts of the invariant, one step further.                       *)
LEMMA SieveStepInv == SieveInv /\ [SieveNext]_sieveVars => SieveInv'
BY SievePlaces, SieveBoxes, SieveTruths, SieveOwns, SieveFound, SieveNew,
   SieveSorts DEF SieveInv

(* What a step may do to a script of the owner's.                          *)
OwnScriptStays ==
  SieveStep /\ redirect /\ ~ownerActed /\ active = "own" => active' = "own"

(* Only the swap touches the active script, and a run for a redirect does  *)
(* not get there with a script of the owner's.                             *)
LEMMA SieveKeepsOwn == SieveInv => OwnScriptStays
<1> SUFFICES ASSUME SieveInv, SieveStep, redirect, ~ownerActed, active = "own"
             PROVE  active' = "own"
  BY DEF OwnScriptStays
<1>1. sieveAt # "swap"
  BY DEF SieveInv, NoOwnScript
<1>2. ~Swap
  BY <1>1 DEF Swap
<1>3. CASE EnsureAccount \/ CheckOther \/ QueryAndUpload \/ DryRun
           \/ SieveFails
  BY <1>3 DEF EnsureAccount, CheckOther, QueryAndUpload, DryRun, SieveFails,
              scriptVars
<1>4. CASE EnsureBoxes \/ Search \/ MoveBatch \/ AllMoved
           \/ DeleteBounces \/ SieveEnds
  BY <1>4 DEF EnsureBoxes, Search, MoveBatch, AllMoved, DeleteBounces,
              SieveEnds, scriptVars
<1> QED
  BY <1>2, <1>3, <1>4 DEF SieveStep

(* Whatever the server refuses and wherever a run ends: no redirect takes  *)
(* the place of a script the owner has made active, and a run that ends    *)
(* well has left the new script the only one of its name, and active,      *)
(* unless the owner acted meanwhile.                                       *)
THEOREM ScriptIsRight ==
  SieveInit /\ [][SieveNext]_sieveVars => RightScript /\ []SieveTypeOK
<1>1. SieveInv =>
        /\ sieveAt = "ok" /\ ~ownerActed => active = "new" /\ scripts = {"new"}
        /\ SieveTypeOK
  BY SieveParts DEF SieveInv, NewScript
<1>2. SieveInv /\ [SieveNext]_sieveVars => OwnScriptStays
  BY SieveKeepsOwn
<1> QED
  BY <1>1, <1>2, SieveBegins, SieveStepInv, PTL DEF RightScript, OwnScriptStays

(* What the promise sees of the mailbox.                                   *)
SortVars == <<inBox, Asked, SortPhase>>

(* Between the steps of a run that has not been disturbed, messages stay   *)
(* where they are or go where they are asked for.                          *)
LEMMA SortGoesOn ==
  /\ sieveAt \in SieveSteps /\ sieveAt' \in SieveSteps \cup {"failed"}
  /\ ~ownerActed /\ ~ownerActed' /\ tidy' = tidy
  /\ \A m \in Mails :
       inBox'[m] # inBox[m] => Asked[m] # Places /\ inBox'[m] \in Asked[m]
  => Sorting!Moves
<1> SUFFICES ASSUME sieveAt \in SieveSteps,
                    sieveAt' \in SieveSteps \cup {"failed"},
                    ~ownerActed, ~ownerActed', tidy' = tidy,
                    \A m \in Mails : inBox'[m] # inBox[m] =>
                      Asked[m] # Places /\ inBox'[m] \in Asked[m]
             PROVE  Sorting!Moves
  OBVIOUS
<1>1. SortPhase = "running" /\ SortPhase' \in {"running", "failed"}
  BY DEF SortPhase, SieveSteps
<1>2. Asked' = Asked
  BY DEF Asked
<1>3. \A m \in Mails : Unasked[m] = Places
  BY DEF Unasked
<1> QED
  BY <1>1, <1>2, <1>3 DEF Sorting!Moves

(* Every place a message can be asked to is one, but not all of them.      *)
LEMMA AskedOfSome ==
  ASSUME NEW m \in Mails, tidy # "no",
         m \in Matching \/ (tidy = "all" /\ m \in Bounces)
  PROVE  /\ Asked[m] # Places
         /\ m \in Matching => TargetOf(m) \in Asked[m]
         /\ m \in Bounces => "gone" \in Asked[m]
<1>1. Asked[m] = (IF m \in Matching THEN {TargetOf(m)} ELSE {}) \cup
                 (IF m \in Bounces THEN {"gone"} ELSE {})
  BY DEF Asked
<1>2. "inbox" \notin Asked[m]
  BY <1>1 DEF TargetOf
<1> QED
  BY <1>1, <1>2 DEF Places

(* A step of a run, or of the owner's, is one the promise allows.          *)
LEMMA SortPromiseStep ==
  SieveInv /\ [SieveNext]_sieveVars => [Sorting!Next]_SortVars
<1> SUFFICES ASSUME SieveInv, [SieveNext]_sieveVars
             PROVE  Sorting!Next \/ UNCHANGED SortVars
  BY DEF SortVars
<1> USE DEF Sorting!Next, optionVars, mailboxVars
<1>1. CASE SieveStarts
  <2>1. SortPhase # "running" /\ SortPhase' # "ok"
    BY <1>1 DEF SieveStarts, SortPhase, SieveSteps
  <2> QED
    BY <2>1 DEF Sorting!Elsewhere
<1>2. CASE OwnerActs
  <2>1. SortPhase' = "idle"
    BY <1>2 DEF OwnerActs, SortPhase
  <2> QED
    BY <2>1 DEF Sorting!Elsewhere
<1>3. CASE SieveStep /\ ownerActed
  <2>1. ownerActed'
    BY <1>3 DEF SieveStep, EnsureAccount, CheckOther, QueryAndUpload, Swap,
                DryRun, EnsureBoxes, Search, MoveBatch, AllMoved,
                DeleteBounces, SieveEnds, SieveFails
  <2>2. SortPhase = "idle" /\ SortPhase' = "idle"
    BY <1>3, <2>1 DEF SortPhase
  <2> QED
    BY <2>2 DEF Sorting!Elsewhere
<1>4. CASE SieveStep /\ ~ownerActed
  <2>1. CASE EnsureAccount \/ DryRun
    <3>1. CASE sieveAt' = "idle"
      <4>1. SortPhase' = "idle"
        BY <3>1 DEF SortPhase, SieveSteps
      <4> QED
        BY <4>1 DEF Sorting!Elsewhere
    <3>2. CASE sieveAt' # "idle"
      BY <1>4, <2>1, <3>2, SortGoesOn DEF EnsureAccount, DryRun, SieveSteps
    <3> QED
      BY <3>1, <3>2
  <2>2. CASE CheckOther \/ QueryAndUpload \/ EnsureBoxes \/ Search \/ AllMoved
             \/ SieveFails
    <3>1. /\ sieveAt \in SieveSteps /\ sieveAt' \in SieveSteps \cup {"failed"}
          /\ ~ownerActed' /\ tidy' = tidy /\ inBox' = inBox
      BY <1>4, <2>2 DEF CheckOther, QueryAndUpload, EnsureBoxes, Search,
                        AllMoved, SieveFails, SieveSteps
    <3> QED
      BY <1>4, <3>1, SortGoesOn
  <2>3. CASE Swap
    <3>1. /\ sieveAt \in SieveSteps /\ ~ownerActed' /\ tidy' = tidy
          /\ inBox' = inBox /\ missed' = missed
          /\ sieveAt' \in {"failed", "boxes", "ok"}
          /\ sieveAt' = "ok" => tidy = "no"
      BY <1>4, <2>3 DEF Swap, SieveSteps
    <3>2. CASE sieveAt' # "ok"
      BY <1>4, <3>1, <3>2, SortGoesOn DEF SieveSteps
    <3>3. CASE sieveAt' = "ok"
      <4>1. SortPhase = "running" /\ SortPhase' \in {"ok", "failed"}
        BY <1>4, <3>1, <3>3 DEF SortPhase, SieveSteps
      <4>2. Asked' = Asked
        BY <3>1 DEF Asked
      <4>3. \A m \in Mails : Asked[m] = Places /\ inBox[m] \in Places
        BY <3>1, <3>3 DEF Asked, SieveInv, BoxTypes
      <4> QED
        BY <3>1, <4>1, <4>2, <4>3
           DEF Sorting!Succeeds, Sorting!Holds, Sorting!Moves
    <3> QED
      BY <3>2, <3>3
  <2>4. CASE MoveBatch
    <3>1. /\ sieveAt \in SieveSteps /\ sieveAt' \in SieveSteps \cup {"failed"}
          /\ ~ownerActed' /\ tidy' = tidy /\ tidy # "no"
          /\ toMove \subseteq Matching
      BY <1>4, <2>4
         DEF MoveBatch, SieveSteps, SieveInv, SieveSets, MailSorted
    <3>2. PICK batch \in SUBSET toMove \ {{}} :
          \E those \in SUBSET {m \in batch : TargetOf(m) \in boxes} :
            inBox' = [m \in Mails |-> IF m \in those THEN TargetOf(m)
                                      ELSE inBox[m]]
      BY <2>4 DEF MoveBatch
    <3>3. \A m \in Mails : inBox'[m] # inBox[m] =>
            m \in Matching /\ inBox'[m] = TargetOf(m)
      BY <3>1, <3>2
    <3> QED
      BY <1>4, <3>1, <3>3, AskedOfSome, SortGoesOn
  <2>5. CASE DeleteBounces
    <3>1. /\ sieveAt \in SieveSteps /\ sieveAt' \in SieveSteps \cup {"failed"}
          /\ ~ownerActed' /\ tidy' = tidy /\ tidy = "all"
      BY <1>4, <2>5 DEF DeleteBounces, SieveSteps, SieveInv, MailSorted
    <3>2. \A m \in Mails : inBox'[m] # inBox[m] =>
            m \in Bounces /\ inBox'[m] = "gone"
      BY <2>5 DEF DeleteBounces
    <3> QED
      BY <1>4, <3>1, <3>2, AskedOfSome, SortGoesOn
  <2>6. CASE SieveEnds
    <3>1. /\ sieveAt = "done" /\ sieveAt' = "ok" /\ ~ownerActed'
          /\ tidy' = tidy /\ inBox' = inBox /\ missed' = missed
      BY <1>4, <2>6 DEF SieveEnds
    <3>2. SortPhase = "running" /\ Asked' = Asked
      BY <1>4, <3>1 DEF SortPhase, SieveSteps, Asked
    <3>3. CASE missed
      <4>1. SortPhase' = "failed"
        BY <3>1, <3>3 DEF SortPhase, SieveSteps
      <4> QED
        BY <3>1, <3>2, <4>1 DEF Sorting!Moves
    <3>4. CASE ~missed
      <4>1. SortPhase' = "ok"
        BY <3>1, <3>4 DEF SortPhase, SieveSteps
      <4>2. /\ \A m \in Matching : Sorted(m)
            /\ \A m \in Mails : inBox[m] = "gone" => m \in Bounces
            /\ tidy = "all" => \A m \in Bounces : inBox[m] = "gone"
        BY <1>4, <3>1, <3>4 DEF SieveInv, MailSorted
      <4>3. ASSUME NEW m \in Mails PROVE inBox[m] \in Asked[m]
        <5>1. inBox[m] \in Places
          BY DEF SieveInv, BoxTypes
        <5> QED
          BY <4>2, <5>1 DEF Asked, Sorted
      <4> QED
        BY <3>1, <3>2, <4>1, <4>3 DEF Sorting!Succeeds, Sorting!Holds
    <3> QED
      BY <3>3, <3>4
  <2> QED
    BY <1>4, <2>1, <2>2, <2>3, <2>4, <2>5, <2>6 DEF SieveStep
<1>5. CASE UNCHANGED sieveVars
  BY <1>5 DEF sieveVars, SortVars, Asked, SortPhase
<1> QED
  BY <1>1, <1>2, <1>3, <1>4, <1>5 DEF SieveNext

(* The script that sorts the mail implements what a hook promises: only    *)
(* what a rule matches is moved, to where the first rule says, and when it *)
(* ends well, no answer unread, all of it is there.                        *)
THEOREM SievePromise ==
  SieveInit /\ [][SieveNext]_sieveVars => SortsAsAsked
<1>1. SieveInit => Sorting!Init
  BY DEF SieveInit, Sorting!Init, SortPhase, SieveSteps
<1> QED
  BY <1>1, SieveBegins, SieveStepInv, SortPromiseStep, PTL
     DEF SortsAsAsked, Sorting!Spec, SortVars

-----------------------------------------------------------------------------
(* The hooks of Syncthing, step by step.                                   *)

(* A prefix of itself, for sequences of whatever.                          *)
LEMMA OwnPrefix == ASSUME NEW S, NEW d \in Seq(S) PROVE IsPrefix(d, d)
BY DEF IsPrefix

(* So it is with the folders of the host.                                  *)
LEMMA HostPrefix == \A d \in HostDirs : IsPrefix(d, d)
BY OwnPrefix, SyncConstants, Zenon DEF SyncConstants

(* The entries and the folders of a file are known by name and id.         *)
LEMMA FileNames ==
  ASSUME NEW f \in Files \cup {NoFile}
  PROVE  /\ EntryNames(f) \subseteq Names /\ FileFolders(f) \subseteq FolderIds
         /\ \A n \in EntryNames(f) : IdOf(f, n) \in Ids
<1>1. CASE f = NoFile
  BY <1>1 DEF NoFile, EntryNames, FileFolders
<1>2. CASE f \in Files
  <2>1. EntryNames(f) \subseteq Names /\ FileFolders(f) \subseteq FolderIds
    BY <1>2, SyncConstants DEF SyncConstants, EntryNames, Names
  <2>2. ASSUME NEW n \in EntryNames(f) PROVE IdOf(f, n) \in Ids
    <3>1. PICK known \in f.entries : known.name = n
      BY DEF EntryNames
    <3>2. (CHOOSE e \in f.entries : e.name = n) \in f.entries
      BY <3>1
    <3> QED
      BY <1>2, <3>2, SyncConstants DEF SyncConstants, IdOf
  <2> QED
    BY <2>1, <2>2
<1> QED
  BY <1>1, <1>2

(* What is wanted of a device or a folder is of their types.               *)
LEMMA WantedTypes ==
  /\ \A n \in Names, cur \in [by : By, extra : Rest] :
       /\ DesiredDevice(n, cur) \in [by : By, extra : Rest]
       /\ DesiredDevice(n, cur).by = n
       /\ DesiredDevice(n, cur).extra = cur.extra
  /\ \A f, id : \A cur \in [by : By, extra : Rest, shares : Shares] :
       id \in FolderIds =>
       /\ DesiredFolder(f, id, cur)
            \in [by : By, extra : Rest, shares : Shares]
       /\ DesiredFolder(f, id, cur).by = id
       /\ DesiredFolder(f, id, cur).extra = cur.extra
       /\ DesiredFolder(f, id, cur).shares =
            [i \in Ids |-> IF i \notin SharesOf(f, id) THEN "none"
                           ELSE IF cur.shares[i] = "none" THEN "open"
                           ELSE cur.shares[i]]
<1>1. \A n \in Names, cur \in [by : By, extra : Rest] :
       /\ DesiredDevice(n, cur) \in [by : By, extra : Rest]
       /\ DesiredDevice(n, cur).by = n
       /\ DesiredDevice(n, cur).extra = cur.extra
  BY DEF DesiredDevice, By
<1>2. ASSUME NEW f, NEW id \in FolderIds,
             NEW cur \in [by : By, extra : Rest, shares : Shares]
      PROVE  /\ DesiredFolder(f, id, cur)
                  \in [by : By, extra : Rest, shares : Shares]
             /\ DesiredFolder(f, id, cur).by = id
             /\ DesiredFolder(f, id, cur).extra = cur.extra
             /\ DesiredFolder(f, id, cur).shares =
                  [i \in Ids |-> IF i \notin SharesOf(f, id) THEN "none"
                                 ELSE IF cur.shares[i] = "none" THEN "open"
                                 ELSE cur.shares[i]]
  <2> DEFINE shares == [i \in Ids |->
                          IF i \notin SharesOf(f, id) THEN "none"
                          ELSE IF cur.shares[i] = "none" THEN "open"
                          ELSE cur.shares[i]]
  <2>1. shares \in Shares
    BY DEF Shares
  <2>2. DesiredFolder(f, id, cur) = [cur EXCEPT !.by = id, !.shares = shares]
    BY DEF DesiredFolder
  <2> HIDE DEF shares
  <2>3. id \in By
    BY DEF By
  <2>4. /\ DesiredFolder(f, id, cur)
             \in [by : By, extra : Rest, shares : Shares]
        /\ DesiredFolder(f, id, cur).by = id
        /\ DesiredFolder(f, id, cur).extra = cur.extra
        /\ DesiredFolder(f, id, cur).shares = shares
    BY <2>1, <2>2, <2>3
  <2> QED
    BY <2>4 DEF shares
<1> QED
  BY <1>1, <1>2

(* Where the hooks are, and what they have still to do.                    *)
LEMMA SyncCounts == SyncSets /\ SyncFlags /\ [SyncNext]_syncVars => SyncSets'
<1> SUFFICES ASSUME SyncSets, SyncFlags, [SyncNext]_syncVars
             PROVE  SyncSets'
  OBVIOUS
<1> USE DEF serviceVars, workVars, outVars, SyncSets, SyncRunning, NoFile
<1>1. CASE BeforeStarts
  <2>1. makeDirs' \subseteq HostDirs
    BY <1>1, SyncConstants DEF BeforeStarts, SyncConstants
  <2> QED
    BY <1>1, <2>1, SyncConstants DEF BeforeStarts, SyncConstants
<1>2. CASE MakeDir
  BY <1>2 DEF MakeDir
<1>3. CASE WaitForApi
  BY <1>3 DEF WaitForApi
<1>4. CASE SendOptions
  BY <1>4 DEF SendOptions
<1>5. CASE ReadFolders
  BY <1>5 DEF ReadFolders
<1>6. CASE ReadDevices
  <2>1. /\ EntryNames(file) \subseteq Names
        /\ FileFolders(file) \subseteq FolderIds
    BY FileNames
  <2> QED
    BY <1>6, <2>1 DEF ReadDevices
<1>7. CASE SendDevice
  BY <1>7 DEF SendDevice
<1>8. CASE SendFolder
  BY <1>8 DEF SendFolder
<1>9. CASE RereadDevices
  BY <1>9 DEF RereadDevices
<1>10. CASE Verify
  BY <1>10 DEF Verify
<1>11. CASE CallFails
  BY <1>11 DEF CallFails
<1>12. CASE ComposeUp
  BY <1>12 DEF ComposeUp
<1>13. CASE ApiComesUp
  BY <1>13 DEF ApiComesUp
<1>14. CASE DeployedAgain
  BY <1>14 DEF DeployedAgain
<1>15. CASE Gui
  <2>1. gui < MaxGui /\ gui' = gui + 1 /\ MaxGui \in Nat
    BY <1>15, SyncConstants DEF Gui, SyncConstants
  <2>2. UNCHANGED <<syncAt, file, workVars, hooks>>
    BY <1>15 DEF Gui
  <2> QED
    BY <2>1, <2>2
<1>16. CASE UNCHANGED syncVars
  BY <1>16 DEF syncVars
<1> QED
  BY <1>1, <1>2, <1>3, <1>4, <1>5, <1>6, <1>7, <1>8, <1>9, <1>10, <1>11,
       <1>12, <1>13, <1>14, <1>15, <1>16 DEF SyncNext, HookSteps

(* A folder of the host is one thing or another.                           *)
LEMMA SyncHosts == HostTypes /\ [SyncNext]_syncVars => HostTypes'
<1> SUFFICES ASSUME HostTypes, [SyncNext]_syncVars
             PROVE  HostTypes'
  OBVIOUS
<1> USE DEF serviceVars, workVars, outVars, HostTypes
<1>1. CASE BeforeStarts
  BY <1>1 DEF BeforeStarts
<1>2. CASE MakeDir
  BY <1>2 DEF MakeDir
<1>3. CASE WaitForApi
  BY <1>3 DEF WaitForApi
<1>4. CASE SendOptions
  BY <1>4 DEF SendOptions
<1>5. CASE ReadFolders
  BY <1>5 DEF ReadFolders
<1>6. CASE ReadDevices
  BY <1>6 DEF ReadDevices
<1>7. CASE SendDevice
  BY <1>7 DEF SendDevice
<1>8. CASE SendFolder
  BY <1>8 DEF SendFolder
<1>9. CASE RereadDevices
  BY <1>9 DEF RereadDevices
<1>10. CASE Verify
  BY <1>10 DEF Verify
<1>11. CASE CallFails
  BY <1>11 DEF CallFails
<1>12. CASE ComposeUp
  BY <1>12 DEF ComposeUp
<1>13. CASE ApiComesUp
  BY <1>13 DEF ApiComesUp
<1>14. CASE DeployedAgain
  BY <1>14 DEF DeployedAgain
<1>15. CASE Gui
  BY <1>15 DEF Gui
<1>16. CASE UNCHANGED syncVars
  BY <1>16 DEF syncVars
<1> QED
  BY <1>1, <1>2, <1>3, <1>4, <1>5, <1>6, <1>7, <1>8, <1>9, <1>10, <1>11,
       <1>12, <1>13, <1>14, <1>15, <1>16 DEF SyncNext, HookSteps

(* What is true or false stays so.                                         *)
LEMMA SyncTruths == SyncFlags /\ [SyncNext]_syncVars => SyncFlags'
<1> SUFFICES ASSUME SyncFlags, [SyncNext]_syncVars
             PROVE  SyncFlags'
  OBVIOUS
<1> USE DEF serviceVars, workVars, outVars, SyncFlags
<1>1. CASE BeforeStarts
  BY <1>1, Zenon DEF BeforeStarts
<1>2. CASE MakeDir
  BY <1>2, Zenon DEF MakeDir
<1>3. CASE WaitForApi
  BY <1>3, Zenon DEF WaitForApi
<1>4. CASE SendOptions
  BY <1>4, Zenon DEF SendOptions
<1>5. CASE ReadFolders
  BY <1>5, Zenon DEF ReadFolders
<1>6. CASE ReadDevices
  BY <1>6, Zenon DEF ReadDevices
<1>7. CASE SendDevice
  BY <1>7, Zenon DEF SendDevice
<1>8. CASE SendFolder
  BY <1>8, Zenon DEF SendFolder
<1>9. CASE RereadDevices
  BY <1>9, Zenon DEF RereadDevices
<1>10. CASE Verify
  BY <1>10, Zenon DEF Verify
<1>11. CASE CallFails
  BY <1>11, Zenon DEF CallFails
<1>12. CASE ComposeUp
  BY <1>12, Zenon DEF ComposeUp
<1>13. CASE ApiComesUp
  BY <1>13, Zenon DEF ApiComesUp
<1>14. CASE DeployedAgain
  BY <1>14, Zenon DEF DeployedAgain
<1>15. CASE Gui
  BY <1>15, Zenon DEF Gui
<1>16. CASE UNCHANGED syncVars
  BY <1>16 DEF syncVars
<1> QED
  BY <1>1, <1>2, <1>3, <1>4, <1>5, <1>6, <1>7, <1>8, <1>9, <1>10, <1>11,
       <1>12, <1>13, <1>14, <1>15, <1>16 DEF SyncNext, HookSteps

(* What Syncthing keeps, and what is read of it, keeps its type.           *)
LEMMA SyncKept == SyncSets /\ KeptTypes /\ [SyncNext]_syncVars => KeptTypes'
<1> SUFFICES ASSUME SyncSets, KeptTypes, [SyncNext]_syncVars
             PROVE  KeptTypes'
  OBVIOUS
<1> USE DEF serviceVars, workVars, outVars, KeptTypes, KeptDevices,
      KeptFolders, SyncSets
<1>1. CASE BeforeStarts
  BY <1>1 DEF BeforeStarts
<1>2. CASE MakeDir
  BY <1>2 DEF MakeDir
<1>3. CASE WaitForApi
  BY <1>3 DEF WaitForApi
<1>4. CASE SendOptions
  BY <1>4 DEF SendOptions
<1>5. CASE ReadFolders
  BY <1>5 DEF ReadFolders
<1>6. CASE ReadDevices
  BY <1>6 DEF ReadDevices
<1>7. CASE SendDevice
  <2>1. PICK n \in entriesLeft :
          device' = IF DesiredDevice(n, seen.device[IdOf(file, n)])
                         = seen.device[IdOf(file, n)] THEN device
                    ELSE [device EXCEPT ![IdOf(file, n)] =
                            DesiredDevice(n, seen.device[IdOf(file, n)])]
    BY <1>7 DEF SendDevice
  <2>2. CASE IdOf(file, n) \in Ids
    <3>1. DesiredDevice(n, seen.device[IdOf(file, n)])
            \in [by : By, extra : Rest]
      BY <2>2, WantedTypes
    <3> QED
      BY <1>7, <2>1, <2>2, <3>1 DEF SendDevice
  <2>3. CASE IdOf(file, n) \notin Ids
    <3>1. device' = device
      BY <2>1, <2>3
    <3> QED
      BY <1>7, <3>1 DEF SendDevice
  <2> QED
    BY <2>2, <2>3
<1>8. CASE SendFolder
  <2>1. UNCHANGED <<device, seen>>
    BY <1>8 DEF SendFolder
  <2>2. CASE UNCHANGED folder
    BY <2>1, <2>2
  <2>3. CASE ~UNCHANGED folder
    <3>1. PICK f \in foldersLeft :
        folder' = [folder EXCEPT ![f] = DesiredFolder(file, f, seen.folder[f])]
      BY <1>8, <2>3 DEF SendFolder
    <3>2. DesiredFolder(file, f, seen.folder[f])
            \in [by : By, extra : Rest, shares : Shares]
      BY WantedTypes
    <3> QED
      BY <2>1, <3>1, <3>2
  <2> QED
    BY <2>2, <2>3
<1>9. CASE RereadDevices
  BY <1>9 DEF RereadDevices
<1>10. CASE Verify
  BY <1>10 DEF Verify
<1>11. CASE CallFails
  BY <1>11 DEF CallFails
<1>12. CASE ComposeUp
  BY <1>12 DEF ComposeUp
<1>13. CASE ApiComesUp
  BY <1>13 DEF ApiComesUp
<1>14. CASE DeployedAgain
  BY <1>14 DEF DeployedAgain
<1>15. CASE Gui
  <2>1. seen' = seen
    BY <1>15 DEF Gui
  <2>2. CASE UNCHANGED folder
    <3>1. CASE UNCHANGED device
      BY <2>1, <2>2, <3>1
    <3>2. CASE ~UNCHANGED device
      <4>1. PICK i \in Ids : device' = [device EXCEPT ![i] =
                                          [by |-> "gui", extra |-> "changed"]]
        BY <1>15, <3>2 DEF Gui
      <4> QED
        BY <2>1, <2>2, <4>1 DEF By, Rest
    <3> QED
      BY <3>1, <3>2
  <2>3. CASE ~UNCHANGED folder
    <3>1. PICK f \in FolderIds, i \in Ids, p \in {"none", "secret"} :
            folder' = [folder EXCEPT ![f] =
              [by |-> "gui", extra |-> "changed",
               shares |-> [@.shares EXCEPT ![i] = p]]]
      BY <1>15, <2>3 DEF Gui
    <3>2. device' = device
      BY <1>15, <2>3 DEF Gui
    <3>3. [folder[f].shares EXCEPT ![i] = p] \in Shares
      BY DEF Shares
    <3>4. [by |-> "gui", extra |-> "changed",
           shares |-> [folder[f].shares EXCEPT ![i] = p]]
            \in [by : By, extra : Rest, shares : Shares]
      BY <3>3 DEF By, Rest
    <3> QED
      BY <2>1, <3>1, <3>2, <3>4
  <2> QED
    BY <2>2, <2>3
<1>16. CASE UNCHANGED syncVars
  BY <1>16 DEF syncVars
<1> QED
  BY <1>1, <1>2, <1>3, <1>4, <1>5, <1>6, <1>7, <1>8, <1>9, <1>10, <1>11,
       <1>12, <1>13, <1>14, <1>15, <1>16 DEF SyncNext, HookSteps

(* What is no longer to be made is there.                                  *)
LEMMA SyncMakes == SyncInv /\ [SyncNext]_syncVars => MadeSoFar'
<1> SUFFICES ASSUME SyncInv, [SyncNext]_syncVars
             PROVE  MadeSoFar'
  OBVIOUS
<1> USE DEF serviceVars, workVars, outVars, SyncInv, MadeSoFar, HostTypes,
      SyncSets, SyncRunning
<1>1. CASE BeforeStarts
  <2>1. syncAt' = "dirs" /\ file' # NoFile =>
          /\ makeDirs' = HostPaths(file') /\ file' \in Files
          /\ Valid(file') /\ Resolved(file')
    BY <1>1 DEF BeforeStarts
  <2> QED
    BY <2>1, SyncConstants DEF SyncConstants
<1>2. CASE MakeDir
  <2> SUFFICES ASSUME syncAt' = "dirs", file' # NoFile
               PROVE  /\ HostPaths(file') \subseteq HostDirs
                      /\ \A p \in HostPaths(file') \ makeDirs' :
                           hostDir'[p] = "dir"
    OBVIOUS
  <2>1. /\ syncAt = "dirs" /\ file' = file
        /\ \E d \in makeDirs :
             /\ hostDir' = [q \in HostDirs |-> IF IsPrefix(q, d) THEN "dir"
                                               ELSE hostDir[q]]
             /\ makeDirs' = makeDirs \ {d}
    BY <1>2 DEF MakeDir
  <2>2. PICK d \in makeDirs :
             /\ hostDir' = [q \in HostDirs |-> IF IsPrefix(q, d) THEN "dir"
                                               ELSE hostDir[q]]
             /\ makeDirs' = makeDirs \ {d}
    BY <2>1
  <2>3. HostPaths(file') \subseteq HostDirs
    BY <2>1
  <2>4. ASSUME NEW p \in HostPaths(file') \ makeDirs'
        PROVE  hostDir'[p] = "dir"
    <3>1. p \in HostDirs
      BY <2>3
    <3>2. CASE p = d
      <4>1. IsPrefix(p, d)
        BY <3>1, <3>2, HostPrefix
      <4> QED
        BY <2>2, <3>1, <4>1
    <3>3. CASE p # d
      <4>1. p \in HostPaths(file) \ makeDirs
        BY <2>1, <2>2, <3>3
      <4> QED
        BY <2>1, <2>2, <3>1, <4>1
    <3> QED
      BY <3>2, <3>3
  <2> QED
    BY <2>3, <2>4
<1>3. CASE WaitForApi
  BY <1>3 DEF WaitForApi
<1>4. CASE SendOptions
  BY <1>4 DEF SendOptions
<1>5. CASE ReadFolders
  BY <1>5 DEF ReadFolders
<1>6. CASE ReadDevices
  BY <1>6 DEF ReadDevices
<1>7. CASE SendDevice
  BY <1>7 DEF SendDevice
<1>8. CASE SendFolder
  BY <1>8 DEF SendFolder
<1>9. CASE RereadDevices
  BY <1>9 DEF RereadDevices
<1>10. CASE Verify
  BY <1>10 DEF Verify
<1>11. CASE CallFails
  BY <1>11 DEF CallFails
<1>12. CASE ComposeUp
  BY <1>12 DEF ComposeUp
<1>13. CASE ApiComesUp
  BY <1>13 DEF ApiComesUp
<1>14. CASE DeployedAgain
  BY <1>14 DEF DeployedAgain
<1>15. CASE Gui
  BY <1>15 DEF Gui
<1>16. CASE UNCHANGED syncVars
  BY <1>16 DEF syncVars
<1> QED
  BY <1>1, <1>2, <1>3, <1>4, <1>5, <1>6, <1>7, <1>8, <1>9, <1>10, <1>11,
       <1>12, <1>13, <1>14, <1>15, <1>16 DEF SyncNext, HookSteps

(* The run goes on with all of them.                                       *)
LEMMA SyncMounts == SyncInv /\ [SyncNext]_syncVars => MountsExist'
<1> SUFFICES ASSUME SyncInv, [SyncNext]_syncVars
             PROVE  MountsExist'
  OBVIOUS
<1> USE DEF serviceVars, workVars, outVars, SyncInv, MountsExist, MadeSoFar,
      SyncSets, SyncRunning
<1>1. CASE BeforeStarts
  BY <1>1 DEF BeforeStarts
<1>2. CASE MakeDir
  BY <1>2 DEF MakeDir
<1>3. CASE WaitForApi
  BY <1>3 DEF WaitForApi
<1>4. CASE SendOptions
  BY <1>4 DEF SendOptions
<1>5. CASE ReadFolders
  BY <1>5 DEF ReadFolders
<1>6. CASE ReadDevices
  BY <1>6 DEF ReadDevices
<1>7. CASE SendDevice
  BY <1>7 DEF SendDevice
<1>8. CASE SendFolder
  BY <1>8 DEF SendFolder
<1>9. CASE RereadDevices
  BY <1>9 DEF RereadDevices
<1>10. CASE Verify
  BY <1>10 DEF Verify
<1>11. CASE CallFails
  BY <1>11 DEF CallFails
<1>12. CASE ComposeUp
  BY <1>12 DEF ComposeUp
<1>13. CASE ApiComesUp
  BY <1>13 DEF ApiComesUp
<1>14. CASE DeployedAgain
  BY <1>14 DEF DeployedAgain
<1>15. CASE Gui
  BY <1>15 DEF Gui
<1>16. CASE UNCHANGED syncVars
  BY <1>16 DEF syncVars
<1> QED
  BY <1>1, <1>2, <1>3, <1>4, <1>5, <1>6, <1>7, <1>8, <1>9, <1>10, <1>11,
       <1>12, <1>13, <1>14, <1>15, <1>16 DEF SyncNext, HookSteps

(* What is still to send is of the file.                                   *)
LEMMA SyncLefts == SyncInv /\ [SyncNext]_syncVars => LeftOfFile'
<1> SUFFICES ASSUME SyncInv, [SyncNext]_syncVars
             PROVE  LeftOfFile'
  OBVIOUS
<1> USE DEF serviceVars, workVars, outVars, SyncInv, LeftOfFile, SyncSets,
      SyncRunning
<1>1. CASE BeforeStarts
  BY <1>1 DEF BeforeStarts
<1>2. CASE MakeDir
  BY <1>2 DEF MakeDir
<1>3. CASE WaitForApi
  BY <1>3 DEF WaitForApi
<1>4. CASE SendOptions
  BY <1>4 DEF SendOptions
<1>5. CASE ReadFolders
  BY <1>5 DEF ReadFolders
<1>6. CASE ReadDevices
  BY <1>6 DEF ReadDevices
<1>7. CASE SendDevice
  BY <1>7 DEF SendDevice
<1>8. CASE SendFolder
  BY <1>8 DEF SendFolder
<1>9. CASE RereadDevices
  BY <1>9 DEF RereadDevices
<1>10. CASE Verify
  BY <1>10 DEF Verify
<1>11. CASE CallFails
  BY <1>11 DEF CallFails
<1>12. CASE ComposeUp
  BY <1>12 DEF ComposeUp
<1>13. CASE ApiComesUp
  BY <1>13 DEF ApiComesUp
<1>14. CASE DeployedAgain
  BY <1>14 DEF DeployedAgain
<1>15. CASE Gui
  BY <1>15 DEF Gui
<1>16. CASE UNCHANGED syncVars
  BY <1>16 DEF syncVars
<1> QED
  BY <1>1, <1>2, <1>3, <1>4, <1>5, <1>6, <1>7, <1>8, <1>9, <1>10, <1>11,
       <1>12, <1>13, <1>14, <1>15, <1>16 DEF SyncNext, HookSteps

(* What has been read is there until it is sent.                           *)
LEMMA SyncSeen == SyncInv /\ [SyncNext]_syncVars => SeenIsThere'
<1> SUFFICES ASSUME SyncInv, [SyncNext]_syncVars
             PROVE  SeenIsThere'
  OBVIOUS
<1> USE DEF serviceVars, workVars, outVars, SyncInv, SeenIsThere, KeptTypes,
      KeptDevices, KeptFolders
<1>1. CASE BeforeStarts
  BY <1>1 DEF BeforeStarts
<1>2. CASE MakeDir
  BY <1>2 DEF MakeDir
<1>3. CASE WaitForApi
  BY <1>3 DEF WaitForApi
<1>4. CASE SendOptions
  BY <1>4 DEF SendOptions
<1>5. CASE ReadFolders
  BY <1>5 DEF ReadFolders
<1>6. CASE ReadDevices
  BY <1>6 DEF ReadDevices
<1>7. CASE SendDevice
  <2>1. /\ syncAt = "devices" /\ syncAt' \in {"devices", "folders"}
        /\ UNCHANGED <<folder, foldersLeft, seen, meddled>>
    BY <1>7 DEF SendDevice
  <2>2. PICK n \in entriesLeft :
          device' = IF DesiredDevice(n, seen.device[IdOf(file, n)])
                         = seen.device[IdOf(file, n)] THEN device
                    ELSE [device EXCEPT ![IdOf(file, n)] =
                            DesiredDevice(n, seen.device[IdOf(file, n)])]
    BY <1>7 DEF SendDevice
  <2>3. n \in Names /\ IdOf(file, n) \in Ids
    <3>1. n \in EntryNames(file) /\ file \in Files \cup {NoFile}
      BY <2>1 DEF LeftOfFile, SyncSets
    <3> QED
      BY <3>1, FileNames
  <2>4. DesiredDevice(n, seen.device[IdOf(file, n)]).extra =
          seen.device[IdOf(file, n)].extra
    BY <2>3, WantedTypes
  <2>5. ASSUME ~meddled, NEW i \in Ids
        PROVE  seen.device[i].extra = device'[i].extra
    BY <2>1, <2>2, <2>3, <2>4, <2>5
  <2> QED
    BY <2>1, <2>5
<1>8. CASE SendFolder
  <2>1. /\ syncAt = "folders" /\ UNCHANGED <<device, seen, meddled>>
        /\ syncAt' \in {"folders", "reread"}
    BY <1>8 DEF SendFolder
  <2>2. CASE UNCHANGED <<folder, foldersLeft>>
    BY <2>1, <2>2
  <2>3. CASE ~UNCHANGED <<folder, foldersLeft>>
    <3>1. PICK f \in foldersLeft :
            /\ foldersLeft' = foldersLeft \ {f}
            /\ folder' = IF DesiredFolder(file, f, seen.folder[f])
                               = seen.folder[f] THEN folder
                         ELSE [folder EXCEPT ![f] =
                                 DesiredFolder(file, f, seen.folder[f])]
      BY <1>8, <2>3 DEF SendFolder
    <3>2. \A d \in foldersLeft' : folder'[d] = folder[d]
      BY <3>1
    <3> QED
      BY <2>1, <3>1, <3>2
  <2> QED
    BY <2>2, <2>3
<1>9. CASE RereadDevices
  BY <1>9 DEF RereadDevices
<1>10. CASE Verify
  BY <1>10 DEF Verify
<1>11. CASE CallFails
  BY <1>11 DEF CallFails
<1>12. CASE ComposeUp
  BY <1>12 DEF ComposeUp
<1>13. CASE ApiComesUp
  BY <1>13 DEF ApiComesUp
<1>14. CASE DeployedAgain
  BY <1>14 DEF DeployedAgain
<1>15. CASE Gui
  BY <1>15 DEF Gui
<1>16. CASE UNCHANGED syncVars
  BY <1>16 DEF syncVars
<1> QED
  BY <1>1, <1>2, <1>3, <1>4, <1>5, <1>6, <1>7, <1>8, <1>9, <1>10, <1>11,
       <1>12, <1>13, <1>14, <1>15, <1>16 DEF SyncNext, HookSteps

(* The parts of the types are the types.                                   *)
LEMMA SyncParts == SyncInv => SyncTypeOK
BY Zenon DEF SyncInv, SyncTypeOK, SyncSets, HostTypes, KeptTypes, SyncFlags

(* Before the first deploy Syncthing knows itself and nothing else.        *)
LEMMA SyncBegins == SyncInit => SyncInv
<1> SUFFICES ASSUME SyncInit PROVE SyncInv
  OBVIOUS
<1>1. SyncFlags
  BY Zenon DEF SyncInit, SyncFlags
<1>2. SyncSets
  BY SyncConstants DEF SyncInit, SyncSets, SyncConstants
<1>3. HostTypes
  BY DEF SyncInit, HostTypes
<1>4. KeptTypes
  <2>1. device \in KeptDevices
    BY DEF SyncInit, KeptDevices, Unset, By, Rest
  <2>2. NoShares \in Shares
    BY DEF NoShares, Shares
  <2>3. folder \in KeptFolders
    BY <2>2 DEF SyncInit, KeptFolders, NoFolder, By, Rest
  <2>4. seen = [device |-> device, folder |-> folder]
    BY DEF SyncInit
  <2> QED
    BY <2>1, <2>3, <2>4 DEF KeptTypes
<1>5. MadeSoFar /\ MountsExist /\ LeftOfFile /\ SeenIsThere
  BY DEF SyncInit, MadeSoFar, MountsExist, LeftOfFile, SeenIsThere,
         SyncRunning
<1> QED
  BY <1>1, <1>2, <1>3, <1>4, <1>5 DEF SyncInv

(* The conjuncts of the invariant, one step further.                       *)
LEMMA SyncStepInv == SyncInv /\ [SyncNext]_syncVars => SyncInv'
BY SyncCounts, SyncHosts, SyncTruths, SyncKept, SyncMakes, SyncMounts,
   SyncLefts, SyncSeen DEF SyncInv

(* Whatever was in the file's way on the host: no container starts before  *)
(* every folder it mounts is there.                                        *)
THEOREM FoldersBeforeMounts ==
  SyncInit /\ [][SyncNext]_syncVars => [](MountsExist /\ SyncTypeOK)
<1>1. SyncInv => MountsExist /\ SyncTypeOK
  BY SyncParts DEF SyncInv
<1> QED
  BY <1>1, SyncBegins, SyncStepInv, PTL

(* What the promise sees of Syncthing.                                     *)
HooksSee == <<SyncLive, SyncWanted, SyncPhase>>

(* The settings there are, and what Syncthing has of each.                 *)
LEMMA SettingsAre ==
  \A s \in SyncSettings :
    \/ s[1] \in {"device", "deviceRest"} /\ s[2] \in Ids
    \/ s[1] \in {"folder", "folderRest"} /\ s[2] \in FolderIds
    \/ s[1] = "share" /\ s[2][1] \in FolderIds /\ s[2][2] \in Ids
BY DEF SyncSettings

(* Before a step and after it.                                             *)
LEMMA LiveIs ==
  \A s \in SyncSettings :
    /\ s[1] = "device" => /\ SyncLive[s] = device[s[2]].by
                          /\ SyncLive'[s] = device'[s[2]].by
    /\ s[1] = "deviceRest" => /\ SyncLive[s] = device[s[2]].extra
                              /\ SyncLive'[s] = device'[s[2]].extra
    /\ s[1] = "folder" => /\ SyncLive[s] = folder[s[2]].by
                          /\ SyncLive'[s] = folder'[s[2]].by
    /\ s[1] = "folderRest" => /\ SyncLive[s] = folder[s[2]].extra
                              /\ SyncLive'[s] = folder'[s[2]].extra
    /\ s[1] = "share" =>
         /\ SyncLive[s] = folder[s[2][1]].shares[s[2][2]]
         /\ SyncLive'[s] = folder'[s[2][1]].shares[s[2][2]]
BY SettingsAre DEF SyncLive

(* The value of a setting is one it can have.                              *)
LEMMA LiveTypes ==
  KeptTypes => \A s \in SyncSettings : SyncLive[s] \in SyncValues[s]
<1> SUFFICES ASSUME KeptTypes, NEW s \in SyncSettings
             PROVE  SyncLive[s] \in SyncValues[s]
  OBVIOUS
<1> USE DEF KeptTypes, KeptDevices, KeptFolders, SyncValues
<1>1. CASE s[1] \in {"device", "deviceRest"}
  BY <1>1, SettingsAre, LiveIs
<1>2. CASE s[1] \in {"folder", "folderRest"}
  BY <1>2, SettingsAre, LiveIs
<1>3. CASE s[1] = "share"
  BY <1>3, SettingsAre, LiveIs DEF Shares
<1> QED
  BY <1>1, <1>2, <1>3, SettingsAre

(* Between the steps of a run that has not been disturbed, settings stay   *)
(* or take a value that is asked for.                                      *)
LEMMA SyncGoesOn ==
  ASSUME syncAt \in SyncRunning, syncAt' \in SyncRunning \cup {"failed"},
         ~meddled, ~meddled', SyncWanted' = SyncWanted,
         \A s \in SyncSettings : SyncLive'[s] # SyncLive[s] =>
           SyncWanted[s] # SyncValues[s] /\ SyncLive'[s] \in SyncWanted[s]
  PROVE  Promise!Moves
<1>1. SyncPhase = "running" /\ SyncPhase' \in {"running", "failed"}
  BY DEF SyncPhase, SyncRunning
<1> QED
  BY <1>1 DEF Promise!Moves

(* What does not touch Syncthing does not touch a setting.                 *)
LEMMA SyncStands ==
  UNCHANGED <<file, device, folder>> =>
    SyncLive' = SyncLive /\ SyncWanted' = SyncWanted
BY DEF SyncLive, SyncWanted, Named

(* A device that is sent is the one that was asked for, and nothing of it  *)
(* changes that the file does not declare.                                 *)
LEMMA DevicePromised ==
  SyncInv /\ SendDevice /\ ~meddled => Promise!Moves
<1> SUFFICES ASSUME SyncInv, SendDevice, ~meddled PROVE Promise!Moves
  OBVIOUS
<1>1. /\ syncAt = "devices" /\ syncAt' \in {"devices", "folders"}
      /\ UNCHANGED <<file, folder, seen, meddled>>
  BY DEF SendDevice, outVars
<1>2. PICK n \in entriesLeft :
        device' = IF DesiredDevice(n, seen.device[IdOf(file, n)])
                       = seen.device[IdOf(file, n)] THEN device
                  ELSE [device EXCEPT ![IdOf(file, n)] =
                          DesiredDevice(n, seen.device[IdOf(file, n)])]
  BY DEF SendDevice
<1>3. n \in Names /\ n \in EntryNames(file) /\ IdOf(file, n) \in Ids
  <2>1. n \in EntryNames(file) /\ file \in Files \cup {NoFile}
    BY <1>1 DEF SyncInv, LeftOfFile, SyncSets
  <2> QED
    BY <2>1, FileNames
<1>4. /\ device \in KeptDevices /\ seen.device \in KeptDevices
      /\ \A i \in Ids : seen.device[i].extra = device[i].extra
  BY <1>1 DEF SyncInv, KeptTypes, SeenIsThere
<1>5. /\ DesiredDevice(n, seen.device[IdOf(file, n)]).by = n
      /\ DesiredDevice(n, seen.device[IdOf(file, n)]).extra
           = seen.device[IdOf(file, n)].extra
  BY <1>3, <1>4, WantedTypes DEF KeptDevices
<1>6. \A i \in Ids : /\ device'[i].extra = device[i].extra
                     /\ device'[i].by # device[i].by =>
                          i = IdOf(file, n) /\ device'[i].by = n
  BY <1>2, <1>3, <1>4, <1>5 DEF KeptDevices
<1>7. SyncWanted' = SyncWanted
  <2>1. \A s \in SyncSettings : s[1] = "share" => SyncLive'[s] = SyncLive[s]
    BY <1>1, LiveIs
  <2>2. \A i : Named(i)' = Named(i)
    BY <1>1 DEF Named
  <2> QED
    BY <1>1, <2>1, <2>2 DEF SyncWanted
<1>8. ASSUME NEW s \in SyncSettings, SyncLive'[s] # SyncLive[s]
      PROVE  SyncWanted[s] # SyncValues[s] /\ SyncLive'[s] \in SyncWanted[s]
  <2>1. s[1] = "device" /\ s[2] \in Ids
    BY <1>1, <1>6, <1>8, LiveIs, SettingsAre
  <2>2. s[2] = IdOf(file, n) /\ SyncLive'[s] = n
    BY <1>6, <1>8, <2>1, LiveIs
  <2>3. n \in Named(s[2])
    BY <1>3, <2>2 DEF Named
  <2>4. SyncWanted[s] = Named(s[2]) /\ SyncValues[s] = By
    BY <2>1, <2>3 DEF SyncWanted, SyncValues
  <2>5. Named(s[2]) \subseteq Names
    <3>1. file \in Files \cup {NoFile}
      BY DEF SyncInv, SyncSets
    <3> QED
      BY <3>1, FileNames DEF Named
  <2>6. "gui" \in By /\ "gui" \notin Names
    BY SyncConstants DEF By, SyncConstants
  <2> QED
    BY <2>2, <2>3, <2>4, <2>5, <2>6
<1> QED
  BY <1>1, <1>7, <1>8, SyncGoesOn DEF SyncRunning

(* A folder that is sent is as the file has it, and every password of a    *)
(* share the file keeps stays.                                             *)
LEMMA FolderPromised ==
  SyncInv /\ SendFolder /\ ~meddled => Promise!Moves
<1> SUFFICES ASSUME SyncInv, SendFolder, ~meddled PROVE Promise!Moves
  OBVIOUS
<1>1. /\ syncAt = "folders" /\ syncAt' \in {"folders", "reread"}
      /\ UNCHANGED <<file, device, seen, meddled>>
  BY DEF SendFolder, outVars
<1>2. CASE UNCHANGED folder
  BY <1>1, <1>2, SyncStands, SyncGoesOn DEF SyncRunning
<1>3. CASE ~UNCHANGED folder
  <2>1. PICK f \in foldersLeft :
          folder' = [folder EXCEPT ![f] =
                       DesiredFolder(file, f, seen.folder[f])]
    BY <1>3 DEF SendFolder
  <2>2. f \in FolderIds /\ f \in FileFolders(file)
    BY <1>1 DEF SyncInv, LeftOfFile, SyncSets
  <2>3. folder \in KeptFolders /\ seen.folder[f] = folder[f]
    BY <1>1 DEF SyncInv, KeptTypes, SeenIsThere
  <2>4. folder[f] \in [by : By, extra : Rest, shares : Shares]
    BY <2>2, <2>3 DEF KeptFolders
  <2>5. /\ folder'[f].by = f /\ folder'[f].extra = folder[f].extra
        /\ folder'[f].shares =
             [i \in Ids |-> IF i \notin SharesOf(file, f) THEN "none"
                            ELSE IF folder[f].shares[i] = "none" THEN "open"
                            ELSE folder[f].shares[i]]
        /\ \A g \in FolderIds \ {f} : folder'[g] = folder[g]
    BY <2>1, <2>2, <2>3, <2>4, WantedTypes DEF KeptFolders
  <2>6. ASSUME NEW s \in SyncSettings PROVE SyncWanted'[s] = SyncWanted[s]
    <3>1. CASE s[1] # "share"
      BY <1>1, <3>1 DEF SyncWanted, Named
    <3>2. CASE s[1] = "share" /\ s[2][1] # f
      <4>1. SyncLive'[s] = SyncLive[s]
        BY <2>5, <3>2, LiveIs, SettingsAre
      <4> QED
        BY <1>1, <3>2, <4>1 DEF SyncWanted
    <3>3. CASE s[1] = "share" /\ s[2][1] = f
      <4>1. s[2][2] \in SharesOf(file, f) =>
              IF SyncLive[s] = "none" THEN SyncLive'[s] = "open"
              ELSE SyncLive'[s] = SyncLive[s]
        BY <2>5, <3>3, LiveIs, SettingsAre
      <4> QED
        BY <1>1, <2>2, <3>3, <4>1 DEF SyncWanted
    <3> QED
      BY <3>1, <3>2, <3>3
  <2>7. SyncWanted' = SyncWanted
    BY <2>6 DEF SyncWanted
  <2>8. ASSUME NEW s \in SyncSettings, SyncLive'[s] # SyncLive[s]
        PROVE  SyncWanted[s] # SyncValues[s] /\ SyncLive'[s] \in SyncWanted[s]
    <3>1. CASE s[1] = "share"
      <4>1. s[2][1] = f
        BY <2>5, <2>8, <3>1, LiveIs, SettingsAre
      <4>2. IF s[2][2] \notin SharesOf(file, f)
              THEN SyncWanted[s] = {"none"} /\ SyncLive'[s] = "none"
              ELSE SyncWanted[s] = {"open"} /\ SyncLive'[s] = "open"
        BY <2>2, <2>5, <2>8, <3>1, <4>1, LiveIs, SettingsAre DEF SyncWanted
      <4>3. SyncValues[s] = {"none", "open", "secret"}
        BY <3>1 DEF SyncValues
      <4> QED
        BY <4>2, <4>3
    <3>2. CASE s[1] # "share"
      <4>1. s[1] = "folder" /\ s[2] = f /\ SyncLive'[s] = f
        BY <1>1, <2>5, <2>8, <3>2, LiveIs, SettingsAre
      <4>2. SyncWanted[s] = {f} /\ SyncValues[s] = By
        BY <2>2, <4>1 DEF SyncWanted, SyncValues
      <4>3. By # {f}
        BY DEF By
      <4> QED
        BY <4>1, <4>2, <4>3
    <3> QED
      BY <3>1, <3>2
  <2> QED
    BY <1>1, <2>7, <2>8, SyncGoesOn DEF SyncRunning
<1> QED
  BY <1>2, <1>3

(* A run ends well only where there is nothing left to ask for.            *)
LEMMA VerifyPromised ==
  SyncInv /\ Verify /\ ~meddled => Promise!Succeeds \/ Promise!Moves
<1> SUFFICES ASSUME SyncInv, Verify, ~meddled
             PROVE  Promise!Succeeds \/ Promise!Moves
  OBVIOUS
<1>1. /\ syncAt = "verify" /\ UNCHANGED <<file, device, folder, meddled>>
      /\ syncAt' = IF Drifted(file, seen.device, folder) THEN "failed"
                   ELSE "ok"
  BY DEF Verify, serviceVars, outVars
<1>2. CASE syncAt' = "failed"
  BY <1>1, <1>2, SyncStands, SyncGoesOn DEF SyncRunning
<1>3. CASE syncAt' # "failed"
  <2>1. syncAt' = "ok" /\ ~Drifted(file, device, folder)
    BY <1>1, <1>3 DEF SyncInv, SeenIsThere
  <2>2. SyncPhase = "running" /\ SyncPhase' = "ok"
    BY <1>1, <2>1 DEF SyncPhase, SyncRunning
  <2>3. SyncLive' = SyncLive /\ SyncWanted' = SyncWanted
    BY <1>1, SyncStands
  <2>4. ASSUME NEW s \in SyncSettings PROVE SyncLive[s] \in SyncWanted[s]
    <3>1. CASE SyncWanted[s] = SyncValues[s]
      BY <3>1, LiveTypes DEF SyncInv
    <3>2. CASE s[1] = "device" /\ Named(s[2]) # {}
      <4>1. PICK n \in EntryNames(file) : IdOf(file, n) = s[2]
        BY <3>2 DEF Named
      <4>2. device[s[2]].by = n
        BY <2>1, <4>1 DEF Drifted
      <4>3. n \in Named(s[2]) /\ SyncWanted[s] = Named(s[2])
        BY <3>2, <4>1 DEF Named, SyncWanted
      <4> QED
        BY <3>2, <4>2, <4>3, LiveIs
    <3>3. ASSUME NEW f \in FileFolders(file)
          PROVE  /\ folder[f].by = f
                 /\ \A i \in Ids : IF i \notin SharesOf(file, f)
                                    THEN folder[f].shares[i] = "none"
                                    ELSE folder[f].shares[i] # "none"
      <4>1. f \in FolderIds
        <5>1. file \in Files \cup {NoFile}
          BY DEF SyncInv, SyncSets
        <5> QED
          BY <5>1, FileNames
      <4>2. folder[f] \in [by : By, extra : Rest, shares : Shares]
        BY <4>1 DEF SyncInv, KeptTypes, KeptFolders
      <4>3. DesiredFolder(file, f, folder[f]) = folder[f]
        BY <2>1 DEF Drifted
      <4>4. /\ folder[f].by = f
            /\ folder[f].shares =
                 [i \in Ids |->
                    IF i \notin SharesOf(file, f) THEN "none"
                    ELSE IF folder[f].shares[i] = "none" THEN "open"
                    ELSE folder[f].shares[i]]
        BY <4>1, <4>2, <4>3, WantedTypes
      <4> QED
        BY <4>4
    <3>4. CASE s[1] = "folder" /\ s[2] \in FileFolders(file)
      BY <3>3, <3>4, LiveIs DEF SyncWanted
    <3>5. CASE s[1] = "share" /\ s[2][1] \in FileFolders(file)
      <4>1. s[2][2] \in Ids /\ SyncLive[s] = folder[s[2][1]].shares[s[2][2]]
        BY <3>5, LiveIs, SettingsAre
      <4> QED
        BY <3>3, <3>5, <4>1 DEF SyncWanted
    <3> QED
      BY <3>1, <3>2, <3>4, <3>5 DEF SyncWanted
  <2> QED
    BY <2>2, <2>3, <2>4 DEF Promise!Succeeds, Promise!Holds
<1> QED
  BY <1>2, <1>3

(* A server without the file has nothing asked of it.                      *)
LEMMA OptionsPromised ==
  SyncInv /\ SendOptions /\ ~meddled => Promise!Succeeds \/ Promise!Moves
<1> SUFFICES ASSUME SyncInv, SendOptions, ~meddled
             PROVE  Promise!Succeeds \/ Promise!Moves
  OBVIOUS
<1>1. /\ syncAt = "options" /\ UNCHANGED <<file, device, folder, meddled>>
      /\ syncAt' = IF file = NoFile THEN "ok" ELSE "readFolders"
  BY DEF SendOptions, serviceVars, outVars
<1>2. CASE file # NoFile
  BY <1>1, <1>2, SyncStands, SyncGoesOn DEF SyncRunning
<1>3. CASE file = NoFile
  <2>1. SyncPhase = "running" /\ SyncPhase' = "ok"
    BY <1>1, <1>3 DEF SyncPhase, SyncRunning
  <2>2. EntryNames(file) = {} /\ FileFolders(file) = {}
    BY <1>3 DEF NoFile, EntryNames, FileFolders
  <2>3. \A s \in SyncSettings : SyncWanted[s] = SyncValues[s]
    BY <2>2 DEF SyncWanted, Named
  <2>4. \A s \in SyncSettings : SyncLive[s] \in SyncWanted[s]
    BY <2>3, LiveTypes DEF SyncInv
  <2>5. SyncLive' = SyncLive /\ SyncWanted' = SyncWanted
    BY <1>1, SyncStands
  <2> QED
    BY <2>1, <2>4, <2>5 DEF Promise!Succeeds, Promise!Holds
<1> QED
  BY <1>2, <1>3

(* Every step of the hooks is one of the promise, or none it sees.         *)
LEMMA SyncPromiseStep ==
  SyncInv /\ [SyncNext]_syncVars => [Promise!Next]_HooksSee
<1> SUFFICES ASSUME SyncInv, [SyncNext]_syncVars
             PROVE  Promise!Next \/ UNCHANGED HooksSee
  BY DEF HooksSee
<1> USE DEF Promise!Next, serviceVars, workVars, outVars
<1>1. CASE BeforeStarts
  <2>1. SyncPhase # "running" /\ SyncPhase' # "ok"
    BY <1>1 DEF BeforeStarts, SyncPhase, SyncRunning
  <2> QED
    BY <2>1 DEF Promise!Elsewhere
<1>2. CASE Gui
  <2>1. SyncPhase' = "idle"
    BY <1>2 DEF Gui, SyncPhase
  <2> QED
    BY <2>1 DEF Promise!Elsewhere
<1>3. CASE DeployedAgain
  <2>1. SyncPhase # "running" /\ SyncPhase' = "idle"
    BY <1>3 DEF DeployedAgain, SyncPhase, SyncRunning
  <2> QED
    BY <2>1 DEF Promise!Elsewhere
<1>4. CASE ApiComesUp
  <2>1. UNCHANGED <<file, device, folder, syncAt, meddled>>
    BY <1>4 DEF ApiComesUp
  <2> QED
    BY <2>1, SyncStands DEF HooksSee, SyncPhase
<1>5. CASE (HookSteps \/ ComposeUp) /\ meddled
  <2>1. meddled'
    BY <1>5 DEF HookSteps, ComposeUp, MakeDir, WaitForApi, SendOptions,
                ReadFolders, ReadDevices, SendDevice, SendFolder,
                RereadDevices, Verify, CallFails
  <2>2. SyncPhase = "idle" /\ SyncPhase' = "idle"
    BY <1>5, <2>1 DEF SyncPhase
  <2> QED
    BY <2>2 DEF Promise!Elsewhere
<1>6. CASE (HookSteps \/ ComposeUp) /\ ~meddled
  <2>1. CASE SendDevice \/ SendFolder \/ Verify \/ SendOptions
    BY <1>6, <2>1, DevicePromised, FolderPromised, VerifyPromised,
       OptionsPromised
  <2>2. CASE MakeDir \/ WaitForApi \/ ReadFolders \/ ReadDevices
             \/ RereadDevices \/ CallFails \/ ComposeUp
    <3>1. /\ syncAt \in SyncRunning
          /\ syncAt' \in SyncRunning \cup {"failed"}
          /\ UNCHANGED <<file, device, folder, meddled>>
      BY <2>2 DEF MakeDir, WaitForApi, ReadFolders, ReadDevices,
                  RereadDevices, CallFails, ComposeUp, SyncRunning
    <3> QED
      BY <1>6, <3>1, SyncStands, SyncGoesOn
  <2> QED
    BY <1>6, <2>1, <2>2 DEF HookSteps
<1>7. CASE UNCHANGED syncVars
  BY <1>7, SyncStands DEF syncVars, HooksSee, SyncPhase
<1> QED
  BY <1>1, <1>2, <1>3, <1>4, <1>5, <1>6, <1>7 DEF SyncNext

(* The hooks of Syncthing implement what a hook promises: they change what *)
(* the file declares, to what it declares, keep every password, and end    *)
(* well only with all of it in place.                                      *)
THEOREM SyncHooksReconcile ==
  SyncInit /\ [][SyncNext]_syncVars => SyncKeepsPromise
<1>1. SyncInit => Promise!Init
  BY DEF SyncInit, Promise!Init, SyncPhase, SyncRunning
<1> QED
  BY <1>1, SyncBegins, SyncStepInv, SyncPromiseStep, PTL
     DEF SyncKeepsPromise, Promise!Spec, HooksSee
=============================================================================
