------------------------------ MODULE Syncthing -----------------------------
(***************************************************************************)
(* The two hooks of the syncthing stack: before the containers start, the  *)
(* host folders of configs/syncthing.yml are made; after, the running      *)
(* Syncthing gets what the file declares over its REST API, and is read    *)
(* back (stacks/syncthing/before.deploy.ts, after.deploy.ts).              *)
(*                                                                         *)
(* The fields the file declares of a device or a folder are one value: the *)
(* entry they were taken from. The fields it does not are another. A share *)
(* of a folder with a device carries an encryption password, or none.      *)
(***************************************************************************)
EXTENDS Naturals, FiniteSets, Sequences, SequencesExt

CONSTANTS
  Ids,          \* device ids
  MyId,         \* the id this server's Syncthing runs as
  FolderIds,
  Files,        \* what configs/syncthing.yml may hold, broken ones included
  HostDirs,     \* folders of the host, as sequences of names
  MaxGui,       \* bound: changes made in Syncthing's own web page
  MaxHooks      \* bound: deploys of the stack

VARIABLES
  syncAt,   \* where the hooks are
  file,     \* the file of this deploy, or NoFile
  hostDir,  \* host folder -> "missing", "dir" or "file"
  makeDirs, \* host folders still to make
  api,      \* the API answers
  tries,    \* calls made to see whether it does
  device,   \* id -> what Syncthing keeps of it
  folder,   \* folder -> what Syncthing keeps of it
  seen,     \* what was read of the devices and the folders
  entriesLeft, foldersLeft,   \* of the file, still to send
  meddled,  \* somebody else wrote since this run of the hooks began
  gui, hooks

syncVars == <<syncAt, file, hostDir, makeDirs, api, tries, device, folder,
              seen, entriesLeft, foldersLeft, meddled, gui, hooks>>
serviceVars == <<device, folder, api>>
workVars == <<hostDir, makeDirs, tries, seen, entriesLeft, foldersLeft>>
outVars == <<meddled, gui, hooks>>

NoSelf == "nobody"
NoFile == [data |-> <<>>, mounts |-> {}, folders |-> {}, entries |-> {},
           self |-> "nobody"]
Unset == [by |-> "nothing", extra |-> "default"]
NoShares == [i \in Ids |-> "none"]
Shares == [Ids -> {"none", "open", "secret"}]
NoFolder == [by |-> "nothing", extra |-> "default", shares |-> NoShares]
Names == UNION {{e.name : e \in f.entries} : f \in Files}
By == Names \cup FolderIds \cup {"nothing", "gui"}
Rest == {"default", "changed"}
KeptDevices == [Ids -> [by : By, extra : Rest]]
KeptFolders == [FolderIds -> [by : By, extra : Rest, shares : Shares]]
SyncRunning == {"dirs", "wait", "options", "readFolders", "readDevices",
                "devices", "folders", "reread", "verify"}

SyncTypeOK ==
  /\ syncAt \in SyncRunning \cup {"idle", "ok", "failed"}
  /\ file \in Files \cup {NoFile}
  /\ hostDir \in [HostDirs -> {"missing", "dir", "file"}]
  /\ makeDirs \subseteq HostDirs
  /\ api \in BOOLEAN /\ meddled \in BOOLEAN
  /\ tries \in 0..1 /\ gui \in 0..MaxGui /\ hooks \in 0..MaxHooks
  /\ device \in KeptDevices /\ folder \in KeptFolders
  /\ seen \in [device : KeptDevices, folder : KeptFolders]
  /\ entriesLeft \subseteq Names /\ foldersLeft \subseteq FolderIds

SyncInit ==
  /\ syncAt = "idle" /\ file = NoFile
  /\ hostDir = [d \in HostDirs |-> "missing"] /\ makeDirs = {}
  /\ api = FALSE /\ tries = 0
  /\ device = [i \in Ids |-> IF i = MyId THEN [Unset EXCEPT !.by = "gui"]
                             ELSE Unset]
  /\ folder = [f \in FolderIds |-> NoFolder]
  /\ seen = [device |-> device, folder |-> folder]
  /\ entriesLeft = {} /\ foldersLeft = {}
  /\ meddled = FALSE /\ gui = 0 /\ hooks = 0

-----------------------------------------------------------------------------
EntryNames(f) == {e.name : e \in f.entries}
FileFolders(f) == {d.id : d \in f.folders}

(* validateConfig: names and ids once each, and every name a folder or     *)
(* `self` uses declared.                                                   *)
Valid(f) ==
  LET names == EntryNames(f) IN
  /\ Cardinality(names) = Cardinality(f.entries)
  /\ Cardinality({e.id : e \in f.entries}) = Cardinality(f.entries)
  /\ Cardinality({d.id : d \in f.folders}) = Cardinality(f.folders)
  /\ \A d \in f.folders : d.shares \subseteq names
  /\ f.self \in names \cup {NoSelf}

(* resolveFolderHostPath: the longest mount that holds the path.           *)
MountsOf(f, path) == {m \in f.mounts : IsPrefix(m.container, path)}
HostPath(f, path) ==
  LET deepest == CHOOSE m \in MountsOf(f, path) :
                   \A o \in MountsOf(f, path) :
                     Len(o.container) <= Len(m.container)
  IN  deepest.host \o SubSeq(path, Len(deepest.container) + 1, Len(path))

Resolved(f) == \A d \in f.folders : MountsOf(f, d.path) # {}

HostPaths(f) == {f.data} \cup {m.host : m \in f.mounts}
                \cup {HostPath(f, d.path) : d \in f.folders}

(* withLiveSelf: the entry named by `self` has the id the server runs as.  *)
IdOf(f, name) == IF name = f.self THEN MyId
                 ELSE (CHOOSE e \in f.entries : e.name = name).id
SharesOf(f, id) ==
  {IdOf(f, n) : n \in (CHOOSE d \in f.folders : d.id = id).shares}

(* Mutant: the shares are those of the file, without their passwords.      *)
DesiredFolderOpen(f, id, cur) ==
  [cur EXCEPT !.by = id,
     !.shares = [i \in Ids |-> IF i \in SharesOf(f, id) THEN "open"
                               ELSE "none"]]

(* The file laid over what is there: undeclared fields stay, and so does   *)
(* the password of every share the file keeps.                             *)
DesiredDevice(name, cur) == [cur EXCEPT !.by = name]
DesiredFolder(f, id, cur) ==
  [cur EXCEPT !.by = id,
     !.shares = [i \in Ids |-> IF i \notin SharesOf(f, id) THEN "none"
                               ELSE IF cur.shares[i] = "none" THEN "open"
                               ELSE cur.shares[i]]]

(* What the model calls by a name is there: the ids, and every folder of   *)
(* the host that a file uses which is looked into. No name is a mark of    *)
(* the model's own.                                                        *)
ASSUME SyncConstants ==
  /\ MyId \in Ids /\ HostDirs \subseteq Seq(STRING)
  /\ MaxGui \in Nat /\ MaxHooks \in Nat
  /\ Names \cap {"nothing", "gui"} = {}
  /\ \A f \in Files :
       /\ {e.id : e \in f.entries} \subseteq Ids
       /\ FileFolders(f) \subseteq FolderIds
       /\ Valid(f) /\ Resolved(f) => HostPaths(f) \subseteq HostDirs

-----------------------------------------------------------------------------
(* before.deploy: without the file nothing is looked at, the key included. *)
BeforeStarts ==
  /\ syncAt = "idle" /\ hooks < MaxHooks
  /\ hooks' = hooks + 1 /\ meddled' = FALSE /\ tries' = 0
  /\ file' \in Files \cup {NoFile}
  /\ \/ /\ file' = NoFile /\ syncAt' = "dirs" /\ makeDirs' = {}
     \/ /\ file' # NoFile /\ Valid(file') /\ Resolved(file')
        /\ syncAt' = "dirs" /\ makeDirs' = HostPaths(file')
     \/ \* an invalid file, a folder under no mount, or an unusable key
        syncAt' = "failed" /\ UNCHANGED makeDirs
  /\ IF hooks > 0 THEN UNCHANGED hostDir
     ELSE /\ hostDir' \in [HostDirs -> {"missing", "dir", "file"}]
          /\ \A d, p \in HostDirs : IsStrictPrefix(p, d) =>
                        hostDir'[d] = "missing" \/ hostDir'[p] = "dir"
  /\ UNCHANGED <<device, folder, api, seen, entriesLeft, foldersLeft, gui>>

(* ensureHostDir: mkdir -p, a chown that may fail, and a look at the       *)
(* folder; one that is a file stops the deploy.                            *)
MakeDir ==
  /\ syncAt = "dirs"
  /\ \E d \in makeDirs :
       IF \E p \in HostDirs : IsPrefix(p, d) /\ hostDir[p] = "file"
       THEN syncAt' = "failed" /\ UNCHANGED <<hostDir, makeDirs>>
       ELSE /\ hostDir' = [p \in HostDirs |-> IF IsPrefix(p, d) THEN "dir"
                                              ELSE hostDir[p]]
            /\ makeDirs' = makeDirs \ {d} /\ UNCHANGED syncAt
  /\ UNCHANGED <<file, serviceVars, tries, seen, entriesLeft, foldersLeft,
                 outVars>>

(* Other hooks, then compose up, which starts the container anew.          *)
ComposeUp ==
  /\ syncAt = "dirs" /\ makeDirs = {}
  /\ syncAt' = "wait" /\ api' = FALSE
  /\ UNCHANGED <<file, device, folder, workVars, outVars>>

ApiComesUp ==
  /\ ~api /\ syncAt \notin {"idle", "dirs"}
  /\ api' = TRUE
  /\ UNCHANGED <<syncAt, file, device, folder, workVars, outVars>>

(* waitForApi leaves its loop after one call, answered or not: the code of *)
(* curl's exit is not looked at, and nothing is thrown for it.             *)
WaitForApi ==
  /\ syncAt = "wait"
  /\ tries' = tries + 1 /\ syncAt' = "options"
  /\ UNCHANGED <<file, serviceVars, hostDir, makeDirs, seen, entriesLeft,
                 foldersLeft, outVars>>

(* The privacy options, which a server without the file gets too.          *)
SendOptions ==
  /\ syncAt = "options" /\ api
  /\ syncAt' = IF file = NoFile THEN "ok" ELSE "readFolders"
  /\ UNCHANGED <<file, serviceVars, workVars, outVars>>

ReadFolders ==
  /\ syncAt = "readFolders" /\ api
  /\ syncAt' = "readDevices" /\ seen' = [seen EXCEPT !.folder = folder]
  /\ UNCHANGED <<file, serviceVars, hostDir, makeDirs, tries, entriesLeft,
                 foldersLeft, outVars>>

ReadDevices ==
  /\ syncAt = "readDevices" /\ api
  /\ syncAt' = "devices" /\ seen' = [seen EXCEPT !.device = device]
  /\ entriesLeft' = EntryNames(file) /\ foldersLeft' = FileFolders(file)
  /\ UNCHANGED <<file, serviceVars, hostDir, makeDirs, tries, outVars>>

(* One device: POST when it was not there, PUT when it differs.            *)
SendDevice ==
  /\ syncAt = "devices" /\ api
  /\ \E n \in entriesLeft :
       LET id == IdOf(file, n)  cur == seen.device[id] IN
       /\ entriesLeft' = entriesLeft \ {n}
       /\ device' = IF DesiredDevice(n, cur) = cur THEN device
                    ELSE [device EXCEPT ![id] = DesiredDevice(n, cur)]
  /\ syncAt' = IF entriesLeft' = {} THEN "folders" ELSE "devices"
  /\ UNCHANGED <<file, folder, api, hostDir, makeDirs, tries, seen,
                 foldersLeft, outVars>>

(* One folder, from the list read before the devices were sent.            *)
SendFolder ==
  /\ syncAt = "folders" /\ api
  /\ \/ /\ foldersLeft = {} /\ syncAt' = "reread"
        /\ UNCHANGED <<folder, foldersLeft>>
     \/ \E f \in foldersLeft :
          LET want == DesiredFolder(file, f, seen.folder[f]) IN
          /\ foldersLeft' = foldersLeft \ {f}
          /\ folder' = IF want = seen.folder[f] THEN folder
                       ELSE [folder EXCEPT ![f] = want]
          /\ UNCHANGED syncAt
  /\ UNCHANGED <<file, device, api, hostDir, makeDirs, tries, seen,
                 entriesLeft, outVars>>

RereadDevices ==
  /\ syncAt = "reread" /\ api
  /\ syncAt' = "verify" /\ seen' = [seen EXCEPT !.device = device]
  /\ UNCHANGED <<file, serviceVars, hostDir, makeDirs, tries, entriesLeft,
                 foldersLeft, outVars>>

(* Read back and laid over once more: what changes by it has drifted.      *)
Drifted(f, devs, dirs) ==
  \/ \E n \in EntryNames(f) : devs[IdOf(f, n)].by # n
  \/ \E d \in FileFolders(f) : DesiredFolder(f, d, dirs[d]) # dirs[d]

Verify ==
  /\ syncAt = "verify" /\ api
  /\ syncAt' = IF Drifted(file, seen.device, folder) THEN "failed" ELSE "ok"
  /\ UNCHANGED <<file, serviceVars, workVars, outVars>>

(* Any call may fail, those of a hook whose API is down among them.        *)
CallFails ==
  /\ syncAt \in SyncRunning
  /\ syncAt' = "failed"
  /\ UNCHANGED <<file, serviceVars, workVars, outVars>>

DeployedAgain ==
  /\ syncAt \in {"ok", "failed"} /\ hooks < MaxHooks
  /\ syncAt' = "idle" /\ makeDirs' = {} /\ entriesLeft' = {}
  /\ foldersLeft' = {}
  /\ UNCHANGED <<file, serviceVars, hostDir, tries, seen, outVars>>

(* Somebody uses Syncthing's own page, or a peer introduces a device.      *)
Gui ==
  /\ api /\ gui < MaxGui
  /\ gui' = gui + 1 /\ meddled' = TRUE
  /\ \/ /\ \E i \in Ids : device' = [device EXCEPT ![i] =
                                       [by |-> "gui", extra |-> "changed"]]
        /\ UNCHANGED folder
     \/ /\ \E f \in FolderIds, i \in Ids, p \in {"none", "secret"} :
             folder' = [folder EXCEPT ![f] =
               [by |-> "gui", extra |-> "changed",
                shares |-> [@.shares EXCEPT ![i] = p]]]
        /\ UNCHANGED device
  /\ UNCHANGED <<syncAt, file, api, workVars, hooks>>

HookSteps == \/ MakeDir \/ WaitForApi \/ SendOptions \/ ReadFolders
             \/ ReadDevices \/ SendDevice \/ SendFolder \/ RereadDevices
             \/ Verify \/ CallFails

SyncNext == \/ BeforeStarts \/ HookSteps \/ ComposeUp \/ ApiComesUp
            \/ DeployedAgain \/ Gui

-----------------------------------------------------------------------------
(* What the hooks promise: Reconcile, over every device and folder, every  *)
(* field of theirs the file declares or not, and every share.              *)
SyncSettings == ({"device", "deviceRest"} \X Ids)
                \cup ({"folder", "folderRest"} \X FolderIds)
                \cup ({"share"} \X (FolderIds \X Ids))
SyncLive == [s \in SyncSettings |->
  CASE s[1] = "device" -> device[s[2]].by
    [] s[1] = "deviceRest" -> device[s[2]].extra
    [] s[1] = "folder" -> folder[s[2]].by
    [] s[1] = "folderRest" -> folder[s[2]].extra
    [] OTHER -> folder[s[2][1]].shares[s[2][2]]]
SyncValues == [s \in SyncSettings |->
  CASE s[1] \in {"device", "folder"} -> By
    [] s[1] \in {"deviceRest", "folderRest"} -> Rest
    [] OTHER -> {"none", "open", "secret"}]
Named(id) == {n \in EntryNames(file) : IdOf(file, n) = id}
SyncWanted == [s \in SyncSettings |->
  IF s[1] = "device" /\ Named(s[2]) # {} THEN Named(s[2])
  ELSE IF s[1] = "folder" /\ s[2] \in FileFolders(file) THEN {s[2]}
  ELSE IF s[1] = "share" /\ s[2][1] \in FileFolders(file)
    THEN IF s[2][2] \notin SharesOf(file, s[2][1]) THEN {"none"}
         ELSE IF SyncLive[s] = "none" THEN {"open"}
         ELSE {SyncLive[s]}             \* a password there is stays
  ELSE SyncValues[s]]
SyncPhase == IF meddled THEN "idle"
             ELSE IF syncAt \in SyncRunning THEN "running" ELSE syncAt

Promise == INSTANCE Reconcile WITH Settings <- SyncSettings,
             Values <- SyncValues, live <- SyncLive, wanted <- SyncWanted,
             phase <- SyncPhase

(* A run of the hooks changes in Syncthing only what the file declares, to *)
(* what it declares: every undeclared field, device and folder and every   *)
(* encryption password stays, and a run ends well only with all of it in   *)
(* place, as long as nobody else changes Syncthing meanwhile.              *)
SyncKeepsPromise == Promise!Spec

(* The container is not started before every folder of the host that the   *)
(* file's data, mounts and folders need is there.                          *)
MountsExist ==
  syncAt \in SyncRunning \ {"dirs"} /\ file # NoFile =>
    \A d \in HostPaths(file) : hostDir[d] = "dir"

(* The hook gives an API that is not up yet more than one try, as the "did *)
(* not respond within 60s" it throws says (after.deploy.ts:543).           *)
WaitsForApi ==
  [][CallFails /\ syncAt = "options" /\ ~api => tries > 1]_syncVars
=============================================================================
