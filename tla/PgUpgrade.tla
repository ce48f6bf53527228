------------------------------ MODULE PgUpgrade -----------------------------
(***************************************************************************)
(* The move of one stack's Postgres data to version 18: upgrade.sh, run by *)
(* hand on the server, and the check of the stack's before hook (gitea,    *)
(* umami and caldiy have the same one), which refuses a deploy that would  *)
(* start Postgres 18 beside data it cannot read. The script may fail, get  *)
(* a signal, or be killed at any point; data is a number of rows.          *)
(***************************************************************************)
EXTENDS Naturals

CONSTANTS
  MaxRows,      \* bound: rows the app writes
  MaxUpgrades   \* bound: runs of upgrade.sh

ASSUME PgBounds == MaxRows \in Nat \ {0} /\ MaxUpgrades \in Nat

VARIABLES
  data,     \* folder -> the rows in it, Absent when there is no such folder
  dump,     \* rows in the dump
  marker,   \* postgres/.upgrade-incomplete is there
  pg,       \* the running database: version 16, 18 or none
  apps,     \* the app containers run
  upAt,     \* where upgrade.sh is
  moved,    \* its variable of that name
  check,    \* a deploy: not under way, or past the check
  written,  \* rows the app has written
  cut,      \* the run was cut short where the folders do not show it
  upgrades

pgVars == <<data, dump, marker, pg, apps, upAt, moved, check, written, cut,
            upgrades>>
runVars == <<check, written, upgrades>>

Absent == MaxRows + 1
PgSteps == {"stopApps", "dump", "stopDb", "rename", "renamed", "flagged",
            "start", "restore", "count", "finish", "done"}
Undoing == {"moveBack", "moveNew", "startOld"}

PgTypeOK ==
  /\ data \in [{"db", "kept", "new"} -> 0..Absent] /\ dump \in 0..MaxRows
  /\ pg \in {"none", "16", "18"} /\ upAt \in PgSteps \cup Undoing \cup {"off"}
  /\ check \in {"none", "passed"} /\ written \in 0..MaxRows
  /\ \A b \in {marker, apps, moved, cut} : b \in BOOLEAN
  /\ upgrades \in 0..MaxUpgrades

PgInit ==
  /\ data = [db |-> 1, kept |-> Absent, new |-> Absent] /\ dump = 0
  /\ marker = FALSE /\ pg = "16" /\ apps = TRUE /\ upAt = "off"
  /\ moved = FALSE /\ check = "none" /\ written = 1 /\ cut = FALSE
  /\ upgrades = 0

-----------------------------------------------------------------------------
(* What the script asks for before it touches anything.                    *)
MayUpgrade ==
  ~marker /\ data["new"] = Absent /\ data["db"] # Absent /\ pg = "16"

UpStart ==
  /\ upAt = "off" /\ upgrades < MaxUpgrades /\ MayUpgrade
  /\ upAt' = "stopApps" /\ moved' = FALSE /\ upgrades' = upgrades + 1
  /\ UNCHANGED <<data, dump, marker, pg, apps, check, written, cut>>

StopApps ==
  /\ upAt = "stopApps" /\ upAt' = "dump" /\ apps' = FALSE
  /\ UNCHANGED <<data, dump, marker, pg, moved, cut, runVars>>

Dump ==
  /\ upAt = "dump" /\ upAt' = "stopDb" /\ dump' = data["db"]
  /\ UNCHANGED <<data, marker, pg, apps, moved, cut, runVars>>

StopDb ==
  /\ upAt = "stopDb" /\ upAt' = "rename" /\ pg' = "none"
  /\ UNCHANGED <<data, dump, marker, apps, moved, cut, runVars>>

Rename ==
  /\ upAt = "rename" /\ upAt' = "renamed"
  /\ data' = [data EXCEPT !["kept"] = data["db"], !["db"] = Absent]
  /\ UNCHANGED <<dump, marker, pg, apps, moved, cut, runVars>>

SetMoved ==
  /\ upAt = "renamed" /\ upAt' = "flagged" /\ moved' = TRUE
  /\ UNCHANGED <<data, dump, marker, pg, apps, cut, runVars>>

PutMarker ==
  /\ upAt = "flagged" /\ upAt' = "start" /\ marker' = TRUE
  /\ UNCHANGED <<data, dump, pg, apps, moved, cut, runVars>>

StartNew ==
  /\ upAt = "start" /\ upAt' = "restore" /\ data' = [data EXCEPT !["new"] = 0]
  /\ UNCHANGED <<dump, marker, pg, apps, moved, cut, runVars>>

(* psql goes on after an error; what it leaves out is found by the count.  *)
RestoreDump ==
  /\ upAt = "restore" /\ upAt' = "count"
  /\ \E n \in 0..dump : data' = [data EXCEPT !["new"] = n]
  /\ UNCHANGED <<dump, marker, pg, apps, moved, cut, runVars>>

CountRows ==
  /\ upAt = "count" /\ data["new"] = dump /\ upAt' = "finish"
  /\ UNCHANGED <<data, dump, marker, pg, apps, moved, cut, runVars>>

RemoveMarker ==
  /\ upAt = "finish" /\ upAt' = "done" /\ marker' = FALSE
  /\ UNCHANGED <<data, dump, pg, apps, moved, cut, runVars>>

SetDone ==
  /\ upAt = "done" /\ upAt' = "off"
  /\ UNCHANGED <<data, dump, marker, pg, apps, moved, cut, runVars>>

-----------------------------------------------------------------------------
(* The old data is out of sight, and nothing says so.                      *)
Hidden == data["db"] = Absent /\ data["new"] = Absent /\ ~marker

(* A step that fails, or a signal, leads to rollback. The shell takes a    *)
(* signal when the command it runs is over: so also after the rename, with *)
(* moved not set, and after the marker's removal, with done_ok not set:    *)
(* the folders then show a move that is over, and it is undone.            *)
RollBack ==
  /\ upAt \in PgSteps
  /\ upAt' = IF moved THEN "moveBack" ELSE "startOld"
  /\ cut' = (cut \/ upAt = "done")
  /\ UNCHANGED <<data, dump, marker, pg, apps, moved, runVars>>

MoveBack ==
  /\ upAt = "moveBack"
  /\ \/ /\ data' = [data EXCEPT !["db"] = data["kept"], !["kept"] = Absent]
        /\ upAt' = "moveNew"
     \/ UNCHANGED data /\ upAt' = "startOld"
  /\ UNCHANGED <<dump, marker, pg, apps, moved, cut, runVars>>

(* The new folder goes with its marker, unless its rename fails.           *)
MoveNew ==
  /\ upAt = "moveNew" /\ upAt' = "startOld"
  /\ \/ data' = [data EXCEPT !["new"] = Absent] /\ marker' = FALSE
     \/ UNCHANGED <<data, marker>>
  /\ UNCHANGED <<dump, pg, apps, moved, cut, runVars>>

(* docker start, of the database and of the apps, each whether the other   *)
(* starts or not. A container whose folder is gone does not start, or gets *)
(* a new empty folder from docker.                                         *)
StartOld ==
  /\ upAt = "startOld" /\ upAt' = "off" /\ apps' = TRUE
  /\ \/ UNCHANGED <<data, pg, cut>>
     \/ /\ pg # "18" /\ pg' = "16"
        /\ data' = [data EXCEPT !["db"] = IF @ = Absent THEN 0 ELSE @]
        /\ cut' = (cut \/ data["db"] = Absent)
  /\ UNCHANGED <<dump, marker, moved, runVars>>

(* kill -9, or the machine goes down.                                      *)
Killed ==
  /\ upAt # "off" /\ upAt' = "off"
  /\ cut' = (cut \/ Hidden)
  /\ UNCHANGED <<data, dump, marker, pg, apps, moved, runVars>>

-----------------------------------------------------------------------------
(* The hook's check: no marker, and data only where Postgres 18 looks.     *)
CheckPasses == ~marker /\ (data["db"] = Absent \/ data["new"] # Absent)

Check ==
  /\ check = "none" /\ pg # "18" /\ CheckPasses /\ check' = "passed"
  /\ cut' = (cut \/ Hidden)
  /\ UNCHANGED <<data, dump, marker, pg, apps, upAt, moved, written, upgrades>>

(* compose up: Postgres 18 makes a database where there is none.           *)
DeployUp ==
  /\ check = "passed" /\ check' = "none" /\ pg' = "18" /\ apps' = TRUE
  /\ data' = IF data["new"] = Absent THEN [data EXCEPT !["new"] = 0] ELSE data
  /\ UNCHANGED <<dump, marker, upAt, moved, written, cut, upgrades>>

(* The owner does what the script's message says, or starts what stopped.  *)
OwnerPutsBack ==
  /\ upAt = "off" /\ marker /\ pg # "18"
  /\ data' = IF data["db"] = Absent
               THEN [db |-> data["kept"], kept |-> Absent, new |-> Absent]
               ELSE [data EXCEPT !["new"] = Absent]
  /\ marker' = FALSE
  /\ UNCHANGED <<dump, pg, apps, upAt, moved, check, written, cut, upgrades>>
OwnerStartsOld ==
  /\ upAt = "off" /\ data["db"] # Absent /\ pg # "18" /\ ~(pg = "16" /\ apps)
  /\ pg' = "16" /\ apps' = TRUE
  /\ UNCHANGED <<data, dump, marker, upAt, moved, check, written, cut,
                 upgrades>>

(* A database whose folder was renamed under it takes its rows elsewhere.  *)
AppWrites ==
  /\ apps /\ pg # "none" /\ written < MaxRows
  /\ written' = written + 1
  /\ data' = [f \in DOMAIN data |->
       IF f = (IF pg = "18" THEN "new" ELSE "db") /\ data[f] # Absent
       THEN data[f] + 1 ELSE data[f]]
  /\ UNCHANGED <<dump, marker, pg, apps, upAt, moved, check, cut, upgrades>>

UpgradeStep ==
  \/ UpStart \/ StopApps \/ Dump \/ StopDb \/ Rename \/ SetMoved \/ PutMarker
  \/ StartNew \/ RestoreDump \/ CountRows \/ RemoveMarker \/ SetDone
PgNext ==
  \/ UpgradeStep \/ RollBack \/ MoveBack \/ MoveNew \/ StartOld \/ Killed
  \/ Check \/ DeployUp \/ OwnerPutsBack \/ OwnerStartsOld \/ AppWrites

-----------------------------------------------------------------------------
(* What the script cannot promise, and these two properties do not say, is *)
(* named by cut: it is killed, or a deploy is checked, while the old data  *)
(* is out of sight and no marker says so; it takes a signal between the    *)
(* marker's removal and done_ok; or the old version gets a new folder,     *)
(* started though its data could not be moved back.                        *)

(* Every row the app ever wrote is in one folder, the old one under either *)
(* name or the one Postgres 18 runs on, wherever else the script ends.     *)
RowsKept == ~cut => \E f \in {"db", "kept", "new"} :
                      data[f] # Absent /\ data[f] = written

(* Postgres 18 never runs with fewer rows than the app wrote.              *)
StartsComplete == pg = "18" /\ ~cut => data["new"] = written
=============================================================================
