----------------------------- MODULE SelfUpgrade ----------------------------
(***************************************************************************)
(* How the rostok binary is replaced, by rostok upgrade or by install.sh   *)
(* (cli/upgrade.ts, install.sh). Several of them run at once, a release    *)
(* may be published at any moment, a download may come damaged, and each   *)
(* run may fail or be killed at any step.                                  *)
(***************************************************************************)
EXTENDS Naturals

CONSTANTS
  Runs,         \* runs of upgrade and install.sh
  Installs,     \* those of them that are install.sh
  Broken,       \* releases whose binary does not run on this machine
  MaxRelease    \* bound: releases

ASSUME SelfUpgradeConstants ==
  Installs \subseteq Runs /\ MaxRelease \in Nat \ {0}

VARIABLES
  latest,    \* the latest release
  binary,    \* what is at the path: a release, or Damaged
  runAt,     \* run -> where it is
  want,      \* run -> the version it asks for, if it does
  sums,      \* run -> the release whose SHA256SUMS it has
  archive,   \* run -> the release whose archive it has, or Damaged
  temp       \* run -> its file beside the binary

upgradeVars == <<latest, binary, runAt, want, sums, archive, temp>>

Releases == 1..MaxRelease
Damaged == 0
NoTemp == MaxRelease + 1
EmptyTemp == MaxRelease + 2
Fetching == {"temp", "sums", "archive", "verify"}
Placing == {"write", "version", "rename"}

UpgradeTypeOK ==
  /\ latest \in Releases /\ binary \in 0..MaxRelease
  /\ runAt \in [Runs -> Fetching \cup Placing \cup
                        {"idle", "ok", "failed", "killed"}]
  /\ want \in [Runs -> 0..MaxRelease]
  /\ sums \in [Runs -> 0..MaxRelease] /\ archive \in [Runs -> 0..MaxRelease]
  /\ temp \in [Runs -> 0..EmptyTemp]

UpgradeInit ==
  /\ latest = 1 /\ binary = 1
  /\ runAt = [r \in Runs |-> "idle"] /\ want = [r \in Runs |-> 0]
  /\ sums = [r \in Runs |-> 0] /\ archive = [r \in Runs |-> 0]
  /\ temp = [r \in Runs |-> NoTemp]

ReleaseComes ==
  /\ latest < MaxRelease /\ latest' = latest + 1
  /\ UNCHANGED <<binary, runAt, want, sums, archive, temp>>

-----------------------------------------------------------------------------
Goto(r, step) == runAt' = [runAt EXCEPT ![r] = step]

(* upgrade wants a version, by default the latest, other than its own;     *)
(* install.sh takes any, or what is the latest at each of its calls (0).   *)
UpgradeStarts(r) ==
  /\ runAt[r] = "idle" /\ r \notin Installs /\ binary \notin Broken
  /\ \E v \in (1..latest) \ {binary} : want' = [want EXCEPT ![r] = v]
  /\ Goto(r, "temp")
  /\ UNCHANGED <<latest, binary, sums, archive, temp>>
InstallStarts(r) ==
  /\ runAt[r] = "idle" /\ r \in Installs
  /\ \E v \in 0..latest : want' = [want EXCEPT ![r] = v]
  /\ Goto(r, "archive")
  /\ UNCHANGED <<latest, binary, sums, archive, temp>>

MakeTemp(r) ==
  /\ runAt[r] = "temp" /\ Goto(r, "sums")
  /\ temp' = [temp EXCEPT ![r] = EmptyTemp]
  /\ UNCHANGED <<latest, binary, want, sums, archive>>

(* upgrade takes the sums first, install.sh the archive.                   *)
Source(r) == IF want[r] = 0 THEN latest ELSE want[r]

FetchSums(r) ==
  /\ runAt[r] = "sums"
  /\ sums' = [sums EXCEPT ![r] = Source(r)]
  /\ Goto(r, IF r \in Installs THEN "verify" ELSE "archive")
  /\ UNCHANGED <<latest, binary, want, archive, temp>>

FetchArchive(r) ==
  /\ runAt[r] = "archive"
  /\ \E got \in {Source(r), Damaged} : archive' = [archive EXCEPT ![r] = got]
  /\ Goto(r, IF r \in Installs THEN "sums" ELSE "verify")
  /\ UNCHANGED <<latest, binary, want, sums, temp>>

VerifyChecksum(r) ==
  /\ runAt[r] = "verify" /\ archive[r] = sums[r]
  /\ Goto(r, "write")
  /\ UNCHANGED <<latest, binary, want, sums, archive, temp>>

(* Unpacked into the file beside the binary.                               *)
Unpack(r) ==
  /\ runAt[r] = "write"
  /\ temp' = [temp EXCEPT ![r] = archive[r]]
  /\ Goto(r, IF r \in Installs THEN "rename" ELSE "version")
  /\ UNCHANGED <<latest, binary, want, sums, archive>>

(* Only upgrade runs what it has unpacked before it puts it in place.      *)
RunVersion(r) ==
  /\ runAt[r] = "version"
  /\ temp[r] \notin Broken /\ temp[r] = want[r]
  /\ Goto(r, "rename")
  /\ UNCHANGED <<latest, binary, want, sums, archive, temp>>

RenameOver(r) ==
  /\ runAt[r] = "rename" /\ Goto(r, "ok")
  /\ binary' = temp[r] /\ temp' = [temp EXCEPT ![r] = NoTemp]
  /\ UNCHANGED <<latest, want, sums, archive>>

(* A check or a call that fails: upgrade removes its file, if it can, and  *)
(* install.sh leaves what it has unpacked, in part too.                    *)
LeftOver(r) == {temp[r]} \cup (IF runAt[r] = "write" THEN {Damaged} ELSE {})

RunFails(r) ==
  /\ runAt[r] \in Fetching \cup Placing /\ Goto(r, "failed")
  /\ \E left \in LeftOver(r) \cup (IF r \in Installs THEN {} ELSE {NoTemp}) :
       temp' = [temp EXCEPT ![r] = left]
  /\ UNCHANGED <<latest, binary, want, sums, archive>>

RunKilled(r) ==
  /\ runAt[r] \in Fetching \cup Placing /\ Goto(r, "killed")
  /\ \E left \in LeftOver(r) : temp' = [temp EXCEPT ![r] = left]
  /\ UNCHANGED <<latest, binary, want, sums, archive>>

UpgradeNext ==
  \/ ReleaseComes
  \/ \E r \in Runs :
       \/ UpgradeStarts(r) \/ InstallStarts(r) \/ MakeTemp(r) \/ FetchSums(r)
       \/ FetchArchive(r) \/ VerifyChecksum(r) \/ Unpack(r) \/ RunVersion(r)
       \/ RenameOver(r) \/ RunFails(r) \/ RunKilled(r)

-----------------------------------------------------------------------------
(* At every moment, whichever runs are under way, killed or failed, the    *)
(* file at the path is the whole binary of some release; and what an       *)
(* upgrade puts there is the version it was asked for, which runs here.    *)
WholeBinary == binary \in Releases
PlacesWanted ==
  [][\A r \in Runs \ Installs : runAt'[r] = "ok" /\ runAt[r] # "ok" =>
       binary' = want[r] /\ binary' \notin Broken]_upgradeVars
=============================================================================
