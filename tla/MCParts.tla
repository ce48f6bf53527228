------------------------------- MODULE MCParts ------------------------------
(***************************************************************************)
(* The parts of Rostok that share no state with one another, in one run: a *)
(* behaviour is one of a single part, chosen at the start, while the       *)
(* others keep their initial state. Only instances are put together here;  *)
(* what interacts is composed in the modules themselves: the deploy with   *)
(* its signal handler and its children in Staging, the script with the     *)
(* containers in StackCheck, server create with the deploy that reads what *)
(* it wrote in DeployEnv, the hooks with the service in the others.        *)
(***************************************************************************)
EXTENDS Staging, StackCheck, Volumes, DeployEnv, Syncthing, MailServer, Sieve,
        ConfigFile, PgUpgrade, OfflineDrive, SelfUpgrade

VARIABLE part   \* the part this behaviour is of

partsVars == <<part, stagingVars, checkVars, volumeVars,
             serverVars, syncVars, mailVars, sieveVars, cfVars, pgVars,
             odVars, upgradeVars>>
Parts == {"staging", "check", "volumes", "server", "syncthing",
          "mail", "sieve", "config", "postgres", "drive", "upgrade"}

-----------------------------------------------------------------------------
(* StackCheck: two stacks, one of them of two containers.                  *)
MCOrder == <<"a", "b">>
MCProjectOf == [c \in Conts |-> IF c = "b1" THEN "b" ELSE "a"]

(* Volumes: a folder, one inside it, and one beside them.                  *)
MCAbove == [n \in Nodes |-> IF n = "a/b" THEN {"a"} ELSE {}]

(* Sieve: a message two rules match, a bounce that a rule matches as well, *)
(* and one nothing matches.                                                *)
MCMatchedBy == [m \in Mails |-> CASE m = "m1" -> {"Reports", "Digests"}
                                  [] m = "m2" -> {"bounce", "Digests"}
                                  [] OTHER -> {}]

(* Syncthing: a file whose own entry has an id the server no longer runs   *)
(* as; one with a mount inside a mount, that shares with the peer alone;   *)
(* one whose peer has the server's new id; and one that is not valid.      *)
Entry(name, id) == [name |-> name, id |-> id]
BaseFile == [
  data    |-> <<"st">>,
  mounts  |-> {[container |-> <<"v">>, host |-> <<"ssd">>],
               [container |-> <<"v", "big">>, host |-> <<"hdd">>]},
  folders |-> {[id |-> "docs", path |-> <<"v">>, shares |-> {"me", "peer"}]},
  entries |-> {Entry("me", "OLD"), Entry("peer", "PEER")},
  self    |-> "me" ]
MCFiles == {
  BaseFile,
  [BaseFile EXCEPT !.folders = {[id |-> "docs",
                                 path |-> <<"v", "big", "docs">>,
                                 shares |-> {"peer"}]}],
  [BaseFile EXCEPT !.entries = {Entry("me", "OLD"), Entry("peer", "MY")},
                   !.folders = {}],
  [BaseFile EXCEPT !.self = "other"] }
MCHostDirs == {<<"st">>, <<"ssd">>, <<"hdd">>, <<"hdd", "docs">>}

(* ServerCreate and DeployEnv: addresses with and without a login and a    *)
(* port, and this machine; servers that answer as root, in part or not at  *)
(* all; edits that empty a key, take one away, or refer to others.         *)
With(f, more) == [k \in DOMAIN f |-> IF k \in DOMAIN more THEN more[k]
                                     ELSE f[k]]
MCOther == {"BASE_PATH", "A_TOKEN", "B_TOKEN", "LD_PRELOAD"}
Nothing == [k \in AskedKeys |-> None]
MCVars == {
  With(Nothing, [SSH_ADDRESS |-> <<"bob", "box", "">>]),
  With(Nothing, [SSH_ADDRESS |-> <<"", "box", "22">>]),
  With(Nothing, [SSH_ADDRESS |-> <<"", "local", "">>, PUID |-> <<"7">>,
                 PGID |-> <<"7">>, DOCKER_GROUP_ID |-> <<"8">>]),
  With(Nothing, [SSH_ADDRESS |-> <<"bob", "box", "">>,
                 SSH_USER |-> <<"eve">>]),
  Nothing }
MCTyped == {
  With(Nothing, [SSH_USER |-> <<"eve">>, PATH_APPS |-> <<"srv">>]),
  With(Nothing, [PATH_APPS |-> <<"srv", "volumes", "apps">>,
                 PUID |-> <<"0">>]) }
MCReplies == {
  [SSH_USER |-> <<"root">>, DOCKER_GROUP_ID |-> <<"120">>, PUID |-> <<"0">>,
   PGID |-> <<"0">>],
  [SSH_USER |-> Wrong, DOCKER_GROUP_ID |-> None, PUID |-> <<"1001">>,
   PGID |-> Wrong] }
MCEdits == {
  [PUID |-> Blank],
  [SSH_USER |-> <<"eve">>, TIMEZONE |-> Blank],
  [VOLUMES_PATH |-> <<"$PATH_APPS", "vol">>],
  [VOLUMES_PATH |-> <<"$BASE_PATH", "vol">>, PATH_APPS |-> None,
   A_TOKEN |-> <<"t">>],
  [VOLUMES_PATH |-> <<"$A_TOKEN", "vol">>, A_TOKEN |-> <<"t">>],
  [A_TOKEN |-> Blank],
  [BASE_PATH |-> Blank],
  [A_TOKEN |-> <<"$BASE_PATH">>],
  [A_TOKEN |-> <<"t">>, B_TOKEN |-> <<"s">>, LD_PRELOAD |-> <<"x">>] }
MCRoots == {
  NoValues,
  With(NoValues, [A_TOKEN |-> <<"t">>, BASE_PATH |-> <<"data">>,
                  PUID |-> <<"5">>]) }
MCShells == {
  NoShell,
  With(NoShell, [SSH_HOST |-> <<"x">>, SSH_PORT |-> <<"9">>,
                 SSH_LOCAL |-> <<"true">>, SSH_USER |-> <<"me">>,
                 B_TOKEN |-> <<"mine">>]) }
MCEnvs == { [a |-> None, b |-> None], [a |-> <<"v">>, b |-> None],
            [a |-> Blank, b |-> <<"v">>], [a |-> None, b |-> Blank],
            [a |-> <<"$BASE_PATH">>, b |-> None],
            [a |-> None, b |-> <<"$A_TOKEN">>] }

-----------------------------------------------------------------------------
(* A part that is not the one of the behaviour starts in one state only.   *)
Init ==
  /\ part \in Parts
  /\ StagingInit
  /\ CheckInit
  /\ VolumesInit
  /\ DeployEnvInit
  /\ SyncInit
  /\ MailInit
  /\ SieveInit
  /\ CfInit
  /\ PgInit
  /\ OdInit
  /\ UpgradeInit
  /\ part # "staging" => ~groupKill
  /\ part # "config" => app = "gatus"

StagingGoes ==
  /\ part = "staging" /\ StagingNext
  /\ UNCHANGED <<part, checkVars, volumeVars, serverVars, syncVars,
     mailVars, sieveVars, cfVars, pgVars, odVars, upgradeVars>>
StackCheckGoes ==
  /\ part = "check" /\ CheckNext
  /\ UNCHANGED <<part, stagingVars, volumeVars, serverVars, syncVars,
     mailVars, sieveVars, cfVars, pgVars, odVars, upgradeVars>>
(* On the server as found only a plain volume is PUID's already: that one  *)
(* is asked, and a link to another is a link to it.                        *)
VolumesGoes ==
  /\ part = "volumes" /\ VolumesNext
  /\ deploys = 0 => \A n \in Nodes : owner'[n] = "ids" => role'[n] = "plain"
  /\ UNCHANGED <<part, stagingVars, checkVars, serverVars, syncVars,
     mailVars, sieveVars, cfVars, pgVars, odVars, upgradeVars>>
ServerGoes ==
  /\ part = "server" /\ ServerNext
  /\ UNCHANGED <<part, stagingVars, checkVars, volumeVars, syncVars,
     mailVars, sieveVars, cfVars, pgVars, odVars, upgradeVars>>
SyncGoes ==
  /\ part = "syncthing" /\ SyncNext
  /\ UNCHANGED <<part, stagingVars, checkVars, volumeVars, serverVars,
     mailVars, sieveVars, cfVars, pgVars, odVars, upgradeVars>>
MailGoes ==
  /\ part = "mail" /\ MailNext
  /\ UNCHANGED <<part, stagingVars, checkVars, volumeVars, serverVars,
     syncVars, sieveVars, cfVars, pgVars, odVars, upgradeVars>>
SieveGoes ==
  /\ part = "sieve" /\ SieveNext
  /\ UNCHANGED <<part, stagingVars, checkVars, volumeVars, serverVars,
     syncVars, mailVars, cfVars, pgVars, odVars, upgradeVars>>
ConfigFileGoes ==
  /\ part = "config" /\ CfNext
  /\ UNCHANGED <<part, stagingVars, checkVars, volumeVars, serverVars,
     syncVars, mailVars, sieveVars, pgVars, odVars, upgradeVars>>
PostgresGoes ==
  /\ part = "postgres" /\ PgNext
  /\ UNCHANGED <<part, stagingVars, checkVars, volumeVars, serverVars,
     syncVars, mailVars, sieveVars, cfVars, odVars, upgradeVars>>
DriveGoes ==
  /\ part = "drive" /\ OdNext
  /\ UNCHANGED <<part, stagingVars, checkVars, volumeVars, serverVars,
     syncVars, mailVars, sieveVars, cfVars, pgVars, upgradeVars>>
UpgradeGoes ==
  /\ part = "upgrade" /\ UpgradeNext
  /\ UNCHANGED <<part, stagingVars, checkVars, volumeVars, serverVars,
     syncVars, mailVars, sieveVars, cfVars, pgVars, odVars>>

Next == \/ StagingGoes \/ StackCheckGoes \/ VolumesGoes \/ ServerGoes
        \/ SyncGoes \/ MailGoes \/ SieveGoes \/ ConfigFileGoes \/ PostgresGoes
        \/ DriveGoes \/ UpgradeGoes

(* Fairness is that of the one part that claims something of it.           *)
Spec == Init /\ [][Next]_partsVars /\ StagingFair

-----------------------------------------------------------------------------
(* Each part keeps to its types: among them that nothing a server answers  *)
(* is used that is no number and no login, that the staging folder is      *)
(* there while files are in it, and every counter is within its bound.     *)
PartsTypeOK ==
  /\ part \in Parts
  /\ StagingTypeOK /\ CheckTypeOK /\ VolumesTypeOK /\ ServerTypeOK
  /\ SyncTypeOK /\ MailTypeOK /\ SieveTypeOK /\ CfTypeOK /\ PgTypeOK
  /\ OdTypeOK /\ UpgradeTypeOK

(* A deploy that is over, by itself or by a signal at any point, leaves no *)
(* copy of a secret and, where process groups can be signalled, no process *)
(* it has started, nor one a hook has; it warns only of files of a process *)
(* it could not reach; and a signal that has come ends it, whatever the    *)
(* processes go on writing (run-deploy.ts, process-registry.ts).           *)
DeployLeavesNothing ==
  [](SecretsGone /\ WarnsOnlyOfStrays /\ NoStrays) /\ SignalEndsDeploy

(* The result of a stack tells a crash loop from one restart: no loop is   *)
(* reported as started, nothing is reported as failed that has not crashed *)
(* since up, and a stack has one result or was cut off                     *)
(* (deploy-script.ts, rostok_look).                                        *)
ResultsTellLoops == CrashLoopReported /\ NoFalseAlarm /\ OneResultEach

(* Wherever the folder script stops, and deployed again as often as one    *)
(* likes: the folders of a deploy that ends well have their owners, and no *)
(* folder marked as kept has changed hands (volumes.ts).                   *)
FoldersInRightHands == []FoldersOwned /\ KeptStaysKept

(* The .env that server create leaves is one a deploy takes, no rerun      *)
(* changes what it was not told to, no container runs as root unasked, and *)
(* what deploy, compose and hooks make of it agree (server-create.ts,      *)
(* env.ts, hooks.ts).                                                      *)
ServerEnvSound ==
  /\ RerunKeeps /\ RootOnlyAsked
  /\ []CreatedIsDeployable /\ []HooksFollowDeploy /\ []TakenIsSound

(* The hooks of syncthing and stalwart and the script that sorts the mail  *)
(* each implement Reconcile: a step moves only settings it was asked for   *)
(* to values it was asked for, a run ends well only with all in place, and *)
(* fails without harm at any point. Mounts are there before containers     *)
(* start, and no redirect displaces the owner's own script.                *)
HooksKeepPromise ==
  /\ SyncKeepsPromise /\ MailKeepsPromise /\ SortsAsAsked
  /\ []MountsExist /\ RightScript

(* Behind a deploy that ends well a service runs on the configuration of   *)
(* that deploy, whatever failed in those before, and one for which nothing *)
(* had to change was left running; mail is signed with the keys the DNS    *)
(* has, and a server whose keys are wrong is stopped.                      *)
ServicesAsConfigured ==
  /\ []ServesCurrent /\ LeavesRunning
  /\ []SignsAsPublished /\ []StoppedWhenWrong

(* No command that replaces data loses it, wherever it is cut: Postgres    *)
(* rows, the repositories on the offline drive, the rostok binary.         *)
DataKept ==
  /\ []RowsKept /\ []StartsComplete
  /\ AsksBeforeDeleting /\ []GoodNews
  /\ []WholeBinary /\ PlacesWanted
=============================================================================
