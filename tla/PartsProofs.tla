----------------------------- MODULE PartsProofs ----------------------------
(* The properties of the parts as the runs check them: a behaviour of one  *)
(* of the parts, in which the others keep their state, is one of each part *)
(* by itself, so what is proved of a part holds there.                     *)
EXTENDS MCParts, CommandProofs, StackProofs

-----------------------------------------------------------------------------
(* Every part starts as it does by itself.                                 *)
LEMMA PartsStart ==
  Init => /\ StagingInit /\ CheckInit /\ VolumesInit /\ DeployEnvInit
          /\ SyncInit /\ MailInit /\ SieveInit /\ CfInit /\ PgInit /\ OdInit
          /\ UpgradeInit
BY DEF Init

(* A step is one of the part, or leaves all of its state alone.            *)
LEMMA PartsGo ==
  [Next]_partsVars =>
    /\ [StagingNext]_stagingVars /\ [CheckNext]_checkVars
    /\ [VolumesNext]_volumeVars /\ [ServerNext]_serverVars
    /\ [SyncNext]_syncVars /\ [MailNext]_mailVars /\ [SieveNext]_sieveVars
    /\ [CfNext]_cfVars /\ [PgNext]_pgVars /\ [OdNext]_odVars
    /\ [UpgradeNext]_upgradeVars
BY DEF Next, partsVars, StagingGoes, StackCheckGoes, VolumesGoes, ServerGoes,
       SyncGoes, MailGoes, SieveGoes, ConfigFileGoes, PostgresGoes, DriveGoes,
       UpgradeGoes

(* No crash loop is reported as a start and nothing is reported as failed  *)
(* that has not crashed: what the script prints of each stack is right.    *)
THEOREM LoopsAreTold == Spec => []ResultsTellLoops
<1>1. ResultsTellLoops <=> CrashLoopReported /\ NoFalseAlarm /\ OneResultEach
  BY DEF ResultsTellLoops
<1> QED
  BY <1>1, PartsStart, PartsGo, ResultsTell, PTL DEF Spec

(* The safety of a deploy that ends: no secret, no process is left behind. *)
THEOREM DeployLeaves ==
  Spec => [](SecretsGone /\ WarnsOnlyOfStrays /\ NoStrays)
BY PartsStart, PartsGo, DeployCleansUp, PTL DEF Spec

(* Over any deploys the folders are in the hands they were declared for.   *)
THEOREM FoldersInHand == Spec => FoldersInRightHands
BY PartsStart, PartsGo, FoldersKeepTheirOwners, PTL
   DEF Spec, FoldersInRightHands

(* No command that replaces data loses it, wherever it is cut.             *)
THEOREM NoDataLost == Spec => DataKept
BY PartsStart, PartsGo, RowsOutliveUpgrade, DriveKeepsCopies, BinaryStaysWhole,
   PTL DEF Spec, DataKept

(* A service runs on the configuration of the last deploy that ended well, *)
(* and mail is signed with the keys the DNS has.                           *)
THEOREM ServicesInOrder == Spec => ServicesAsConfigured
BY PartsStart, PartsGo, ServesWhatWasDeployed, MailSignsRight, PTL
   DEF Spec, ServicesAsConfigured

(* What server create asks, a deploy reads and a hook gets agree.          *)
THEOREM ServerFilesAgree == Spec => ServerEnvSound
BY PartsStart, PartsGo, ServerFilesSound, PTL DEF Spec, ServerEnvSound

(* Whoever sets up a service moves only what it is asked to: the hooks of  *)
(* syncthing and stalwart and the script that sorts the mail implement     *)
(* what a hook promises, mounts are there before containers are, and no    *)
(* redirect takes the place of the owner's own script.                     *)
THEOREM HooksPromise == Spec => HooksKeepPromise
BY PartsStart, PartsGo, SyncHooksReconcile, FoldersBeforeMounts,
   MailHooksReconcile, SievePromise, ScriptIsRight, PTL
   DEF Spec, HooksKeepPromise

(* Every part keeps to its types, so what is read has been written, every  *)
(* counter is within its bound, and what a server answers is used only     *)
(* where it is a number or a login.                                        *)
THEOREM PartsTypes == Spec => []PartsTypeOK
<1>1. Init => part \in Parts
  BY DEF Init
<1>2. part \in Parts /\ [Next]_partsVars => (part \in Parts)'
  BY DEF Next, partsVars, StagingGoes, StackCheckGoes, VolumesGoes,
         ServerGoes, SyncGoes, MailGoes, SieveGoes, ConfigFileGoes,
         PostgresGoes, DriveGoes, UpgradeGoes
<1>3. PartsTypeOK <=>
        /\ part \in Parts
        /\ StagingTypeOK /\ CheckTypeOK /\ VolumesTypeOK /\ ServerTypeOK
        /\ SyncTypeOK /\ MailTypeOK /\ SieveTypeOK /\ CfTypeOK /\ PgTypeOK
        /\ OdTypeOK /\ UpgradeTypeOK
  BY DEF PartsTypeOK
<1> QED
  BY <1>1, <1>2, <1>3, PartsStart, PartsGo, DeployCleansUp, ResultsTell,
     FoldersKeepTheirOwners, ServerFilesSound, FoldersBeforeMounts,
     MailSignsRight, ScriptIsRight, ServesWhatWasDeployed, RowsOutliveUpgrade,
     DriveKeepsCopies, BinaryStaysWhole, PTL DEF Spec
=============================================================================
