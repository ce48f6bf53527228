---------------------------- MODULE DeployProofs ----------------------------
(* What Deploy's properties rest on, proved for every project, every       *)
(* server and every number of faults and edits.                            *)
EXTENDS Deploy, TLAPS

-----------------------------------------------------------------------------
(* Types.                                                                  *)

LEMMA PathTypes ==
  /\ StackNames \subseteq Paths /\ ConfigFiles \subseteq Paths
  /\ \A e \in Entries : /\ NameOf[e] \in StackNames
                        /\ ProjectOf[e] \in Projects
                        /\ Watch[e] \subseteq Paths
                        /\ HookWrites[e] \subseteq Paths
  /\ Listable \subseteq Entries
BY DeployAssumption DEF DeployAssumption, Paths

LEMMA Bounds == MaxEdits \in Nat /\ MaxFaults \in Nat
BY DeployAssumption DEF DeployAssumption

LEMMA InitTypes == Init => TypeOK
<1> SUFFICES ASSUME Init PROVE TypeOK
  OBVIOUS
<1>1. NoFiles \in [Paths -> Content] /\ First \in Versions
  BY DeployAssumption DEF DeployAssumption, NoFiles, Content
<1>2. local \in [Paths -> Content]
  BY <1>1 DEF Init, Content
<1>3. before \in [Projects -> [Paths -> Content]]
  BY <1>1 DEF Init, NoSums
<1>4. loaded \in [Entries -> [Paths -> Content]]
  BY <1>1 DEF Init
<1>5. edits \in 0..MaxEdits /\ faults \in 0..MaxFaults
  BY Bounds DEF Init
<1> QED
  BY <1>1, <1>2, <1>3, <1>4, <1>5 DEF Init, TypeOK, Phases

(* A deploy that ends keeps the types of what it does not touch.           *)
LEMMA EndTypes ==
  ASSUME TypeOK, NEW result \in {"ok", "failed"}, End(result),
         remote' \in [Paths -> Content], running' \subseteq Entries,
         loaded' \in [Entries -> [Paths -> Content]], faults' \in 0..MaxFaults
  PROVE  TypeOK'
BY DEF TypeOK, End, Content, NoFiles, NoSums, Phases,
    projectVars

LEMMA StepTypes == TypeOK /\ [Next]_vars => TypeOK'
<1> SUFFICES ASSUME TypeOK, [Next]_vars PROVE TypeOK'
  OBVIOUS
<1> USE DEF projectVars, serverVars, runVars, sumVars, deployVars, boundVars,
            Content, Phases
<1>1. CASE \E m \in Modes : Request(m[1], m[2])
  BY <1>1 DEF TypeOK, Request, GoTo, Modes
<1>2. CASE \E m \in Modes : Refuse(m[1], m[2])
  BY <1>2 DEF TypeOK, Refuse
<1>3. CASE ReadConfig
  BY <1>3 DEF TypeOK, ReadConfig, GoTo
<1>4. CASE TargetGone \/ StageFails \/ CleanupFailed \/ UpsFailed
  BY <1>4, EndTypes
  DEF TypeOK, TargetGone, StageFails, CleanupFailed, UpsFailed
<1>5. CASE Stage
  BY <1>5 DEF TypeOK, Stage, GoTo
<1>6. CASE BeforeHooksDone \/ StackSyncsDone
  BY <1>6 DEF TypeOK, BeforeHooksDone, StackSyncsDone, GoTo
<1>7. CASE Mkdir
  BY <1>7 DEF TypeOK, Mkdir, StaleNames
<1>8. CASE CleanupDone \/ Prepare \/ UpsDone
  BY <1>8 DEF TypeOK, CleanupDone, Prepare, UpsDone, GoTo
<1>9. CASE RootSync
  BY <1>9, PathTypes DEF TypeOK, RootSync, Synced, GoTo
<1>10. CASE RootSyncFails
  BY <1>10, PathTypes, EndTypes, Bounds
  DEF TypeOK, RootSyncFails, Synced, Fault
<1>11. CASE Finish
  BY <1>11, EndTypes DEF TypeOK, Finish
<1>12. CASE Abort
  BY <1>12, EndTypes, Bounds DEF TypeOK, Abort, Fault
<1>13. ASSUME NEW n \in StackNames, CleanStale(n) PROVE TypeOK'
  BY <1>13, PathTypes DEF TypeOK, CleanStale
<1>14. ASSUME NEW n \in StackNames, CleanStaleFails(n) PROVE TypeOK'
  BY <1>14, PathTypes, Bounds DEF TypeOK, CleanStaleFails, Fault
<1>15. ASSUME NEW e \in Entries, BeforeHook(e) PROVE TypeOK'
  BY <1>15, PathTypes DEF TypeOK, BeforeHook
<1>16. ASSUME NEW e \in Entries, ChecksumBefore(e) PROVE TypeOK'
  <2>1. PICK unread \in SUBSET Watch[e] :
          /\ Unread(e, unread)
          /\ before' = [before EXCEPT ![ProjectOf[e]] = Checksums(e, unread)]
    BY <1>16 DEF ChecksumBefore
  <2>2. Checksums(e, unread) \in [Paths -> Content]
    BY DEF TypeOK, Checksums
  <2>3. before' \in [Projects -> [Paths -> Content]]
    BY <2>1, <2>2, PathTypes DEF TypeOK
  <2>4. blind' \in BOOLEAN
    BY <2>1, Zenon DEF TypeOK, Unread
  <2>5. faults' \in 0..MaxFaults
    BY <2>1, Bounds DEF TypeOK, Unread, Fault
  <2> QED
    BY <1>16, <2>3, <2>4, <2>5 DEF TypeOK, ChecksumBefore
<1>17. ASSUME NEW e \in Entries, StackSync(e) PROVE TypeOK'
  BY <1>17, PathTypes DEF TypeOK, StackSync
<1>18. ASSUME NEW e \in Entries, StackSyncFails(e) PROVE TypeOK'
  BY <1>18, PathTypes, EndTypes, Bounds DEF TypeOK, StackSyncFails, Fault
<1>19. ASSUME NEW e \in Entries, ChecksumAfter(e) PROVE TypeOK'
  <2>1. blind' \in BOOLEAN
    BY <1>19, Zenon DEF TypeOK, ChecksumAfter, Unread
  <2>2. faults' \in 0..MaxFaults
    BY <1>19, Bounds DEF TypeOK, ChecksumAfter, Unread, Fault
  <2>3. restart' \subseteq Projects
    BY <1>19, PathTypes DEF TypeOK, ChecksumAfter
  <2> QED
    BY <1>19, <2>1, <2>2, <2>3 DEF TypeOK, ChecksumAfter
<1>20. ASSUME NEW e \in Entries, Up(e) PROVE TypeOK'
  <2>1. loaded' \in [Entries -> [Paths -> Content]]
    <3>1. OnDisk(e) \in [Paths -> Content]
      BY DEF TypeOK, OnDisk
    <3> QED
      BY <1>20, <3>1 DEF TypeOK, Up
  <2>2. blind' \in BOOLEAN
    BY <1>20, Zenon DEF TypeOK, Up
  <2>3. faults' \in 0..MaxFaults
    BY <1>20, Bounds DEF TypeOK, Up, Fault
  <2> QED
    BY <1>20, <2>1, <2>2, <2>3 DEF TypeOK, Up
<1>21. ASSUME NEW e \in Entries, UpFails(e) PROVE TypeOK'
  BY <1>21, Bounds DEF TypeOK, UpFails, OnDisk, Fault
<1>22. ASSUME NEW e \in Entries, AfterHook(e) PROVE TypeOK'
  <2>1. failed' \in BOOLEAN
    BY <1>22, Zenon DEF TypeOK, AfterHook
  <2>2. faults' \in 0..MaxFaults
    BY <1>22, Bounds DEF TypeOK, AfterHook, Fault
  <2> QED
    BY <1>22, <2>1, <2>2 DEF TypeOK, AfterHook
<1>23. CASE \E p \in Paths, c \in Content : EditFile(p, c)
  BY <1>23, Bounds DEF TypeOK, EditFile, Edited
<1>24. CASE \E es \in SUBSET Listable : EditConfig(es)
  BY <1>24, Bounds DEF TypeOK, EditConfig, Edited
<1>25. CASE LoseConfig
  <2>1. config' = {} /\ configFound' = FALSE /\ edits' \in 0..MaxEdits
    BY <1>25, Bounds DEF TypeOK, LoseConfig, Edited
  <2> QED
    BY <1>25, <2>1 DEF TypeOK, LoseConfig
<1>26. ASSUME NEW e \in Entries, HandRun(e) PROVE TypeOK'
  BY <1>26, Bounds DEF TypeOK, HandRun, OnDisk, Edited
<1>27. CASE UNCHANGED vars
  BY <1>27 DEF TypeOK, vars
<1> QED
  BY <1>1, <1>2, <1>3, <1>4, <1>5, <1>6, <1>7, <1>8, <1>9, <1>10, <1>11,
     <1>12, <1>13, <1>14, <1>15, <1>16, <1>17, <1>18, <1>19, <1>20, <1>21,
     <1>22, <1>23, <1>24, <1>25, <1>26, <1>27
  DEF Next, DeployStep, Environment

(* Every reachable state is well typed.                                    *)
THEOREM TypeCorrect == Spec => []TypeOK
BY InitTypes, StepTypes, PTL DEF Spec

-----------------------------------------------------------------------------
(* The inductive invariant: what holds in every phase.                     *)

Started == phase \notin {"idle", "preflight"}

(* The deploy works with the list it has read, or with the one stack of it *)
(* that was asked for; the cleanup only ever runs on a whole list.         *)
Scope ==
  /\ Started =>
       /\ mode = "full" => sel = all
       /\ mode = "single" => \A e \in sel : NameOf[e] = target
       /\ ~found => all = {}
  /\ phase = "cleanup" => mode = "full" /\ found
  /\ phase = "idle" => mode = "full"

(* What is staged for a stack reaches the server before any stack starts.  *)
ConfigSynced ==
  \A p \in ConfigFiles :
    staged[p] # None \/ (mode = "full" /\ found) => remote[p] = staged[p]

InSync ==
  /\ Started /\ phase # "stage" => \A n \in Names(sel) : staged[n] # None
  /\ phase = "stackSync" =>
       /\ ConfigSynced
       /\ \A e \in sel \ todo : remote[NameOf[e]] = staged[NameOf[e]]
  /\ SyncedBeforeUp

(* The stacks the loop has started are up.                                 *)
UpSoFar ==
  /\ phase = "up" /\ ~failed /\ Apart(sel) => sel \ todo \subseteq running
  /\ AllUpBeforeAfterHooks

(* The cleanup has left of stack n only what runs under a listed project.  *)
HasGone(n) ==
  /\ \A e \in running : NameOf[e] = n => ProjectOf[e] \in Protected(all)
  /\ remote[n] # None => Skipped(n)

Cleaned ==
  /\ phase = "cleanup" /\ ~failed =>
       \A n \in StackNames \ (Names(all) \cup stale) : HasGone(n)
  /\ /\ phase \in {"rootSync", "stackSync", "sumAfter", "up", "after"}
     /\ mode = "full" /\ found
     => \A n \in StackNames \ Names(all) : HasGone(n)

IInv == TypeOK /\ Scope /\ InSync /\ UpSoFar /\ Cleaned
-----------------------------------------------------------------------------
(* The steps that end a deploy, and those of others: most of the invariant *)
(* speaks of neither.                                                      *)

Ends ==
  \/ TargetGone \/ StageFails \/ CleanupFailed \/ RootSyncFails
  \/ \E e \in Entries : StackSyncFails(e)
  \/ UpsFailed \/ Finish \/ Abort

Edits ==
  \/ \E p \in Paths, c \in Content : EditFile(p, c)
  \/ \E es \in SUBSET Listable : EditConfig(es)
  \/ LoseConfig

LEMMA EndsIdle == Ends => phase' = "idle" /\ mode' = "full"
BY DEF Ends, TargetGone, StageFails, CleanupFailed, RootSyncFails,
       StackSyncFails, UpsFailed, Finish, Abort, End

LEMMA EditsApart == Edits => UNCHANGED <<deployVars, serverVars>>
BY DEF Edits, EditFile, EditConfig, LoseConfig

(* The three parts that speak of the phases after the files are staged.    *)
LEMMA EarlyHolds ==
  ASSUME phase' \in {"idle", "preflight", "stage"}
  PROVE  InSync' /\ UpSoFar' /\ Cleaned'
BY DEF Started, InSync, SyncedBeforeUp, UpSoFar, AllUpBeforeAfterHooks, Cleaned

LEMMA ScopeStep ==
  ASSUME Scope, Next, ~Ends, ~Edits
  PROVE  Scope'
<1> USE DEF runVars, deployVars, GoTo, Scope, Started
<1>1. CASE \/ \E m \in Modes : Request(m[1], m[2]) \/ Refuse(m[1], m[2])
           \/ \E e \in Entries : HandRun(e)
  BY <1>1 DEF Request, Refuse, HandRun
<1>2. CASE ReadConfig
  BY <1>2 DEF ReadConfig
<1>3. CASE \/ Stage \/ BeforeHooksDone \/ StackSyncsDone \/ Mkdir
           \/ CleanupDone \/ RootSync \/ Prepare \/ UpsDone
  BY <1>3 DEF Stage, BeforeHooksDone, StackSyncsDone, Mkdir, CleanupDone,
              RootSync, Prepare, UpsDone
<1>4. CASE \E n \in StackNames : CleanStale(n) \/ CleanStaleFails(n)
  BY <1>4 DEF CleanStale, CleanStaleFails
<1>5. CASE \E e \in Entries :
             \/ BeforeHook(e) \/ ChecksumBefore(e) \/ StackSync(e)
             \/ ChecksumAfter(e) \/ Up(e) \/ UpFails(e) \/ AfterHook(e)
  BY <1>5 DEF BeforeHook, ChecksumBefore, StackSync, ChecksumAfter, Up,
              UpFails, AfterHook
<1> QED
  BY <1>1, <1>2, <1>3, <1>4, <1>5
  DEF Next, DeployStep, Environment, Ends, Edits

LEMMA InSyncStep ==
  ASSUME TypeOK, Scope, InSync, Next, ~Ends, ~Edits
  PROVE  InSync'
<1> USE DEF runVars, deployVars, serverVars, GoTo
<1>1. CASE \/ \E m \in Modes : Request(m[1], m[2]) \/ Refuse(m[1], m[2])
           \/ \E e \in Entries : HandRun(e)
           \/ ReadConfig
  <2>1. phase' \in {"idle", "preflight", "stage"}
    BY <1>1 DEF Request, Refuse, HandRun, ReadConfig
  <2> QED
    BY <2>1, EarlyHolds
<1>2. CASE Stage
  <2>1. \A n \in Names(sel) : n \in Paths /\ staged'[n] = local[n]
    BY <1>2, PathTypes DEF Stage, Names, TypeOK
  <2> QED
    BY <1>2, <2>1 DEF Stage, InSync, SyncedBeforeUp, Started, Names
<1>3. ASSUME NEW e \in Entries, BeforeHook(e) PROVE InSync'
  <2>1. \A n \in StackNames : staged'[n] = staged[n]
    BY <1>3, PathTypes, DeployAssumption DEF BeforeHook, DeployAssumption
  <2>2. Names(sel) \subseteq StackNames
    BY PathTypes DEF Names, TypeOK
  <2> QED
    BY <1>3, <2>1, <2>2
    DEF BeforeHook, InSync, SyncedBeforeUp, Started, Names
<1>4. CASE BeforeHooksDone \/ Mkdir \/ CleanupDone
  BY <1>4
  DEF BeforeHooksDone, Mkdir, CleanupDone, InSync, SyncedBeforeUp, Started,
      Names
<1>5. CASE \E e \in Entries : ChecksumBefore(e)
  BY <1>5 DEF ChecksumBefore, InSync, SyncedBeforeUp, Started, Names
<1>6. CASE \E n \in StackNames : CleanStale(n) \/ CleanStaleFails(n)
  BY <1>6
  DEF CleanStale, CleanStaleFails, InSync, SyncedBeforeUp, Started, Names
<1>7. CASE RootSync
  <2>1. \A p \in ConfigFiles : remote'[p] = Synced(p)
    BY <1>7, PathTypes DEF RootSync
  <2> QED
    BY <1>7, <2>1
    DEF RootSync, Synced, Deletes, InSync, ConfigSynced, SyncedBeforeUp,
        Started, Names
<1>8. ASSUME NEW e \in Entries, StackSync(e) PROVE InSync'
  <2>1. /\ remote'[NameOf[e]] = staged[NameOf[e]]
        /\ \A p \in Paths \ {NameOf[e]} : remote'[p] = remote[p]
    BY <1>8, PathTypes DEF StackSync, TypeOK
  <2>2. \A p \in ConfigFiles : remote'[p] = remote[p]
    BY <2>1, PathTypes, DeployAssumption DEF DeployAssumption
  <2>3. \A f \in sel \ todo' : remote'[NameOf[f]] = staged[NameOf[f]]
    BY <1>8, <2>1, PathTypes DEF StackSync, InSync, TypeOK
  <2> QED
    BY <1>8, <2>2, <2>3
    DEF StackSync, InSync, ConfigSynced, SyncedBeforeUp, Started, Names
<1>9. CASE StackSyncsDone
  BY <1>9
  DEF StackSyncsDone, InSync, ConfigSynced, SyncedBeforeUp, Started, Names
<1>10. CASE Prepare \/ UpsDone
  BY <1>10 DEF Prepare, UpsDone, InSync, SyncedBeforeUp, Started, Names
<1>11. CASE \E e \in Entries :
              ChecksumAfter(e) \/ Up(e) \/ UpFails(e) \/ AfterHook(e)
  BY <1>11
  DEF ChecksumAfter, Up, UpFails, AfterHook, InSync, SyncedBeforeUp, Started,
      Names
<1> QED
  BY <1>1, <1>2, <1>3, <1>4, <1>5, <1>6, <1>7, <1>8, <1>9, <1>10, <1>11
  DEF Next, DeployStep, Environment, Ends, Edits

LEMMA UpSoFarStep ==
  ASSUME TypeOK, UpSoFar, Next, ~Ends, ~Edits
  PROVE  UpSoFar'
<1> USE DEF runVars, deployVars, serverVars, GoTo
<1>1. CASE \/ \E m \in Modes : Request(m[1], m[2]) \/ Refuse(m[1], m[2])
           \/ \E e \in Entries : HandRun(e)
           \/ ReadConfig
  <2>1. phase' \in {"idle", "preflight", "stage"}
    BY <1>1 DEF Request, Refuse, HandRun, ReadConfig
  <2> QED
    BY <2>1, EarlyHolds
<1>2. CASE \/ Stage \/ BeforeHooksDone \/ StackSyncsDone \/ Mkdir
           \/ CleanupDone \/ RootSync
  BY <1>2
  DEF Stage, BeforeHooksDone, StackSyncsDone, Mkdir, CleanupDone, RootSync,
      UpSoFar, AllUpBeforeAfterHooks
<1>3. CASE \/ \E n \in StackNames : CleanStale(n) \/ CleanStaleFails(n)
           \/ \E e \in Entries : BeforeHook(e) \/ ChecksumBefore(e)
                                   \/ StackSync(e) \/ ChecksumAfter(e)
  BY <1>3
  DEF CleanStale, CleanStaleFails, BeforeHook, ChecksumBefore, StackSync,
      ChecksumAfter, UpSoFar, AllUpBeforeAfterHooks
<1>4. CASE Prepare
  BY <1>4 DEF Prepare, UpSoFar, AllUpBeforeAfterHooks
<1>5. ASSUME NEW e \in Entries, Up(e) PROVE UpSoFar'
  <2> SUFFICES ASSUME ~failed, Apart(sel) PROVE sel \ todo' \subseteq running'
    BY <1>5 DEF Up, UpSoFar, AllUpBeforeAfterHooks, Apart
  <2>1. sel \cap InTheWay(e) = {}
    BY <1>5 DEF InTheWay, Up, Apart, TypeOK
  <2> QED
    BY <1>5, <2>1 DEF Up, UpSoFar
<1>6. CASE \E e \in Entries : UpFails(e)
  BY <1>6 DEF UpFails, UpSoFar, AllUpBeforeAfterHooks
<1>7. CASE UpsDone
  BY <1>7 DEF UpsDone, UpSoFar, AllUpBeforeAfterHooks, Apart
<1>8. CASE \E e \in Entries : AfterHook(e)
  BY <1>8 DEF AfterHook, UpSoFar, AllUpBeforeAfterHooks, Apart
<1> QED
  BY <1>1, <1>2, <1>3, <1>4, <1>5, <1>6, <1>7, <1>8
  DEF Next, DeployStep, Environment, Ends, Edits
LEMMA CleanedStep ==
  ASSUME TypeOK, Scope, Cleaned, Next, ~Ends, ~Edits
  PROVE  Cleaned'
<1> USE DEF runVars, deployVars, serverVars, GoTo
<1>1. CASE \/ \E m \in Modes : Request(m[1], m[2]) \/ Refuse(m[1], m[2])
           \/ \E e \in Entries : HandRun(e)
           \/ ReadConfig
  <2>1. phase' \in {"idle", "preflight", "stage"}
    BY <1>1 DEF Request, Refuse, HandRun, ReadConfig
  <2> QED
    BY <2>1, EarlyHolds
<1>2. CASE \/ Stage \/ BeforeHooksDone
           \/ \E e \in Entries : BeforeHook(e) \/ ChecksumBefore(e)
  BY <1>2 DEF Stage, BeforeHooksDone, BeforeHook, ChecksumBefore, Cleaned
<1>3. CASE Mkdir
  <2>1. phase' = "cleanup" =>
          \A n \in StackNames \ (Names(all) \cup stale') : HasGone(n)
    BY <1>3 DEF Mkdir, StaleNames, Names, HasGone, TypeOK
  <2>2. phase' # "cleanup" => phase' = "rootSync" /\ ~(mode = "full" /\ found)
    BY <1>3 DEF Mkdir
  <2> QED
    BY <1>3, <2>1, <2>2
    DEF Mkdir, Cleaned, HasGone, Skipped, Protected, Names
<1>4. ASSUME NEW n \in StackNames, CleanStale(n) PROVE Cleaned'
  <2>1. \A m \in StackNames : Skipped(m) => Skipped(m)'
    BY <1>4 DEF CleanStale, Skipped, Stoppable, TypeOK
  <2>2. HasGone(n)'
    <3>1. \A e \in running' : NameOf[e] = n => ProjectOf[e] \in Protected(all')
      BY <1>4 DEF CleanStale, Stoppable
    <3>2. remote'[n] # None => Skipped(n)'
      BY <1>4, <2>1, PathTypes DEF CleanStale, TypeOK
    <3> QED
      BY <3>1, <3>2 DEF HasGone
  <2>3. ASSUME NEW m \in StackNames, m # n, HasGone(m) PROVE HasGone(m)'
    BY <1>4, <2>1, <2>3, PathTypes DEF CleanStale, HasGone, TypeOK
  <2> QED
    BY <1>4, <2>2, <2>3 DEF CleanStale, Cleaned
<1>5. CASE \E n \in StackNames : CleanStaleFails(n)
  BY <1>5 DEF CleanStaleFails, Cleaned
<1>6. CASE CleanupDone
  BY <1>6
  DEF CleanupDone, Scope, Cleaned, HasGone, Skipped, Protected, Names
<1>7. CASE RootSync
  <2>1. \A n \in StackNames : remote'[n] = remote[n]
    BY <1>7, PathTypes, DeployAssumption DEF RootSync, DeployAssumption
  <2> QED
    BY <1>7, <2>1
    DEF RootSync, Cleaned, HasGone, Skipped, Protected, Names
<1>8. ASSUME NEW e \in Entries, StackSync(e) PROVE Cleaned'
  <2>1. NameOf[e] \in Names(sel)
    BY <1>8 DEF StackSync, Names, TypeOK
  <2>2. mode = "full" =>
          \A n \in StackNames \ Names(all) : remote'[n] = remote[n]
    BY <1>8, <2>1, PathTypes DEF StackSync, Scope, Started, TypeOK
  <2> QED
    BY <1>8, <2>2
    DEF StackSync, Cleaned, HasGone, Skipped, Protected, Names
<1>9. CASE StackSyncsDone \/ Prepare \/ UpsDone
  BY <1>9
  DEF StackSyncsDone, Prepare, UpsDone, Cleaned, HasGone, Skipped, Protected,
      Names
<1>10. CASE \E e \in Entries : ChecksumAfter(e) \/ AfterHook(e)
  BY <1>10
  DEF ChecksumAfter, AfterHook, Cleaned, HasGone, Skipped, Protected, Names
<1>11. ASSUME NEW e \in Entries, Up(e) \/ UpFails(e) PROVE Cleaned'
  <2>1. /\ phase = "up" /\ phase' = "up"
        /\ UNCHANGED <<mode, found, all, remote>>
    BY <1>11 DEF Up, UpFails
  <2>2. mode = "full" => NameOf[e] \in Names(all)
    BY <1>11 DEF Up, UpFails, Scope, Started, Names, TypeOK
  <2>3. \A r \in running \cup running' :
          NameOf[r] # NameOf[e] => (r \in running <=> r \in running')
    BY <1>11 DEF Up, UpFails, InTheWay
  <2>4. ASSUME mode = "full", found, NEW n \in StackNames \ Names(all)
        PROVE  HasGone(n)'
    <3>1. HasGone(n) /\ n # NameOf[e]
      BY <2>1, <2>2, <2>4 DEF Cleaned
    <3> QED
      BY <2>1, <2>3, <3>1 DEF HasGone, Skipped
  <2> QED
    BY <2>1, <2>4 DEF Cleaned
<1> QED
  BY <1>1, <1>2, <1>3, <1>4, <1>5, <1>6, <1>7, <1>8, <1>9, <1>10, <1>11
  DEF Next, DeployStep, Environment, Ends, Edits

LEMMA Initially == Init => IInv
<1> SUFFICES ASSUME Init PROVE IInv
  OBVIOUS
<1>1. phase = "idle" /\ mode = "full"
  BY DEF Init
<1> QED
  BY <1>1, InitTypes
  DEF IInv, Scope, Started, InSync, SyncedBeforeUp, UpSoFar,
      AllUpBeforeAfterHooks, Cleaned

LEMMA Inductive == IInv /\ [Next]_vars => IInv'
<1> SUFFICES ASSUME IInv, [Next]_vars PROVE IInv'
  OBVIOUS
<1>1. CASE Ends
  BY <1>1, EndsIdle, EarlyHolds, StepTypes DEF IInv, Scope, Started
<1>2. CASE Edits \/ UNCHANGED vars
  <2>1. UNCHANGED <<deployVars, serverVars>>
    BY <1>2, EditsApart DEF vars
  <2> QED
    BY <2>1, StepTypes
    DEF IInv, Scope, Started, InSync, ConfigSynced, SyncedBeforeUp, UpSoFar,
        AllUpBeforeAfterHooks, Apart, Cleaned, HasGone, Skipped, Protected,
        Names, deployVars, runVars, serverVars
<1>3. CASE Next /\ ~Ends /\ ~Edits
  BY <1>3, StepTypes, ScopeStep, InSyncStep, UpSoFarStep, CleanedStep DEF IInv
<1> QED
  BY <1>1, <1>2, <1>3

(* The invariant holds in every reachable state.                           *)
THEOREM InvariantHolds == Spec => []IInv
BY Initially, Inductive, PTL DEF Spec

-----------------------------------------------------------------------------
(* The properties.                                                         *)

(* No stack is started before all that was staged is on the server.        *)
THEOREM SyncedFirst == Spec => []SyncedBeforeUp
<1>1. IInv => SyncedBeforeUp
  BY DEF IInv, InSync
<1> QED
  BY <1>1, InvariantHolds, PTL

(* The after hooks find every stack up, whatever failed on the way.        *)
THEOREM UpFirst == Spec => []AllUpBeforeAfterHooks
<1>1. IInv => AllUpBeforeAfterHooks
  BY DEF IInv, UpSoFar
<1> QED
  BY <1>1, InvariantHolds, PTL
(* The steps that change the server.                                       *)
LEMMA ServerSteps ==
  ASSUME [Next]_vars
  PROVE  \/ UNCHANGED serverVars
         \/ \E n \in StackNames : CleanStale(n) \/ CleanStaleFails(n)
         \/ RootSync \/ RootSyncFails
         \/ \E e \in Entries : StackSync(e) \/ StackSyncFails(e)
         \/ \E e \in Entries : Up(e) \/ UpFails(e)
         \/ \E e \in Entries : HandRun(e)
<1> USE DEF serverVars
<1>1. CASE UNCHANGED vars \/ Edits
  BY <1>1, EditsApart DEF vars
<1>2. CASE \/ \E m \in Modes : Request(m[1], m[2]) \/ Refuse(m[1], m[2])
           \/ ReadConfig \/ Stage \/ BeforeHooksDone \/ StackSyncsDone
           \/ Mkdir \/ CleanupDone \/ Prepare \/ UpsDone
  BY <1>2
  DEF Request, Refuse, ReadConfig, Stage, BeforeHooksDone, StackSyncsDone,
      Mkdir, CleanupDone, Prepare, UpsDone
<1>3. CASE \E e \in Entries : \/ BeforeHook(e) \/ ChecksumBefore(e)
                              \/ ChecksumAfter(e) \/ AfterHook(e)
  BY <1>3 DEF BeforeHook, ChecksumBefore, ChecksumAfter, AfterHook
<1>4. CASE \/ TargetGone \/ StageFails \/ CleanupFailed \/ UpsFailed \/ Finish
           \/ Abort
  BY <1>4 DEF TargetGone, StageFails, CleanupFailed, UpsFailed, Finish, Abort
<1> QED
  BY <1>1, <1>2, <1>3, <1>4 DEF Next, DeployStep, Environment, Edits

(* No deploy stops a listed stack, except to start it: not even through a  *)
(* container somebody labelled with a listed stack's project.              *)
THEOREM NeverCleaned == Spec => ListedNeverCleaned
<1> DEFINE Kept == \A e \in all \cap (running \ running') :
                     /\ phase = "up"
                     /\ \E f \in todo \ todo' : f = e \/ ~Apart({e, f})
<1>1. ASSUME [Next]_vars PROVE Kept
  <2>1. ASSUME NEW n \in StackNames, CleanStale(n) \/ CleanStaleFails(n)
        PROVE  Kept
    <3>1. \A e \in running \ running' : ProjectOf[e] \notin Protected(all)
      BY <2>1 DEF CleanStale, CleanStaleFails, Stoppable
    <3>2. \A e \in all : ProjectOf[e] \in Protected(all)
      BY DEF Protected
    <3> QED
      BY <3>1, <3>2
  <2>2. ASSUME NEW e \in Entries, Up(e) \/ UpFails(e) PROVE Kept
    <3>1. phase = "up" /\ e \in todo \ todo'
      BY <2>2 DEF Up, UpFails
    <3>2. \A r \in running \ running' : r = e \/ r \in InTheWay(e)
      BY <2>2 DEF Up, UpFails
    <3>3. \A r \in InTheWay(e) : ~Apart({r, e})
      BY DEF InTheWay, Apart
    <3> QED
      BY <3>1, <3>2, <3>3
  <2>3. CASE running \subseteq running'
    BY <2>3
  <2> QED
    BY <1>1, <2>1, <2>2, <2>3, ServerSteps
    DEF serverVars, RootSync, RootSyncFails, StackSync, StackSyncFails, HandRun
<1>2. [Next]_vars => [Kept]_vars
  BY <1>1
<1> QED
  BY <1>2, PTL DEF Spec, ListedNeverCleaned

(* A deploy of one stack reaches no other.                                 *)
THEOREM SingleStays == Spec => SingleStaysInItsStack
<1> DEFINE Stays ==
      mode = "single" =>
        /\ \A n \in StackNames \ {target} : remote'[n] = remote[n]
        /\ \A p \in ConfigFiles : remote[p] # None => remote'[p] # None
        /\ \A e \in Entries : NameOf[e] # target =>
             /\ e \in running' <=> e \in running
             /\ loaded'[e] = loaded[e]
<1>1. ASSUME IInv, [Next]_vars, mode = "single" PROVE Stays
  <2> USE DEF IInv
  <2>1. \A e \in sel : NameOf[e] = target \/ phase = "preflight"
    BY <1>1 DEF Scope, Started
  <2>2. \A p \in ConfigFiles : remote[p] # None => Synced(p) # None
    BY <1>1 DEF Synced, Deletes
  <2>3. CASE UNCHANGED serverVars
    BY <2>3 DEF serverVars
  <2>4. CASE RootSync \/ RootSyncFails
    <3>1. /\ \A n \in StackNames : remote'[n] = remote[n]
          /\ \A p \in ConfigFiles : remote'[p] \in {remote[p], Synced(p)}
      BY <2>4, PathTypes, DeployAssumption
      DEF RootSync, RootSyncFails, DeployAssumption
    <3>2. UNCHANGED <<running, loaded>>
      BY <2>4 DEF RootSync, RootSyncFails
    <3> QED
      BY <3>1, <3>2, <2>2
  <2>5. ASSUME NEW e \in Entries, StackSync(e) \/ StackSyncFails(e)
        PROVE  Stays
    <3>1. NameOf[e] = target /\ UNCHANGED <<running, loaded>>
      BY <1>1, <2>1, <2>5 DEF StackSync, StackSyncFails, TypeOK
    <3>2. \A p \in Paths \ {NameOf[e]} : remote'[p] = remote[p]
      BY <1>1, <2>5 DEF StackSync, StackSyncFails, TypeOK
    <3>3. \A p \in ConfigFiles : p \in Paths /\ p # NameOf[e]
      BY PathTypes, DeployAssumption DEF DeployAssumption
    <3> QED
      BY <3>1, <3>2, <3>3, PathTypes
  <2>6. ASSUME NEW e \in Entries, Up(e) \/ UpFails(e) PROVE Stays
    <3>1. NameOf[e] = target /\ remote' = remote
      BY <1>1, <2>1, <2>6 DEF Up, UpFails, TypeOK
    <3>2. \A f \in Entries : NameOf[f] # NameOf[e] =>
            (f \in running' <=> f \in running) /\ loaded'[f] = loaded[f]
      BY <1>1, <2>6 DEF Up, UpFails, InTheWay, TypeOK
    <3> QED
      BY <3>1, <3>2
  <2> QED
    BY <1>1, <2>3, <2>4, <2>5, <2>6, ServerSteps
    DEF Scope, CleanStale, CleanStaleFails, HandRun
<1>2. IInv /\ [Next]_vars => [Stays]_vars
  BY <1>1
<1> QED
  BY <1>2, InvariantHolds, PTL DEF Spec, SingleStaysInItsStack

(* Without a config.json nothing goes away.                                *)
THEOREM NothingDeleted == Spec => NoConfigDeletesNothing
<1> DEFINE Keeps ==
      phase \notin {"idle", "preflight"} /\ ~found =>
        /\ running \subseteq running'
        /\ \A p \in Paths : remote[p] # None => remote'[p] # None
<1>1. ASSUME IInv, [Next]_vars, phase \notin {"idle", "preflight"}, ~found
      PROVE  Keeps
  <2> USE DEF IInv
  <2>1. sel = {} /\ todo = {} /\ phase # "cleanup"
    BY <1>1 DEF Scope, Started, TypeOK
  <2>2. \A p \in Paths : remote[p] # None => Synced(p) # None
    BY <1>1 DEF Synced, Deletes
  <2>3. CASE RootSync \/ RootSyncFails
    BY <2>2, <2>3 DEF RootSync, RootSyncFails
  <2> QED
    BY <1>1, <2>1, <2>3, ServerSteps
    DEF serverVars, CleanStale, CleanStaleFails, StackSync, StackSyncFails, Up,
        UpFails, HandRun
<1>2. IInv /\ [Next]_vars => [Keeps]_vars
  BY <1>1
<1> QED
  BY <1>2, InvariantHolds, PTL DEF Spec, NoConfigDeletesNothing

(* Of all the steps only the last of a deploy reports a success.           *)
LEMMA OnlyFinishSucceeds ==
  ASSUME [Next]_vars, Succeeds
  PROVE  Finish
<1>1. outcome' # outcome /\ outcome' = "ok"
  BY DEF Succeeds
<1> QED
  BY <1>1
  DEF Next, DeployStep, Environment, vars, deployVars, runVars, Request,
      Refuse, ReadConfig, TargetGone, Stage, StageFails, BeforeHooksDone,
      Mkdir, CleanupDone, CleanupFailed, RootSync, RootSyncFails,
      StackSyncsDone, Prepare, UpsDone, UpsFailed, Abort, CleanStale,
      CleanStaleFails, BeforeHook, ChecksumBefore, StackSync,
      StackSyncFails, ChecksumAfter, Up, UpFails, AfterHook, EditFile,
      EditConfig, LoseConfig, HandRun, End

(* A full deploy that succeeds leaves what config.json lists, and nothing  *)
(* of any other stack but what runs under a listed project.                *)
THEOREM Converges == Spec => SuccessConverges
<1> DEFINE Converged ==
      mode = "full" /\ found /\ Succeeds =>
        /\ Apart(all) => all \subseteq running
        /\ \A e \in running : NameOf[e] \in Names(all)
                               \/ ProjectOf[e] \in Protected(all)
        /\ \A n \in StackNames \ Names(all) : remote[n] # None => Skipped(n)
<1>1. ASSUME IInv, [Next]_vars, mode = "full", found, Succeeds PROVE Converged
  <2> USE DEF IInv
  <2>1. Finish
    BY <1>1, OnlyFinishSucceeds
  <2>2. phase = "after" /\ sel = all
    BY <1>1, <2>1 DEF Finish, Scope, Started
  <2>3. Apart(all) => all \subseteq running
    BY <1>1, <2>2 DEF UpSoFar, AllUpBeforeAfterHooks
  <2>4. \A n \in StackNames \ Names(all) : HasGone(n)
    BY <1>1, <2>2 DEF Cleaned
  <2>5. \A e \in running : NameOf[e] \in StackNames
    BY <1>1, PathTypes DEF TypeOK
  <2> QED
    BY <2>3, <2>4, <2>5 DEF HasGone
<1>2. IInv /\ [Next]_vars => [Converged]_vars
  BY <1>1
<1> QED
  BY <1>2, InvariantHolds, PTL DEF Spec, SuccessConverges

-----------------------------------------------------------------------------
(* What a deploy knows of the watched files of a stack that was up to date *)
(* when it began: nothing has moved up to the checksums, the checksums are *)
(* then what the stack has loaded, and from the second checksums on the    *)
(* stack either has loaded what the server has or is to be restarted.      *)

Loaded(e) == loaded[e] = OnDisk(e)
Remembered(e) == IF Watch[e] = {} THEN loaded[e] = NoFiles
                                  ELSE before[ProjectOf[e]] = loaded[e]

FreshEntry(e) ==
  /\ phase = "sumBefore" /\ e \notin todo => Remembered(e)
  /\ phase \in {"cleanup", "rootSync", "stackSync", "sumAfter"} =>
       Remembered(e)
  /\ phase = "sumAfter" /\ e \notin todo =>
       Loaded(e) \/ ProjectOf[e] \in restart
  /\ phase = "up" => Loaded(e) \/ ProjectOf[e] \in restart
  /\ phase = "up" /\ e \notin todo /\ ~failed => Loaded(e)
  /\ phase = "after" => Loaded(e)

FreshSoFar ==
  ~blind =>
    /\ phase \in {"preflight", "stage", "before", "sumBefore"} =>
         \A e \in wasFresh : Loaded(e)
    /\ \A e \in sel \cap wasFresh : OwnProject(e) => FreshEntry(e)

(* All that was asked of the server is on record, unless a call failed.    *)
LEMMA AllRead ==
  ASSUME NEW e \in Entries
  PROVE  /\ Checksums(e, {}) = OnDisk(e)
         /\ \A unread : Unread(e, unread) /\ ~blind' => unread = {}
         /\ Watch[e] = {} => OnDisk(e) = NoFiles
BY DEF Checksums, OnDisk, Unread, NoFiles

(* A step that leaves the server and what is known of it alone, and stays  *)
(* in its phase or goes on where nothing new is claimed.                   *)
LEMMA FreshKept ==
  ASSUME FreshSoFar, ~blind' => ~blind,
         UNCHANGED <<remote, loaded, wasFresh, sel, before, restart>>,
         phase' = phase, todo \subseteq todo', failed' = failed
  PROVE  FreshSoFar'
BY DEF FreshSoFar, FreshEntry, Loaded, Remembered, OnDisk, OwnProject

LEMMA FreshStep ==
  ASSUME TypeOK, FreshSoFar, [Next]_vars
  PROVE  FreshSoFar'
<1> USE DEF runVars, deployVars, serverVars, sumVars, GoTo
<1>1. CASE Ends
  BY <1>1, EndsIdle DEF FreshSoFar, FreshEntry
<1>2. CASE Edits \/ UNCHANGED vars
  BY <1>2, EditsApart, FreshKept DEF vars
<1>3. CASE \E e \in Entries : HandRun(e)
  BY <1>3 DEF HandRun, FreshSoFar, FreshEntry
<1>4. CASE \E m \in Modes : Request(m[1], m[2]) \/ Refuse(m[1], m[2])
  BY <1>4 DEF Request, Refuse, FreshSoFar, FreshEntry, Loaded, OnDisk
<1>5. CASE ReadConfig \/ Stage \/ \E e \in Entries : BeforeHook(e)
  BY <1>5 DEF ReadConfig, Stage, BeforeHook, FreshSoFar, FreshEntry, Loaded,
              OnDisk
<1>6. CASE BeforeHooksDone
  <2> SUFFICES ASSUME ~blind', NEW e \in sel \cap wasFresh,
                      e \notin todo'
               PROVE  loaded[e] = NoFiles /\ Watch[e] = {}
    BY <1>6 DEF BeforeHooksDone, FreshSoFar, FreshEntry, Loaded, OnDisk,
                Remembered
  <2>1. Watch[e] = {} /\ Loaded(e)
    BY <1>6 DEF BeforeHooksDone, FreshSoFar
  <2> QED
    BY <2>1, AllRead DEF Loaded, TypeOK
<1>7. ASSUME NEW f \in Entries, ChecksumBefore(f) PROVE FreshSoFar'
  <2> SUFFICES ASSUME ~blind' PROVE FreshSoFar'
    BY DEF FreshSoFar
  <2>1. before' = [before EXCEPT ![ProjectOf[f]] = OnDisk(f)]
    BY <1>7, AllRead DEF ChecksumBefore
  <2>2. ~blind /\ phase = "sumBefore" /\ f \in sel
    BY <1>7 DEF ChecksumBefore, Unread, TypeOK
  <2>3. ASSUME NEW e \in sel \cap wasFresh, OwnProject(e), e \notin todo'
        PROVE  Remembered(e)'
    <3>1. CASE e = f
      BY <1>7, <2>1, <2>2, <2>3, <3>1, AllRead, PathTypes
      DEF ChecksumBefore, FreshSoFar, Loaded, Remembered, TypeOK
    <3>2. CASE e # f
      BY <1>7, <2>1, <2>2, <2>3, <3>2
      DEF ChecksumBefore, FreshSoFar, FreshEntry, Remembered, OwnProject,
          TypeOK
    <3> QED
      BY <3>1, <3>2
  <2> QED
    BY <1>7, <2>2, <2>3
    DEF ChecksumBefore, FreshSoFar, FreshEntry, Loaded, OnDisk, OwnProject
<1>8. CASE Mkdir
  BY <1>8 DEF Mkdir, FreshSoFar, FreshEntry, Remembered, OwnProject
<1>9. CASE \/ \E n \in StackNames : CleanStale(n) \/ CleanStaleFails(n)
           \/ CleanupDone \/ RootSync \/ \E e \in Entries : StackSync(e)
  BY <1>9 DEF CleanStale, CleanStaleFails, CleanupDone, RootSync, StackSync,
              FreshSoFar, FreshEntry, Remembered, OwnProject
<1>10. CASE StackSyncsDone
  <2> SUFFICES ASSUME ~blind', NEW e \in sel \cap wasFresh, OwnProject(e)
               PROVE  /\ Remembered(e)
                      /\ e \notin todo' => Loaded(e)
    BY <1>10 DEF StackSyncsDone, FreshSoFar, FreshEntry, Loaded, OnDisk,
                 Remembered, OwnProject
  <2>1. Remembered(e)
    BY <1>10 DEF StackSyncsDone, FreshSoFar, FreshEntry
  <2>2. e \notin todo' => Watch[e] = {}
    BY <1>10 DEF StackSyncsDone
  <2> QED
    BY <2>1, <2>2, AllRead DEF Loaded, Remembered, TypeOK
<1>11. ASSUME NEW f \in Entries, ChecksumAfter(f) PROVE FreshSoFar'
  <2> SUFFICES ASSUME ~blind' PROVE FreshSoFar'
    BY DEF FreshSoFar
  <2>1. restart' = IF before[ProjectOf[f]] = OnDisk(f)
                   THEN restart ELSE restart \cup {ProjectOf[f]}
    BY <1>11, AllRead DEF ChecksumAfter
  <2>2. ~blind /\ phase = "sumAfter" /\ f \in todo
    BY <1>11 DEF ChecksumAfter, Unread
  <2>3. ASSUME NEW e \in sel \cap wasFresh, OwnProject(e), e \notin todo'
        PROVE  Loaded(e) \/ ProjectOf[e] \in restart'
    <3>1. CASE e = f
      BY <1>11, <2>1, <2>2, <2>3, <3>1, AllRead
      DEF ChecksumAfter, FreshSoFar, FreshEntry, Loaded, Remembered, TypeOK
    <3>2. CASE e # f
      BY <1>11, <2>1, <2>2, <2>3, <3>2
      DEF ChecksumAfter, FreshSoFar, FreshEntry
    <3> QED
      BY <3>1, <3>2
  <2> QED
    BY <1>11, <2>2, <2>3
    DEF ChecksumAfter, FreshSoFar, FreshEntry, Loaded, OnDisk, Remembered,
        OwnProject
<1>12. CASE Prepare
  BY <1>12 DEF Prepare, FreshSoFar, FreshEntry, Loaded, OnDisk, OwnProject
<1>13. ASSUME NEW f \in Entries, Up(f) PROVE FreshSoFar'
  <2> SUFFICES ASSUME ~blind' PROVE FreshSoFar'
    BY DEF FreshSoFar
  <2>1. ~blind /\ phase = "up" /\ phase' = "up" /\ failed' = failed
        /\ UNCHANGED <<remote, sel, wasFresh, restart>>
        /\ todo' = todo \ {f}
    BY <1>13 DEF Up
  <2>2. \/ loaded' = [loaded EXCEPT ![f] = OnDisk(f)]
        \/ loaded' = loaded /\ ProjectOf[f] \notin restart
    BY <1>13 DEF Up
  <2>3. ASSUME NEW e \in sel \cap wasFresh, OwnProject(e)
        PROVE  /\ Loaded(e)' \/ ProjectOf[e] \in restart
               /\ e \notin todo' /\ ~failed => Loaded(e)'
    BY <2>1, <2>2, <2>3
    DEF FreshSoFar, FreshEntry, Loaded, OnDisk, TypeOK
  <2> QED
    BY <2>1, <2>3 DEF FreshSoFar, FreshEntry, OwnProject
<1>14. ASSUME NEW f \in Entries, UpFails(f) PROVE FreshSoFar'
  <2>1. /\ phase = "up" /\ phase' = "up" /\ failed'
        /\ UNCHANGED <<remote, sel, wasFresh, restart, blind>>
    BY <1>14 DEF UpFails
  <2>2. \/ loaded' = [loaded EXCEPT ![f] = OnDisk(f)]
        \/ loaded' = loaded
    BY <1>14 DEF UpFails
  <2> QED
    BY <2>1, <2>2
    DEF FreshSoFar, FreshEntry, Loaded, OnDisk, OwnProject, TypeOK
<1>15. CASE UpsDone
  BY <1>15 DEF UpsDone, FreshSoFar, FreshEntry, Loaded, OnDisk, OwnProject
<1>16. CASE \E e \in Entries : AfterHook(e)
  BY <1>16 DEF AfterHook, FreshSoFar, FreshEntry, Loaded, OnDisk, OwnProject
<1> QED
  BY <1>1, <1>2, <1>3, <1>4, <1>5, <1>6, <1>7, <1>8, <1>9, <1>10, <1>11,
     <1>12, <1>13, <1>14, <1>15, <1>16
  DEF Next, DeployStep, Environment, Ends, Edits

(* A stack that was up to date with its watched files is so after every    *)
(* deploy that succeeds, whatever it watches and whoever changes it, if    *)
(* the server could be asked and no other entry runs as its project.       *)
THEOREM StaysFresh == Spec => FreshStaysFresh
<1> DEFINE Fresh == Succeeds /\ ~blind =>
                      \A e \in sel \cap wasFresh : OwnProject(e) => Loaded(e)
<1>1. Init => FreshSoFar
  BY DEF Init, FreshSoFar, FreshEntry
<1>2. FreshSoFar /\ [Next]_vars => [Fresh]_vars
  <2> SUFFICES ASSUME FreshSoFar, [Next]_vars, Succeeds, ~blind,
                      NEW e \in sel \cap wasFresh, OwnProject(e)
               PROVE  Loaded(e)
    OBVIOUS
  <2>1. Finish
    BY OnlyFinishSucceeds
  <2> QED
    BY <2>1 DEF Finish, FreshSoFar, FreshEntry
<1>3. TypeOK /\ FreshSoFar /\ [Next]_vars => FreshSoFar'
  BY FreshStep
<1>4. FreshStaysFresh <=> [][Fresh]_vars
  BY PTL DEF FreshStaysFresh, Loaded
<1> QED
  BY <1>1, <1>2, <1>3, <1>4, TypeCorrect, PTL DEF Spec
=============================================================================
