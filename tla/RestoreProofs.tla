--------------------------- MODULE RestoreProofs ---------------------------
(* What Restore's properties rest on, proved for every set of folders and  *)
(* every number of restores, failures and starts by others.                *)
EXTENDS Restore, TLAPS

-----------------------------------------------------------------------------
(* The inductive invariant.                                                *)

(* What this run has taken from f's place is still beside it.              *)
Keeps(f) == was[f] \in {None} \cup kept[f]

NotBegun(f) ==
  /\ place[f] = was[f] /\ temp[f] = run /\ stepKept[f] = None
  /\ f \notin done

Away(f) ==
  /\ place[f] = None /\ temp[f] = run
  /\ stepKept[f] = was[f] /\ Keeps(f) /\ f \in done

In(f) ==
  /\ place[f] = run /\ temp[f] = None
  /\ stepKept[f] = was[f] /\ Keeps(f) /\ f \in done

(* Before the swap the server has what it had, and only the swap and the   *)
(* rollback work on a folder.                                              *)
Untouched ==
  /\ pc \in {"stop", "unpack"} =>
       /\ place = was /\ stepKept = Nothing /\ done = {} /\ stuck = {}
       /\ \A f \in Folders : temp[f] \in {run, None}
  /\ pc \notin {"swap", "undo"} => cur = None

(* The swap has folders of three kinds: the one whose old data is away,    *)
(* the ones before it and the ones after it.                               *)
Swapping ==
  pc = "swap" =>
    /\ stuck = {}
    /\ cur # None => cur \in todo
    /\ \A f \in Folders : IF f = cur THEN Away(f)
                          ELSE IF f \in todo THEN NotBegun(f) ELSE In(f)

Undoing ==
  pc = "undo" =>
    /\ cur # None => cur \in done
    /\ done \cap stuck = {}
    /\ \A f \in Folders :
         IF f = cur THEN Away(f)
         ELSE IF f \in done THEN Away(f) \/ In(f)
         ELSE IF f \in stuck THEN Keeps(f) ELSE place[f] = was[f]

AllIn == pc = "chown" => \A f \in Folders : place[f] = run

(* While folders are handled, nothing runs but what others have started.   *)
Cold ==
  pc \in {"unpack", "swap", "undo", "chown"} => containers = "none" \/ warm

(* Nobody forgets to start what ran.                                       *)
ToStart ==
  /\ pc # "idle" => exit = "none"
  /\ pc # "clean" => ~startFailed
  /\ ranBefore =>
       /\ pc = "stop" => containers = "all"
       /\ pc \in {"unpack", "swap", "undo", "chown", "start"} =>
            toStart \/ containers = "all"
       /\ pc = "clean" => containers = "all" \/ startFailed

IInv ==
  /\ TypeOK
  /\ Untouched /\ Swapping /\ Undoing /\ AllIn /\ AllOrAsItWas
  /\ Cold /\ ToStart

-----------------------------------------------------------------------------
(* Types.                                                                  *)

LEMMA Bounds ==
  /\ MaxRuns \in Nat /\ MaxFaults \in Nat /\ MaxMeddles \in Nat
  /\ None \notin Nat /\ None \notin Folders
BY RestoreAssumption DEF RestoreAssumption

LEMMA StepTypes == TypeOK /\ [Next]_vars => TypeOK'
<1> SUFFICES ASSUME TypeOK, [Next]_vars PROVE TypeOK'
  OBVIOUS
<1> USE Bounds
    DEF dataVars, swapVars, errorVars, seenVars, boundVars, fixedVars,
        Generations, Nothing, Fault
<1>1. CASE Refuse
  BY <1>1 DEF TypeOK, Refuse
<1>2. CASE Begin
  <2>1. ranBefore' \in BOOLEAN
    BY <1>2, Zenon DEF Begin
  <2>2. run' \in 0..MaxRuns /\ was' \in [Folders -> 0..MaxRuns \cup {None}]
    BY <1>2 DEF TypeOK, Begin
  <2>3. /\ UNCHANGED <<dataVars, containers, listed, todo, cur, swapVars,
                       toStart, failed, startFailed, boundVars>>
        /\ pc' = "stop" /\ exit' = "none" /\ warm' = FALSE
    BY <1>2 DEF Begin
  <2> QED
    BY <2>1, <2>2, <2>3 DEF TypeOK
<1>3. CASE Stop
  BY <1>3 DEF TypeOK, Stop
<1>4. CASE StopFails
  <2>1. toStart' \in BOOLEAN
    BY <1>4, Zenon DEF StopFails, StopPart, TypeOK
  <2>2. containers' \in {"all", "some", "none"}
    BY <1>4, Zenon DEF StopFails, StopPart, TypeOK
  <2>3. /\ faults' \in 0..MaxFaults
        /\ UNCHANGED <<dataVars, fixedVars, cur, swapVars, startFailed, exit,
                       seenVars, meddles, todo>>
        /\ pc' = "start" /\ failed' = TRUE
    BY <1>4 DEF StopFails, StopPart, TypeOK
  <2> QED
    BY <2>1, <2>2, <2>3 DEF TypeOK
<1>5. CASE UnpackFails \/ ChownFails
  <2>1. faults' \in 0..MaxFaults /\ UNCHANGED <<cur, swapVars>> /\ Throw
    BY <1>5 DEF TypeOK, UnpackFails, ChownFails
  <2> QED
    BY <2>1 DEF TypeOK, Throw
<1>6. CASE NotUnpacked \/ Undone
  BY <1>6 DEF TypeOK, NotUnpacked, Undone, Throw
<1>7. CASE Unpacked \/ Swapped \/ Chown
  BY <1>7 DEF TypeOK, Unpacked, Swapped, Chown
<1>8. CASE SwapFails
  BY <1>8 DEF TypeOK, SwapFails
<1>9. CASE Start
  BY <1>9 DEF TypeOK, Start
<1>19. CASE StartFails
  BY <1>19 DEF TypeOK, StartFails
<1>10. CASE End \/ Crash
  <2>1. faults' \in 0..MaxFaults
    BY <1>10 DEF TypeOK, End, Crash
  <2>2. exit' \in {"ok", "failed", "killed"}
    BY <1>10, Zenon DEF End, Crash
  <2>3. Over
    BY <1>10 DEF End, Crash
  <2> QED
    BY <2>1, <2>2, <2>3 DEF TypeOK, Over
<1>11. CASE OthersStart
  BY <1>11 DEF TypeOK, OthersStart
<1>12. ASSUME NEW f \in Folders, Unpack(f) PROVE TypeOK'
  BY <1>12 DEF TypeOK, Unpack
<1>13. ASSUME NEW f \in Folders, Keep(f) PROVE TypeOK'
  BY <1>13 DEF TypeOK, Keep
<1>14. ASSUME NEW f \in Folders, PutIn(f) PROVE TypeOK'
  BY <1>14 DEF TypeOK, PutIn
<1>15. ASSUME NEW f \in Folders, TakeOut(f) PROVE TypeOK'
  BY <1>15 DEF TypeOK, TakeOut
<1>16. ASSUME NEW f \in Folders, PutBack(f) PROVE TypeOK'
  BY <1>16 DEF TypeOK, PutBack
<1>17. ASSUME NEW f \in Folders, UndoFails(f) PROVE TypeOK'
  BY <1>17 DEF TypeOK, UndoFails
<1>18. CASE UNCHANGED vars
  BY <1>18 DEF TypeOK, vars
<1> QED
  BY <1>1, <1>2, <1>3, <1>4, <1>5, <1>6, <1>7, <1>8, <1>9, <1>10, <1>11,
     <1>12, <1>13, <1>14, <1>15, <1>16, <1>17, <1>18, <1>19 DEF Next, Restorer

LEMMA InitTypes == Init => TypeOK
<1> SUFFICES ASSUME Init PROVE TypeOK
  OBVIOUS
<1>1. Nothing \in [Folders -> Generations \cup {None}]
  BY DEF Nothing
<1>2. place \in [Folders -> Generations \cup {None}]
  BY Bounds DEF Init, Generations
<1>3. kept \in [Folders -> SUBSET Generations]
  BY DEF Init
<1>4. /\ run \in 0..MaxRuns
      /\ faults \in 0..MaxFaults /\ meddles \in 0..MaxMeddles
  BY Bounds DEF Init
<1>5. /\ temp = Nothing /\ stepKept = Nothing /\ was = Nothing
      /\ done = {} /\ stuck = {} /\ todo = {} /\ cur = None
      /\ toStart = FALSE /\ failed = FALSE /\ startFailed = FALSE
      /\ ranBefore = FALSE /\ warm = FALSE
      /\ exit = "none" /\ pc = "idle" /\ listed \in BOOLEAN
      /\ containers \in {"all", "some", "none"}
  BY DEF Init
<1> QED
  BY <1>1, <1>2, <1>3, <1>4, <1>5 DEF TypeOK

(* Every variable keeps its type, and an idle process holds nothing over   *)
(* from the restore before.                                                *)
THEOREM RestoreTypes == Spec => []TypeOK
BY InitTypes, StepTypes, PTL DEF Spec

-----------------------------------------------------------------------------
(* Preservation: what is where.                                            *)

InPlace == Untouched /\ Swapping /\ Undoing /\ AllIn /\ AllOrAsItWas

(* The steps that touch no folder and stay in their part of the run.       *)
LEMMA OtherSteps ==
  ASSUME TypeOK, InPlace, UNCHANGED <<dataVars, swapVars, fixedVars, cur, pc>>,
         UNCHANGED <<todo, was, failed>>
  PROVE  InPlace'
BY DEF InPlace, Untouched, Swapping, Undoing, AllIn, AllOrAsItWas, NotBegun,
       Away, In, Keeps, dataVars, swapVars, fixedVars

LEMMA InPlaceStep == IInv /\ [Next]_vars => InPlace'
<1> SUFFICES ASSUME IInv, [Next]_vars PROVE InPlace'
  OBVIOUS
<1> USE Bounds
    DEF IInv, dataVars, swapVars, errorVars, seenVars, boundVars, fixedVars,
        Nothing
<1>i. InPlace /\ TypeOK
  BY DEF InPlace
<1>1. CASE Refuse \/ OthersStart \/ UNCHANGED vars
  BY <1>1, <1>i, OtherSteps DEF Refuse, OthersStart, vars
<1>2. CASE Begin
  BY <1>2 DEF InPlace, TypeOK, Begin, Untouched, Swapping, Undoing, AllIn,
              AllOrAsItWas
<1>3. CASE Stop
  BY <1>3 DEF InPlace, Stop, Untouched, Swapping, Undoing, AllIn, AllOrAsItWas
<1>4. CASE StopFails \/ UnpackFails \/ NotUnpacked
  BY <1>4 DEF InPlace, StopFails, StopPart, UnpackFails, NotUnpacked, Throw,
              Untouched, Swapping, Undoing, AllIn, AllOrAsItWas
<1>5. ASSUME NEW f \in Folders, Unpack(f) PROVE InPlace'
  BY <1>5 DEF InPlace, TypeOK, Unpack, Untouched, Swapping, Undoing, AllIn,
              AllOrAsItWas
<1>6. CASE Unpacked
  <2>1. \A f \in Folders : NotBegun(f)' /\ f \in todo'
    BY <1>6 DEF Unpacked, Untouched, NotBegun
  <2>2. cur' = None /\ stuck' = {} /\ pc' = "swap"
    BY <1>6 DEF Unpacked, Untouched
  <2> QED
    BY <2>1, <2>2 DEF InPlace, Untouched, Swapping, Undoing, AllIn,
                      AllOrAsItWas
<1>7. ASSUME NEW f \in Folders, Keep(f) PROVE InPlace'
  <2>1. Away(f)' /\ pc' = "swap" /\ cur' = f /\ f \in todo' /\ stuck' = {}
    BY <1>7 DEF Keep, TypeOK, Swapping, NotBegun, Away, Keeps
  <2>2. \A g \in Folders \ {f} :
          IF g \in todo' THEN NotBegun(g)' ELSE In(g)'
    BY <1>7 DEF Keep, TypeOK, Swapping, NotBegun, In, Keeps
  <2> QED
    BY <2>1, <2>2 DEF InPlace, Untouched, Swapping, Undoing, AllIn,
                      AllOrAsItWas
<1>8. ASSUME NEW f \in Folders, PutIn(f) PROVE InPlace'
  <2>1. In(f)' /\ pc' = "swap" /\ cur' = None /\ f \notin todo' /\ stuck' = {}
    BY <1>8 DEF PutIn, TypeOK, Swapping, Away, In, Keeps
  <2>2. \A g \in Folders \ {f} :
          IF g \in todo' THEN NotBegun(g)' ELSE In(g)'
    BY <1>8 DEF PutIn, TypeOK, Swapping, NotBegun, In, Keeps
  <2> QED
    BY <2>1, <2>2 DEF InPlace, Untouched, Swapping, Undoing, AllIn,
                      AllOrAsItWas
<1>9. CASE SwapFails
  <2>1. pc' = "undo" /\ cur' = None /\ stuck' = {}
    BY <1>9 DEF SwapFails, Swapping
  <2>2. \A f \in Folders : IF f \in done' THEN Away(f)' \/ In(f)'
                           ELSE place'[f] = was'[f]
    BY <1>9 DEF SwapFails, Swapping, NotBegun, Away, In, Keeps
  <2> QED
    BY <2>1, <2>2 DEF InPlace, Untouched, Swapping, Undoing, AllIn,
                      AllOrAsItWas
<1>10. CASE Swapped
  <2>1. pc' = "chown" /\ cur' = None /\ \A f \in Folders : place'[f] = run'
    BY <1>10 DEF Swapped, Swapping, In, TypeOK
  <2> QED
    BY <2>1 DEF InPlace, Untouched, Swapping, Undoing, AllIn, AllOrAsItWas
<1>11. ASSUME NEW f \in Folders, TakeOut(f) PROVE InPlace'
  <2>1. Away(f)' /\ pc' = "undo" /\ cur' = f /\ UNCHANGED <<done, stuck>>
    BY <1>11 DEF TakeOut, TypeOK, Undoing, Away, In, Keeps
  <2>2. \A g \in Folders \ {f} :
          IF g \in done' THEN Away(g)' \/ In(g)'
          ELSE IF g \in stuck' THEN Keeps(g)' ELSE place'[g] = was'[g]
    BY <1>11 DEF TakeOut, TypeOK, Undoing, Away, In, Keeps
  <2>3. f \in done' /\ done' \cap stuck' = {}
    BY <1>11 DEF TakeOut, Undoing
  <2> QED
    BY <2>1, <2>2, <2>3 DEF InPlace, Untouched, Swapping, Undoing, AllIn,
                            AllOrAsItWas
<1>12. ASSUME NEW f \in Folders, PutBack(f) PROVE InPlace'
  <2>1. /\ pc' = "undo" /\ cur' = None
        /\ f \notin done' /\ done' \cap stuck' = {}
        /\ place'[f] = was'[f] /\ f \notin stuck'
    BY <1>12 DEF PutBack, TypeOK, Undoing, Away, Keeps
  <2>2. \A g \in Folders \ {f} :
          IF g \in done' THEN Away(g)' \/ In(g)'
          ELSE IF g \in stuck' THEN Keeps(g)' ELSE place'[g] = was'[g]
    BY <1>12 DEF PutBack, TypeOK, Undoing, Away, In, Keeps
  <2> QED
    BY <2>1, <2>2 DEF InPlace, Untouched, Swapping, Undoing, AllIn,
                      AllOrAsItWas
<1>13. ASSUME NEW f \in Folders, UndoFails(f) PROVE InPlace'
  <2>1. /\ pc' = "undo" /\ cur' = None
        /\ f \notin done' /\ done' \cap stuck' = {}
        /\ f \in stuck' /\ Keeps(f)'
    BY <1>13 DEF UndoFails, Undoing, Away, In, Keeps
  <2>2. \A g \in Folders \ {f} :
          IF g \in done' THEN Away(g)' \/ In(g)'
          ELSE IF g \in stuck' THEN Keeps(g)' ELSE place'[g] = was'[g]
    BY <1>13 DEF UndoFails, Undoing, Away, In, Keeps
  <2> QED
    BY <2>1, <2>2 DEF InPlace, Untouched, Swapping, Undoing, AllIn,
                      AllOrAsItWas
<1>14. CASE Undone
  <2>1. /\ pc' = "start" /\ failed' = TRUE /\ cur' = None
        /\ UNCHANGED <<place, kept, stuck, was>>
    BY <1>14 DEF Undone, Undoing, Throw
  <2>2. \A f \in Folders : IF f \in stuck THEN Keeps(f) ELSE place[f] = was[f]
    BY <1>14, <2>1 DEF Undone, Undoing
  <2>3. /\ \A f \in Folders \ stuck' : place'[f] = was'[f]
        /\ \A f \in stuck' : was'[f] \in {None} \cup kept'[f]
    BY <2>1, <2>2 DEF Keeps, TypeOK
  <2> QED
    BY <2>1, <2>3 DEF InPlace, Untouched, Swapping, Undoing, AllIn,
                      AllOrAsItWas
<1>15. CASE Chown \/ ChownFails
  <2>1. pc' = "start" /\ cur' = None /\ \A f \in Folders : place'[f] = run'
    BY <1>15 DEF Chown, ChownFails, Throw, AllIn, Untouched
  <2> QED
    BY <2>1 DEF InPlace, Untouched, Swapping, Undoing, AllIn, AllOrAsItWas
<1>16. CASE Start \/ StartFails
  BY <1>16 DEF InPlace, Start, StartFails, Untouched, Swapping, Undoing, AllIn,
               AllOrAsItWas
<1>17. CASE End \/ Crash
  BY <1>17 DEF InPlace, End, Crash, Over, Untouched, Swapping, Undoing, AllIn,
               AllOrAsItWas
<1> QED
  BY <1>1, <1>2, <1>3, <1>4, <1>5, <1>6, <1>7, <1>8, <1>9, <1>10, <1>11,
     <1>12, <1>13, <1>14, <1>15, <1>16, <1>17 DEF Next, Restorer

-----------------------------------------------------------------------------
(* Preservation: what runs, and what will be started.                      *)

LEMMA RunsStep == IInv /\ [Next]_vars => Cold' /\ ToStart'
<1> SUFFICES ASSUME IInv, [Next]_vars PROVE Cold' /\ ToStart'
  OBVIOUS
<1> USE DEF IInv, dataVars, swapVars, errorVars, seenVars, boundVars,
            fixedVars, Cold, ToStart
<1>1. CASE Refuse \/ OthersStart \/ UNCHANGED vars
  BY <1>1 DEF Refuse, OthersStart, vars
<1>2. CASE Begin
  BY <1>2 DEF Begin
<1>3. CASE Stop
  BY <1>3 DEF Stop
<1>4. CASE StopFails
  BY <1>4 DEF StopFails, StopPart
<1>5. CASE UnpackFails \/ NotUnpacked \/ Undone \/ ChownFails
  BY <1>5 DEF UnpackFails, NotUnpacked, Undone, ChownFails, Throw
<1>6. CASE Unpacked \/ SwapFails \/ Swapped \/ Chown
  BY <1>6 DEF Unpacked, SwapFails, Swapped, Chown
<1>7. ASSUME NEW f \in Folders, \/ Unpack(f) \/ Keep(f) \/ PutIn(f)
                                \/ TakeOut(f) \/ PutBack(f) \/ UndoFails(f)
      PROVE  Cold' /\ ToStart'
  BY <1>7 DEF Unpack, Keep, PutIn, TakeOut, PutBack, UndoFails
<1>8. CASE Start \/ StartFails
  BY <1>8 DEF Start, StartFails
<1>9. CASE End \/ Crash
  BY <1>9 DEF End, Crash, Over
<1> QED
  BY <1>1, <1>2, <1>3, <1>4, <1>5, <1>6, <1>7, <1>8, <1>9 DEF Next, Restorer

LEMMA Initially == Init => IInv
<1> SUFFICES ASSUME Init PROVE IInv
  OBVIOUS
<1>1. TypeOK
  BY InitTypes
<1> QED
  BY <1>1 DEF Init, IInv, Untouched, Swapping, Undoing, AllIn, AllOrAsItWas,
              Cold, ToStart

LEMMA Inductive == IInv /\ [Next]_vars => IInv'
BY StepTypes, InPlaceStep, RunsStep DEF IInv, InPlace

(* Wherever the run is, every folder is untouched, away, in place or back, *)
(* and what ran before is stopped, to be started or reported.              *)
THEOREM RestoreInvariant == Spec => []IInv
BY Initially, Inductive, PTL DEF Spec

(* When the containers are started, the service has all of the snapshot or *)
(* all of what it had, but for folders that are named as stuck.            *)
THEOREM AllOrNothing == Spec => []AllOrAsItWas
<1>1. IInv => AllOrAsItWas
  BY DEF IInv
<1> QED
  BY <1>1, RestoreInvariant, PTL

(* No restore ever loses data, whatever fails and whenever it dies.        *)
THEOREM NoDataLost == Spec => NothingLost
<1> DEFINE HeldOn == \A f \in Folders : Held(f) \ {run} \subseteq Held(f)'
<1>1. ASSUME IInv, Next PROVE HeldOn
  <2> USE Bounds DEF IInv, dataVars, Held
  <2>1. CASE UNCHANGED dataVars
    BY <2>1
  <2>2. ASSUME NEW f \in Folders, Keep(f) PROVE HeldOn
    BY <1>1, <2>2 DEF Keep, TypeOK
  <2>3. ASSUME NEW f \in Folders, PutIn(f) PROVE HeldOn
    BY <1>1, <2>3 DEF PutIn, TypeOK, Swapping, Away
  <2>4. ASSUME NEW f \in Folders, TakeOut(f) PROVE HeldOn
    BY <1>1, <2>4 DEF TakeOut, TypeOK, Undoing, Away, In
  <2>5. ASSUME NEW f \in Folders, PutBack(f) PROVE HeldOn
    BY <1>1, <2>5 DEF PutBack, TypeOK, Undoing, Away
  <2>6. \/ UNCHANGED dataVars
        \/ \E f \in Folders : Keep(f) \/ PutIn(f) \/ TakeOut(f) \/ PutBack(f)
    BY <1>1
    DEF Next, Restorer, Refuse, Begin, Stop, StopFails, StopPart, Throw,
        Unpack, UnpackFails, Unpacked, NotUnpacked, SwapFails, Swapped,
        UndoFails, Undone, Chown, ChownFails, Start, StartFails, End, Over,
        Crash, OthersStart
  <2> QED
    BY <2>1, <2>2, <2>3, <2>4, <2>5, <2>6
<1>2. IInv /\ [Next]_vars => [HeldOn]_vars
  BY <1>1
<1> QED
  BY <1>2, RestoreInvariant, PTL DEF Spec, NothingLost

(* No folder is moved under a container the run should have stopped.       *)
THEOREM ColdSwap == Spec => SwappedCold
<1> DEFINE Moves == place' # place => containers = "none" \/ warm
<1>1. ASSUME IInv, Next, place' # place PROVE containers = "none" \/ warm
  <2>1. pc \in {"swap", "undo"}
    BY <1>1
    DEF Next, Restorer, Refuse, Begin, Stop, StopFails, StopPart, Throw,
        Unpack, UnpackFails, Unpacked, NotUnpacked, Keep, PutIn, SwapFails,
        Swapped, TakeOut, PutBack, UndoFails, Undone, Chown, ChownFails, Start,
        StartFails, End, Over, Crash, OthersStart, dataVars
  <2> QED
    BY <1>1, <2>1 DEF IInv, Cold
<1>2. IInv /\ [Next]_vars => [Moves]_vars
  BY <1>1
<1> QED
  BY <1>2, RestoreInvariant, PTL DEF Spec, SwappedCold

(* A restore that ends by itself has started what ran, or says it has not; *)
(* success means that every folder is in place.                            *)
THEOREM ReportsTrue == Spec => EndsAsReported
<1> DEFINE Ends ==
      pc = "clean" /\ exit' \in {"ok", "failed"} =>
        /\ ranBefore => containers = "all" \/ startFailed
        /\ exit' = "ok" => /\ \A f \in Folders : place[f] = run
                           /\ ranBefore => containers = "all"
<1>1. ASSUME IInv, Next, pc = "clean", exit' \in {"ok", "failed"} PROVE Ends
  <2>1. exit' = "ok" => ~failed /\ ~startFailed
    BY <1>1
    DEF IInv, ToStart, Next, Restorer, Refuse, Begin, Stop, StopFails,
        StopPart, Unpack, UnpackFails, Unpacked, NotUnpacked, Keep, PutIn,
        SwapFails, Swapped, TakeOut, PutBack, UndoFails, Undone, Chown,
        ChownFails, Start, StartFails, End, Crash, OthersStart, errorVars
  <2> QED
    BY <1>1, <2>1 DEF IInv, ToStart, AllOrAsItWas
<1>2. IInv /\ [Next]_vars => [Ends]_vars
  BY <1>1
<1> QED
  BY <1>2, RestoreInvariant, PTL DEF Spec, EndsAsReported
=============================================================================
