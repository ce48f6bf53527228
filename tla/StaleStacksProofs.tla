------------------------- MODULE StaleStacksProofs -------------------------
(* What the properties of StaleStacks rest on, proved for any server, any  *)
(* labels on its containers, any number of commands that fail and anything *)
(* others do meanwhile.                                                    *)
EXTENDS StaleStacks, TLAPS

-----------------------------------------------------------------------------
(* The inductive invariant.                                                *)

Working == pc \in {"rows", "check"}
Clean(n) == \A c \in up : DirOf[c] # n

(* The next check will see a container that compose has left.              *)
ToCheck(c) == pc = "check" /\ ProjOf[c] = proj

(* Of the stack the script works on, every container that is up has its    *)
(* row still to come, or is about to be seen, or the folder is kept; and a *)
(* project that was stopped has none left, or the same holds.              *)
RowsCover ==
  /\ ~Working => seen = {}
  /\ Working /\ name \notin touched =>
       \A c \in up : DirOf[c] = name =>
         /\ c \in rows \/ skipped \/ ToCheck(c)
         /\ ProjOf[c] \in seen => skipped \/ ToCheck(c)

(* What is skipped the operator is told.                                   *)
SkippedTold == skipped => name \in reported

(* Stacks nobody has worked on, and the operator was told nothing of.      *)
Quiet == Stale \ (touched \cup reported \cup failures)

(* A quiet stack still has its turn, or is done with as far as the pass    *)
(* goes: the first does away with folders, the second with containers.     *)
Accounted ==
  /\ stacks = "link" => pc = "start" \/ (pc = "done" /\ None \in failures)
  /\ stacks # "link" /\ pc # "start" =>
       \A n \in Quiet :
         LET left == n \in queue \/ n = name IN
         IF pass = 1 THEN left \/ entry[n] # "dir"
         ELSE entry[n] # "dir" /\ (left \/ Clean(n))
  /\ pc \in {"start", "done"} => queue = {}
  /\ pc = "done" => pass = 2 \/ None \in failures

(* A stack that has had its turn does not come up again: its folder is     *)
(* there, for the second pass to pass it by, or nothing is left of it.     *)
HadItsTurn ==
  /\ pc = "start" => pass = 1 /\ worked = {}
  /\ name # None => name \in worked /\ name \notin queue
  /\ \A n \in worked \ touched :
       IF pass = 1
       THEN n \notin queue /\ (entry[n] = "dir" \/ (n # name /\ Clean(n)))
       ELSE n \notin queue \/ entry[n] = "dir"

IInv == TypeOK /\ RowsCover /\ SkippedTold /\ Accounted /\ HadItsTurn

-----------------------------------------------------------------------------
(* Every way a command of stop_and_remove fails leaves the stack to the    *)
(* operator and goes on with the next.                                     *)
Fails == \/ ListFails \/ CheckFails \/ RemoveFails
         \/ \E c \in Containers : DownFails(c)

FailsGoOn ==
  /\ pc \in {"ps", "rows", "check"} /\ name \in Stale
  /\ pc' = "next" /\ name' = None /\ rows' = {} /\ proj' = None
  /\ seen' = {} /\ skipped' = FALSE /\ failed' = TRUE
  /\ failures' = failures \cup {name}
  /\ stacks' = stacks /\ entry' = entry /\ up' \subseteq up
  /\ UNCHANGED <<pass, queue, reported, worked, touched, meddles>>
  /\ faults' \in 0..MaxFaults

LEMMA FailsStep == TypeOK /\ Fails => FailsGoOn
<1> SUFFICES ASSUME TypeOK, Fails PROVE FailsGoOn
  OBVIOUS
<1>1. /\ Failure /\ Fault /\ entry' = entry /\ up' \subseteq up
      /\ pc \in {"ps", "rows", "check"}
  BY DEF Fails, ListFails, CheckFails, RemoveFails, DownFails
<1>2. name \in Stale
  BY <1>1 DEF TypeOK
<1>3. faults' \in 0..MaxFaults
  BY <1>1, StaleStacksAssumption DEF Fault, TypeOK, StaleStacksAssumption
<1> QED
  BY <1>1, <1>2, <1>3 DEF FailsGoOn, Failure, Return

(* No step leaves its types.                                               *)
LEMMA StepTypes == TypeOK /\ [Next]_vars => TypeOK'
<1> SUFFICES ASSUME TypeOK, [Next]_vars PROVE TypeOK'
  OBVIOUS
<1> USE StaleStacksAssumption DEF StaleStacksAssumption, scriptVars,
      serverVars, boundVars, TypeOK, Stale
<1>1. CASE Fails
  BY <1>1, FailsStep DEF FailsGoOn
<1>2. CASE Refuse
  BY <1>2 DEF Refuse
<1>3. CASE Enter
  BY <1>3 DEF Enter
<1>4. CASE List
  BY <1>4 DEF List
<1>5. CASE Check
  BY <1>5 DEF Check
<1>6. CASE KeepFolder
  BY <1>6 DEF KeepFolder, Return
<1>7. CASE Remove
  BY <1>7 DEF Remove, Return
<1>8. CASE Scan
  BY <1>8 DEF Scan
<1>9. CASE ScanFails
  BY <1>9 DEF ScanFails, Fault
<1>10. CASE Exit
  BY <1>10 DEF Exit
<1>11. ASSUME NEW n \in Names, LookAt(n) PROVE TypeOK'
  BY <1>11 DEF LookAt, Passed
<1>12. ASSUME NEW c \in Containers, SkipRow(c) PROVE TypeOK'
  <2>1. skipped' \in BOOLEAN
    BY <1>12, Zenon DEF SkipRow, TypeOK
  <2>2. reported' \subseteq Names /\ rows' \subseteq Containers
    BY <1>12 DEF SkipRow, TypeOK
  <2> QED
    BY <1>12, <2>1, <2>2 DEF SkipRow, TypeOK
<1>13. ASSUME NEW c \in Containers, Down(c) PROVE TypeOK'
  BY <1>13 DEF Down, MayStop, Downed
<1>14. ASSUME NEW c \in Containers, HandUp(c) PROVE TypeOK'
  BY <1>14 DEF HandUp, Meddle
<1>15. ASSUME NEW c \in Containers, HandDown(c) PROVE TypeOK'
  BY <1>15 DEF HandDown, Meddle
<1>16. ASSUME NEW n \in Names, NEW kind \in {"dir", "other", "none"},
               HandFolder(n, kind)
        PROVE  TypeOK'
  BY <1>16 DEF HandFolder, Meddle
<1>17. CASE UNCHANGED vars
  BY <1>17 DEF vars
<1> QED
  BY <1>1, <1>2, <1>3, <1>4, <1>5, <1>6, <1>7, <1>8, <1>9, <1>10,
     <1>11, <1>12, <1>13, <1>14, <1>15, <1>16, <1>17
     DEF Next, Script, Others, Fails

(* A container of the stack at work leaves the rows only stopped, or seen  *)
(* and told: compose down is never taken at its word.                      *)
LEMMA StepRows == TypeOK /\ RowsCover /\ [Next]_vars => RowsCover'
<1> SUFFICES ASSUME TypeOK, RowsCover, [Next]_vars PROVE RowsCover'
  OBVIOUS
<1> USE StaleStacksAssumption DEF StaleStacksAssumption, scriptVars,
      serverVars, boundVars, TypeOK, RowsCover, Working, ToCheck
<1>1. CASE Fails
  BY <1>1, FailsStep DEF FailsGoOn
<1>2. CASE Refuse
  BY <1>2 DEF Refuse
<1>3. CASE Enter
  BY <1>3 DEF Enter
<1>4. CASE List
  BY <1>4 DEF List
<1>5. CASE Check
  BY <1>5 DEF Check
<1>6. CASE KeepFolder
  BY <1>6 DEF KeepFolder, Return
<1>7. CASE Remove
  BY <1>7 DEF Remove, Return
<1>8. CASE Scan
  BY <1>8 DEF Scan
<1>9. CASE ScanFails
  BY <1>9 DEF ScanFails, Fault
<1>10. CASE Exit
  BY <1>10 DEF Exit
<1>11. ASSUME NEW n \in Names, LookAt(n) PROVE RowsCover'
  BY <1>11 DEF LookAt, Passed
<1>12. ASSUME NEW c \in Containers, SkipRow(c) PROVE RowsCover'
  BY <1>12 DEF SkipRow, MayStop
<1>13. ASSUME NEW c \in Containers, Down(c) PROVE RowsCover'
  BY <1>13 DEF Down, MayStop, Downed
<1>14. ASSUME NEW c \in Containers, HandUp(c) PROVE RowsCover'
  BY <1>14 DEF HandUp, Meddle
<1>15. ASSUME NEW c \in Containers, HandDown(c) PROVE RowsCover'
  BY <1>15 DEF HandDown, Meddle
<1>16. ASSUME NEW n \in Names, NEW kind \in {"dir", "other", "none"},
               HandFolder(n, kind)
        PROVE  RowsCover'
  BY <1>16 DEF HandFolder, Meddle
<1>17. CASE UNCHANGED vars
  BY <1>17 DEF vars
<1> QED
  BY <1>1, <1>2, <1>3, <1>4, <1>5, <1>6, <1>7, <1>8, <1>9, <1>10,
     <1>11, <1>12, <1>13, <1>14, <1>15, <1>16, <1>17
     DEF Next, Script, Others, Fails

(* A folder is kept only with a word to the operator.                      *)
LEMMA StepTold == TypeOK /\ SkippedTold /\ [Next]_vars => SkippedTold'
<1> SUFFICES ASSUME TypeOK, SkippedTold, [Next]_vars PROVE SkippedTold'
  OBVIOUS
<1> USE StaleStacksAssumption DEF StaleStacksAssumption, scriptVars,
      serverVars, boundVars, TypeOK, SkippedTold
<1>1. CASE Fails
  BY <1>1, FailsStep DEF FailsGoOn
<1>2. CASE Refuse
  BY <1>2 DEF Refuse
<1>3. CASE Enter
  BY <1>3 DEF Enter
<1>4. CASE List
  BY <1>4 DEF List
<1>5. CASE Check
  BY <1>5 DEF Check
<1>6. CASE KeepFolder
  BY <1>6 DEF KeepFolder, Return
<1>7. CASE Remove
  BY <1>7 DEF Remove, Return
<1>8. CASE Scan
  BY <1>8 DEF Scan
<1>9. CASE ScanFails
  BY <1>9 DEF ScanFails, Fault
<1>10. CASE Exit
  BY <1>10 DEF Exit
<1>11. ASSUME NEW n \in Names, LookAt(n) PROVE SkippedTold'
  BY <1>11 DEF LookAt, Passed
<1>12. ASSUME NEW c \in Containers, SkipRow(c) PROVE SkippedTold'
  BY <1>12 DEF SkipRow, MayStop
<1>13. ASSUME NEW c \in Containers, Down(c) PROVE SkippedTold'
  BY <1>13 DEF Down, MayStop, Downed
<1>14. ASSUME NEW c \in Containers, HandUp(c) PROVE SkippedTold'
  BY <1>14 DEF HandUp, Meddle
<1>15. ASSUME NEW c \in Containers, HandDown(c) PROVE SkippedTold'
  BY <1>15 DEF HandDown, Meddle
<1>16. ASSUME NEW n \in Names, NEW kind \in {"dir", "other", "none"},
               HandFolder(n, kind)
        PROVE  SkippedTold'
  BY <1>16 DEF HandFolder, Meddle
<1>17. CASE UNCHANGED vars
  BY <1>17 DEF vars
<1> QED
  BY <1>1, <1>2, <1>3, <1>4, <1>5, <1>6, <1>7, <1>8, <1>9, <1>10,
     <1>11, <1>12, <1>13, <1>14, <1>15, <1>16, <1>17
     DEF Next, Script, Others, Fails

(* A stack leaves the two passes done with, touched or told.               *)
LEMMA StepAccounted == IInv /\ [Next]_vars => Accounted'
<1> SUFFICES ASSUME IInv, [Next]_vars PROVE Accounted'
  OBVIOUS
<1> USE StaleStacksAssumption DEF StaleStacksAssumption, scriptVars,
      serverVars, boundVars, IInv, TypeOK, Accounted, Quiet, Clean, Working,
      ToCheck, RowsCover, SkippedTold, HadItsTurn, Stale
<1>1. CASE Fails
  BY <1>1, FailsStep DEF FailsGoOn
<1>2. CASE Refuse
  BY <1>2 DEF Refuse
<1>3. CASE Enter
  BY <1>3 DEF Enter
<1>4. CASE List
  BY <1>4 DEF List
<1>5. CASE Check
  BY <1>5 DEF Check
<1>6. CASE KeepFolder
  BY <1>6 DEF KeepFolder, Return
<1>7. CASE Remove
  BY <1>7 DEF Remove, Return
<1>8. CASE Scan
  BY <1>8 DEF Scan
<1>9. CASE ScanFails
  BY <1>9 DEF ScanFails, Fault
<1>10. CASE Exit
  BY <1>10 DEF Exit
<1>11. ASSUME NEW n \in Names, LookAt(n) PROVE Accounted'
  BY <1>11 DEF LookAt, Passed
<1>12. ASSUME NEW c \in Containers, SkipRow(c) PROVE Accounted'
  BY <1>12 DEF SkipRow, MayStop
<1>13. ASSUME NEW c \in Containers, Down(c) PROVE Accounted'
  BY <1>13 DEF Down, MayStop, Downed
<1>14. ASSUME NEW c \in Containers, HandUp(c) PROVE Accounted'
  BY <1>14 DEF HandUp, Meddle
<1>15. ASSUME NEW c \in Containers, HandDown(c) PROVE Accounted'
  BY <1>15 DEF HandDown, Meddle
<1>16. ASSUME NEW n \in Names, NEW kind \in {"dir", "other", "none"},
               HandFolder(n, kind)
        PROVE  Accounted'
  BY <1>16 DEF HandFolder, Meddle
<1>17. CASE UNCHANGED vars
  BY <1>17 DEF vars
<1> QED
  BY <1>1, <1>2, <1>3, <1>4, <1>5, <1>6, <1>7, <1>8, <1>9, <1>10,
     <1>11, <1>12, <1>13, <1>14, <1>15, <1>16, <1>17
     DEF Next, Script, Others, Fails

(* A stack that has had its turn is not in the way of another one.         *)
LEMMA StepTurns == IInv /\ [Next]_vars => HadItsTurn'
<1> SUFFICES ASSUME IInv, [Next]_vars PROVE HadItsTurn'
  OBVIOUS
<1> USE StaleStacksAssumption DEF StaleStacksAssumption, scriptVars,
      serverVars, boundVars, IInv, TypeOK, Clean, Working, ToCheck,
      RowsCover, HadItsTurn, Stale
<1>1. CASE Fails
  BY <1>1, FailsStep DEF FailsGoOn
<1>2. CASE Refuse
  BY <1>2 DEF Refuse
<1>3. CASE Enter
  BY <1>3 DEF Enter
<1>4. CASE List
  BY <1>4 DEF List
<1>5. CASE Check
  BY <1>5 DEF Check
<1>6. CASE KeepFolder
  BY <1>6 DEF KeepFolder, Return
<1>7. CASE Remove
  BY <1>7 DEF Remove, Return
<1>8. CASE Scan
  BY <1>8 DEF Scan
<1>9. CASE ScanFails
  BY <1>9 DEF ScanFails, Fault
<1>10. CASE Exit
  BY <1>10 DEF Exit
<1>11. ASSUME NEW n \in Names, LookAt(n) PROVE HadItsTurn'
  BY <1>11 DEF LookAt, Passed
<1>12. ASSUME NEW c \in Containers, SkipRow(c) PROVE HadItsTurn'
  BY <1>12 DEF SkipRow, MayStop
<1>13. ASSUME NEW c \in Containers, Down(c) PROVE HadItsTurn'
  BY <1>13 DEF Down, MayStop, Downed
<1>14. ASSUME NEW c \in Containers, HandUp(c) PROVE HadItsTurn'
  BY <1>14 DEF HandUp, Meddle
<1>15. ASSUME NEW c \in Containers, HandDown(c) PROVE HadItsTurn'
  BY <1>15 DEF HandDown, Meddle
<1>16. ASSUME NEW n \in Names, NEW kind \in {"dir", "other", "none"},
               HandFolder(n, kind)
        PROVE  HadItsTurn'
  BY <1>16 DEF HandFolder, Meddle
<1>17. CASE UNCHANGED vars
  BY <1>17 DEF vars
<1> QED
  BY <1>1, <1>2, <1>3, <1>4, <1>5, <1>6, <1>7, <1>8, <1>9, <1>10,
     <1>11, <1>12, <1>13, <1>14, <1>15, <1>16, <1>17
     DEF Next, Script, Others, Fails

-----------------------------------------------------------------------------
(* The invariant holds at the start.                                       *)
LEMMA StartsRight == Init => IInv
<1> SUFFICES ASSUME Init PROVE IInv
  OBVIOUS
<1> USE StaleStacksAssumption DEF StaleStacksAssumption
<1>1. TypeOK
  <2>1. skipped \in BOOLEAN /\ failed \in BOOLEAN
    BY DEF Init
  <2>2. entry \in [Names -> {"dir", "other", "none"}]
    BY DEF Init
  <2> QED
    BY <2>1, <2>2 DEF Init, TypeOK
<1>2. RowsCover /\ SkippedTold
  BY DEF Init, RowsCover, Working, SkippedTold
<1>3. Accounted /\ HadItsTurn
  BY DEF Init, Accounted, HadItsTurn
<1> QED
  BY <1>1, <1>2, <1>3 DEF IInv

LEMMA StepInvariant == IInv /\ [Next]_vars => IInv'
<1> SUFFICES ASSUME IInv, [Next]_vars PROVE IInv'
  OBVIOUS
<1>1. TypeOK'
  BY StepTypes DEF IInv
<1>2. RowsCover'
  BY StepRows DEF IInv
<1>3. SkippedTold'
  BY StepTold DEF IInv
<1>4. Accounted' /\ HadItsTurn'
  BY StepAccounted, StepTurns
<1> QED
  BY <1>1, <1>2, <1>3, <1>4 DEF IInv

(* At every moment of the script what it works on, what it still has to    *)
(* and what it has told account for every stack that is not listed.        *)
THEOREM CleanupInvariant == Spec => []IInv
BY StartsRight, StepInvariant, PTL DEF Spec

(* The script's variables keep their types.                                *)
THEOREM CleanupTypes == Spec => []TypeOK
<1>1. IInv => TypeOK
  BY DEF IInv
<1> QED
  BY <1>1, CleanupInvariant, PTL

(* However many commands fail, and whatever others do: a stack that is not *)
(* listed is gone when the script ends, or the operator has been told.     *)
THEOREM NothingUnsaid == Spec => []NothingLeftUnsaid
<1>1. IInv => NothingLeftUnsaid
  BY StaleStacksAssumption
     DEF StaleStacksAssumption, IInv, TypeOK, Accounted, Quiet, Clean, Stale,
         NothingLeftUnsaid
<1> QED
  BY <1>1, CleanupInvariant, PTL

-----------------------------------------------------------------------------
(* No container of a project that a listed stack runs under is stopped by  *)
(* the script, whatever labels stand on the containers it finds.           *)
THEOREM ProtectedStand == Spec => ProtectedStay
<1> DEFINE Stays == meddles' = meddles =>
                      \A c \in up \ up' : ProjOf[c] \notin Protected
<1>1. IInv /\ [Next]_vars => [Stays]_vars
  <2> SUFFICES ASSUME IInv, [Next]_vars, meddles' = meddles,
                      NEW c \in up \ up'
               PROVE  ProjOf[c] \notin Protected
    OBVIOUS
  <2> USE DEF serverVars, scriptVars, boundVars
  <2>1. ASSUME NEW d \in Containers, Down(d) PROVE ProjOf[c] \notin Protected
    BY <2>1 DEF Down, MayStop, Downed
  <2>2. ASSUME NEW d \in Containers, DownFails(d)
        PROVE  ProjOf[c] \notin Protected
    <3>1. c \in Downed(ProjOf[d]) /\ MayStop(d)
      BY <2>2 DEF DownFails
    <3> QED
      BY <3>1 DEF MayStop, Downed
  <2>3. CASE Others
    <3>1. meddles \in Nat /\ meddles' = meddles + 1
      BY <2>3, StaleStacksAssumption
         DEF StaleStacksAssumption, IInv, TypeOK, Others, HandUp, HandDown,
             HandFolder, Meddle
    <3> QED
      BY <3>1
  <2>4. \/ UNCHANGED up
        \/ Others \/ \E d \in Containers : Down(d) \/ DownFails(d)
    BY DEF Next, Script, vars, Refuse, Enter, List, ListFails, Check,
           CheckFails, KeepFolder, Remove, RemoveFails, Scan, ScanFails, Exit,
           LookAt, SkipRow
  <2> QED
    BY <2>1, <2>2, <2>3, <2>4
<1> QED
  BY <1>1, CleanupInvariant, PTL DEF Spec, ProtectedStay

(* The script removes no folder of a listed stack, nor one from under a    *)
(* container that runs from it.                                            *)
THEOREM FolderLast == Spec => NoFolderFromUnderAContainer
<1> DEFINE Last ==
      \A n \in Names :
        entry[n] = "dir" /\ entry'[n] = "none" /\ meddles' = meddles =>
          /\ n \in Stale
          /\ n \notin touched => \A c \in up : DirOf[c] # n
<1>1. IInv /\ [Next]_vars => [Last]_vars
  <2> SUFFICES ASSUME IInv, [Next]_vars, NEW n \in Names,
                      entry[n] = "dir", entry'[n] = "none", meddles' = meddles
               PROVE  /\ n \in Stale
                      /\ n \notin touched => \A c \in up : DirOf[c] # n
    OBVIOUS
  <2> USE DEF serverVars, scriptVars, boundVars
  <2>1. CASE Others
    <3>1. meddles \in Nat /\ meddles' = meddles + 1
      BY <2>1, StaleStacksAssumption
         DEF StaleStacksAssumption, IInv, TypeOK, Others, HandUp, HandDown,
             HandFolder, Meddle
    <3> QED
      BY <3>1
  <2>2. CASE Remove
    <3>1. n = name /\ name \in Stale
      BY <2>2, StaleStacksAssumption
         DEF Remove, IInv, TypeOK, StaleStacksAssumption
    <3> QED
      BY <2>2, <3>1 DEF Remove, IInv, RowsCover, Working, ToCheck
  <2>3. entry' = entry \/ Others \/ Remove
    BY DEF Next, Script, vars, Refuse, Enter, List, ListFails, Check,
           CheckFails, KeepFolder, RemoveFails, Scan, ScanFails, Exit,
           LookAt, SkipRow, Down, DownFails
  <2> QED
    BY <2>1, <2>2, <2>3
<1> QED
  BY <1>1, CleanupInvariant, PTL DEF Spec, NoFolderFromUnderAContainer

(* The second pass takes up no stack the first one has handled.            *)
THEOREM HandledOnce == Spec => OncePerStack
<1> DEFINE Once == \A n \in worked \ touched : name' = n => name = n
<1>1. IInv /\ [Next]_vars => [Once]_vars
  <2> SUFFICES ASSUME IInv, [Next]_vars, NEW n \in worked \ touched,
                      name' = n
               PROVE  name = n
    OBVIOUS
  <2> USE DEF serverVars, scriptVars, boundVars
  <2>1. n \in Stale /\ n # None
    BY StaleStacksAssumption DEF StaleStacksAssumption, IInv, TypeOK, Stale
  <2>2. ASSUME NEW m \in Names, LookAt(m) PROVE name = n
    BY <2>1, <2>2
       DEF LookAt, Passed, IInv, TypeOK, HadItsTurn, Stale
  <2>3. \/ name' \in {name, None}
        \/ \E m \in Names : LookAt(m)
    BY DEF Next, Script, Others, vars, Refuse, Enter, List, ListFails, Check,
           CheckFails, KeepFolder, Remove, RemoveFails, Scan, ScanFails, Exit,
           SkipRow, Down, DownFails, Failure, Return, HandUp, HandDown,
           HandFolder, Meddle
  <2> QED
    BY <2>1, <2>2, <2>3
<1> QED
  BY <1>1, CleanupInvariant, PTL DEF Spec, OncePerStack
=============================================================================
