---------------------------- MODULE BackupProofs ----------------------------
(* What the properties of Backup rest on, proved for any configs, labels   *)
(* and repositories, any number of commands that fail, and anything others *)
(* do on the server meanwhile.                                             *)
EXTENDS Backup, TLAPS

-----------------------------------------------------------------------------
(* The inductive invariant.                                                *)

Starters == {"recheck", "recheckAgain", "up", "upLost"}
Cold == {"chown", "probe", "guard", "init", "verify", "check1", "copy"}

(* Between two workflows nothing of the last one is left.                  *)
AtRest ==
  /\ pc = "next" => cur = None
  /\ cur = None => target = None /\ ran = {} /\ left = {}

(* What the stop remembered is of the config, and says where it ran: a     *)
(* target is the one origin of everything that ran.                        *)
Remembered ==
  cur # None =>
    /\ Mode = "list" => target = None /\ ran \cup left \subseteq Named[cur]
    /\ Mode = "compose" =>
         /\ left = {}
         /\ target = None => ran = {}
         /\ target # None => /\ ran # {}
                             /\ \A k \in ran : OriginOf[k] = target
    /\ pc = "stop" => target = None
    /\ pc \in Starters \cup {"composeStop"} => target # None

(* While the stack is down only what others have started runs.             *)
Down ==
  /\ pc \in Cold => Managed(cur) \cap running \subseteq warm
  /\ pc = "stop" /\ Mode = "list" =>
       Named[cur] \cap running \subseteq left \cup warm
  /\ pc = "composeStop" =>
       Own[cur] \cap running \subseteq Services(target) \cup warm

(* The start of a list goes on until each container has had its try.       *)
ListGoesOn ==
  pc = "start" /\ Mode = "list" =>
    \/ errorAtStep[cur] = "docker_start"
    \/ ran \subseteq running \cup late \cup left

(* A workflow that has marked no failure has done all of the chain so far. *)
ChainDone ==
  /\ pc \in {"forget", "check2"} => cur \in copied
  /\ pc \in {"start"} \cup Starters =>
       status[cur] = "error" \/ cur \in copied \cap checked

(* The repository is as the guard and the probe have found it, unless      *)
(* others have changed it since.                                           *)
GuardHolds ==
  pc # "done" /\ cur # None /\ RepoOf[cur] \notin swapped =>
    /\ pc = "init" => Repo = "none"
    /\ pc \in {"verify", "check1", "copy", "forget", "check2"} =>
         Repo \in {"ok", "damaged"}

IInv ==
  /\ TypeOK /\ AtRest /\ Remembered /\ Down
  /\ ListGoesOn /\ ChainDone /\ GuardHolds /\ SuccessIsCopied

-----------------------------------------------------------------------------
(* The names of the chain's commands, and the steps they are marked by.    *)
LEMMA Commands ==
  /\ DOMAIN Step = {"chown", "probe", "init", "verify", "check1", "copy",
                    "forget", "check2"}
  /\ \A p \in DOMAIN Step : Step[p] \in Steps /\ Step[p] # "none"
  /\ {"none", "config", "compose_stop", "docker_stop", "restic_check", "init",
      "compose_start", "docker_start"} \subseteq Steps
BY DEF Step, Steps

(* A step of the backup or of anybody else keeps the types.                *)
LEMMA StepTypes == TypeOK /\ [Next]_vars => TypeOK'
<1> SUFFICES ASSUME TypeOK, [Next]_vars PROVE TypeOK'
  OBVIOUS
<1> USE BackupAssumption, Commands DEF BackupAssumption, Mode, Repo,
      serverVars, resultVars, stackVars, seenVars, boundVars, dockerVars,
      TypeOK, PCs
<1>1. CASE Find
  <2>1. OwnUp(cur) \subseteq Containers /\ FoundOrigins(cur) \subseteq Origins
    BY <1>1 DEF Find, OwnUp, FoundOrigins
  <2>2. target' \in Origins \cup {None} /\ cur' = cur
    BY <1>1, <2>1, Zenon DEF Find, TypeOK, GoTo
  <2>3. pc' \in {"chown", "composeStop"} /\ ran' = OwnUp(cur)
    BY <1>1 DEF Find, GoTo
  <2> QED
    BY <1>1, <2>1, <2>2, <2>3 DEF Find, GoTo
<1>2. CASE FindRefuses
  BY <1>2 DEF FindRefuses, Fail, Marked, GoTo
<1>3. CASE FindFails
  BY <1>3 DEF FindFails, Fail, Marked, GoTo, Fault
<1>4. CASE ComposeStop
  BY <1>4 DEF ComposeStop, GoTo
<1>5. CASE ComposeStopFails
  BY <1>5 DEF ComposeStopFails, Fail, Marked, GoTo, Fault
<1>6. CASE ListStopped
  BY <1>6 DEF ListStopped, GoTo
<1>7. CASE CommandFails
  BY <1>7 DEF CommandFails, Fail, Marked, GoTo, Fault, Step
<1>8. CASE CommandRefused
  BY <1>8 DEF CommandRefused, Fail, Marked, GoTo, Step
<1>9. CASE Chown
  BY <1>9 DEF Chown, Worked, GoTo
<1>10. CASE Probe
  BY <1>10 DEF Probe, Worked, GoTo
<1>11. CASE ProbeMissing
  BY <1>11 DEF ProbeMissing, Worked, GoTo, Marked
<1>12. CASE Guard
  BY <1>12 DEF Guard, Worked, GoTo
<1>13. CASE GuardRefuses
  BY <1>13 DEF GuardRefuses, Fail, Marked, GoTo
<1>14. CASE InitRepo
  BY <1>14 DEF InitRepo, Worked, GoTo
<1>15. CASE Verify
  BY <1>15 DEF Verify, Worked, GoTo
<1>16. CASE CheckBefore
  BY <1>16 DEF CheckBefore, Worked, GoTo
<1>17. CASE Copy
  BY <1>17 DEF Copy, Worked, GoTo
<1>18. CASE Forget
  BY <1>18 DEF Forget, Worked, GoTo
<1>19. CASE CheckAfter
  BY <1>19 DEF CheckAfter, GoTo
<1>20. CASE NothingToStart
  BY <1>20 DEF NothingToStart, Done, Settle
<1>21. CASE ComposeStart
  BY <1>21 DEF ComposeStart, ComposeStarts, Starting, GoTo
<1>22. CASE ComposeStartMissing
  BY <1>22 DEF ComposeStartMissing, ComposeStarts, Starting, GoTo
<1>23. CASE ComposeStartFails
  BY <1>23 DEF ComposeStartFails, ComposeStarts, NotStarted, Settle, Marked,
     Fault
<1>24. CASE Recheck
  BY <1>24 DEF Recheck, Done, Settle
<1>25. CASE RecheckLost
  BY <1>25 DEF RecheckLost, Starting, GoTo
<1>26. CASE RecheckAgain
  BY <1>26 DEF RecheckAgain, Done, NotStarted, Settle, Marked
<1>27. CASE RecheckFails
  BY <1>27 DEF RecheckFails, NotStarted, Settle, Marked, Fault
<1>28. CASE Up
  <2>1. CASE pc = "up" /\ Done
    BY <1>28, <2>1 DEF Up, Done, Settle, OfOrigin, Services
  <2>2. CASE pc = "upLost" /\ Starting("recheckAgain")
    BY <1>28, <2>2 DEF Up, Starting, GoTo, OfOrigin, Services
  <2> QED
    BY <1>28, <2>1, <2>2 DEF Up
<1>29. CASE CannotRebuild
  BY <1>29 DEF CannotRebuild, NotStarted, Settle, Marked
<1>30. CASE UpFails
  <2>1. exists' \subseteq Containers /\ running' \subseteq exists'
    BY <1>30 DEF UpFails, Services, OfOrigin
  <2>2. faults' \in 0..MaxFaults
    BY <1>30 DEF UpFails, Fault
  <2> QED
    BY <1>30, <2>1, <2>2 DEF UpFails, NotStarted, Settle, Marked
<1>31. CASE ListStarted
  BY <1>31 DEF ListStarted, Done, Settle
<1>32. CASE Report
  BY <1>32 DEF Report
<1>33. CASE Crash
  BY <1>33 DEF Crash, Fault
<1>34. ASSUME NEW c \in Configs, SkipBroken(c) PROVE TypeOK'
  BY <1>34 DEF SkipBroken
<1>35. ASSUME NEW c \in Configs, BadConfig(c) PROVE TypeOK'
  BY <1>35 DEF BadConfig
<1>36. ASSUME NEW c \in Configs, Begin(c) PROVE TypeOK'
  BY <1>36 DEF Begin
<1>37. ASSUME NEW k \in Containers, ListStop(k) PROVE TypeOK'
  BY <1>37 DEF ListStop
<1>38. ASSUME NEW k \in Containers, ListStopFails(k) PROVE TypeOK'
  BY <1>38 DEF ListStopFails, Fail, Marked, GoTo, Fault
<1>39. ASSUME NEW k \in Containers, ListStart(k) PROVE TypeOK'
  BY <1>39 DEF ListStart
<1>40. ASSUME NEW k \in Containers, ListStartFails(k) PROVE TypeOK'
  BY <1>40 DEF ListStartFails, Marked, Fault
<1>41. ASSUME NEW k \in Containers, Removed(k) PROVE TypeOK'
  BY <1>41 DEF Removed, Meddle, StartedByUs
<1>42. ASSUME NEW k \in Containers, Stopped(k) PROVE TypeOK'
  BY <1>42 DEF Stopped, Meddle, StartedByUs
<1>43. ASSUME NEW k \in Containers, Started(k) PROVE TypeOK'
  BY <1>43 DEF Started, Meddle
<1>44. ASSUME NEW r \in Repos, DiskChanged(r) PROVE TypeOK'
  BY <1>44 DEF DiskChanged, Meddle
<1>45. CASE UNCHANGED vars
  BY <1>45 DEF vars
<1> QED
  BY <1>1, <1>2, <1>3, <1>4, <1>5, <1>6, <1>7, <1>8, <1>9, <1>10,
     <1>11, <1>12, <1>13, <1>14, <1>15, <1>16, <1>17, <1>18, <1>19,
     <1>20, <1>21, <1>22, <1>23, <1>24, <1>25, <1>26, <1>27, <1>28,
     <1>29, <1>30, <1>31, <1>32, <1>33, <1>34, <1>35, <1>36, <1>37,
     <1>38, <1>39, <1>40, <1>41, <1>42, <1>43, <1>44, <1>45
     DEF Next, Runner, Others

(* A workflow that ends leaves nothing behind: Settle resets what it knew. *)
LEMMA StepAtRest == TypeOK /\ AtRest /\ [Next]_vars => AtRest'
<1> SUFFICES ASSUME TypeOK, AtRest, [Next]_vars PROVE AtRest'
  OBVIOUS
<1> USE BackupAssumption DEF BackupAssumption, Mode, Repo, serverVars,
      resultVars, stackVars, seenVars, boundVars, dockerVars, TypeOK, AtRest
<1>1. CASE Find
  BY <1>1 DEF Find, Fail, Marked, GoTo
<1>2. CASE FindRefuses
  BY <1>2 DEF FindRefuses, Fail, Marked, GoTo
<1>3. CASE FindFails
  BY <1>3 DEF FindFails, Fail, Marked, GoTo, Fault
<1>4. CASE ComposeStop
  BY <1>4 DEF ComposeStop, GoTo
<1>5. CASE ComposeStopFails
  BY <1>5 DEF ComposeStopFails, Fail, Marked, GoTo, Fault
<1>6. CASE ListStopped
  BY <1>6 DEF ListStopped, GoTo
<1>7. CASE CommandFails
  BY <1>7 DEF CommandFails, Fail, Marked, GoTo, Fault, Step
<1>8. CASE CommandRefused
  BY <1>8 DEF CommandRefused, Fail, Marked, GoTo, Step
<1>9. CASE Chown
  BY <1>9 DEF Chown, Worked, GoTo
<1>10. CASE Probe
  BY <1>10 DEF Probe, Worked, GoTo
<1>11. CASE ProbeMissing
  BY <1>11 DEF ProbeMissing, Worked, GoTo, Marked
<1>12. CASE Guard
  BY <1>12 DEF Guard, Worked, GoTo
<1>13. CASE GuardRefuses
  BY <1>13 DEF GuardRefuses, Fail, Marked, GoTo
<1>14. CASE InitRepo
  BY <1>14 DEF InitRepo, Worked, GoTo
<1>15. CASE Verify
  BY <1>15 DEF Verify, Worked, GoTo
<1>16. CASE CheckBefore
  BY <1>16 DEF CheckBefore, Worked, GoTo
<1>17. CASE Copy
  BY <1>17 DEF Copy, Worked, GoTo
<1>18. CASE Forget
  BY <1>18 DEF Forget, Worked, GoTo
<1>19. CASE CheckAfter
  BY <1>19 DEF CheckAfter, GoTo
<1>20. CASE NothingToStart
  BY <1>20 DEF NothingToStart, Done, Settle
<1>21. CASE ComposeStart
  BY <1>21 DEF ComposeStart, ComposeStarts, Starting, GoTo
<1>22. CASE ComposeStartMissing
  BY <1>22 DEF ComposeStartMissing, ComposeStarts, Starting, GoTo
<1>23. CASE ComposeStartFails
  BY <1>23 DEF ComposeStartFails, ComposeStarts, NotStarted, Settle, Marked,
     Fault
<1>24. CASE Recheck
  BY <1>24 DEF Recheck, Done, Settle
<1>25. CASE RecheckLost
  BY <1>25 DEF RecheckLost, Starting, GoTo
<1>26. CASE RecheckAgain
  BY <1>26 DEF RecheckAgain, Done, NotStarted, Settle, Marked
<1>27. CASE RecheckFails
  BY <1>27 DEF RecheckFails, NotStarted, Settle, Marked, Fault
<1>28. CASE Up
  BY <1>28 DEF Up, Done, Settle, Starting, GoTo
<1>29. CASE CannotRebuild
  BY <1>29 DEF CannotRebuild, NotStarted, Settle, Marked
<1>30. CASE UpFails
  BY <1>30 DEF UpFails, NotStarted, Settle, Marked, Fault
<1>31. CASE ListStarted
  BY <1>31 DEF ListStarted, Done, Settle
<1>32. CASE Report
  BY <1>32 DEF Report
<1>33. CASE Crash
  BY <1>33 DEF Crash, Fault
<1>34. ASSUME NEW c \in Configs, SkipBroken(c) PROVE AtRest'
  BY <1>34 DEF SkipBroken
<1>35. ASSUME NEW c \in Configs, BadConfig(c) PROVE AtRest'
  BY <1>35 DEF BadConfig
<1>36. ASSUME NEW c \in Configs, Begin(c) PROVE AtRest'
  BY <1>36 DEF Begin
<1>37. ASSUME NEW k \in Containers, ListStop(k) PROVE AtRest'
  BY <1>37 DEF ListStop
<1>38. ASSUME NEW k \in Containers, ListStopFails(k) PROVE AtRest'
  BY <1>38 DEF ListStopFails, Fail, Marked, GoTo, Fault
<1>39. ASSUME NEW k \in Containers, ListStart(k) PROVE AtRest'
  BY <1>39 DEF ListStart
<1>40. ASSUME NEW k \in Containers, ListStartFails(k) PROVE AtRest'
  BY <1>40 DEF ListStartFails, Marked, Fault
<1>41. ASSUME NEW k \in Containers, Removed(k) PROVE AtRest'
  BY <1>41 DEF Removed, Meddle, StartedByUs
<1>42. ASSUME NEW k \in Containers, Stopped(k) PROVE AtRest'
  BY <1>42 DEF Stopped, Meddle, StartedByUs
<1>43. ASSUME NEW k \in Containers, Started(k) PROVE AtRest'
  BY <1>43 DEF Started, Meddle
<1>44. ASSUME NEW r \in Repos, DiskChanged(r) PROVE AtRest'
  BY <1>44 DEF DiskChanged, Meddle
<1>45. CASE UNCHANGED vars
  BY <1>45 DEF vars
<1> QED
  BY <1>1, <1>2, <1>3, <1>4, <1>5, <1>6, <1>7, <1>8, <1>9, <1>10,
     <1>11, <1>12, <1>13, <1>14, <1>15, <1>16, <1>17, <1>18, <1>19,
     <1>20, <1>21, <1>22, <1>23, <1>24, <1>25, <1>26, <1>27, <1>28,
     <1>29, <1>30, <1>31, <1>32, <1>33, <1>34, <1>35, <1>36, <1>37,
     <1>38, <1>39, <1>40, <1>41, <1>42, <1>43, <1>44, <1>45
     DEF Next, Runner, Others

(* Where a stack is not refused all that runs of it has one origin.         *)
LEMMA OneOrigin ==
  ASSUME NEW c \in Configs, ~Refused(c), NEW o \in FoundOrigins(c)
  PROVE  /\ OwnUp(c) # {}
         /\ \A k \in OwnUp(c) : OriginOf[k] = o
BY DEF Refused, FoundOrigins

(* What a stop has remembered stays as it is until its workflow ends.      *)
LEMMA StepRemembered == IInv /\ [Next]_vars => Remembered'
<1> SUFFICES ASSUME IInv, [Next]_vars PROVE Remembered'
  OBVIOUS
<1> USE BackupAssumption, Commands DEF BackupAssumption, Mode, Repo,
      serverVars, resultVars, stackVars, seenVars, boundVars, dockerVars,
      IInv, TypeOK, AtRest, Remembered, Starters
<1>1. CASE Find
  <2>1. CASE OwnUp(cur) = {}
    BY <1>1, <2>1 DEF Find, GoTo
  <2>2. CASE OwnUp(cur) # {}
    <3>1. PICK o \in FoundOrigins(cur) : target' = o /\ GoTo("composeStop")
      BY <1>1, <2>2 DEF Find
    <3>2. \A k \in OwnUp(cur) : OriginOf[k] = o
      BY <1>1, <3>1, OneOrigin DEF Find
    <3>3. o # None
      BY DEF FoundOrigins, OwnUp
    <3> QED
      BY <1>1, <2>2, <3>1, <3>2, <3>3 DEF Find, GoTo
  <2> QED
    BY <2>1, <2>2
<1>2. CASE FindRefuses
  BY <1>2 DEF FindRefuses, Fail, Marked, GoTo
<1>3. CASE FindFails
  BY <1>3 DEF FindFails, Fail, Marked, GoTo, Fault
<1>4. CASE ComposeStop
  BY <1>4 DEF ComposeStop, GoTo
<1>5. CASE ComposeStopFails
  BY <1>5 DEF ComposeStopFails, Fail, Marked, GoTo, Fault
<1>6. CASE ListStopped
  BY <1>6 DEF ListStopped, GoTo
<1>7. CASE CommandFails
  BY <1>7 DEF CommandFails, Fail, Marked, GoTo, Fault, Step
<1>8. CASE CommandRefused
  BY <1>8 DEF CommandRefused, Fail, Marked, GoTo, Step
<1>9. CASE Chown
  BY <1>9 DEF Chown, Worked, GoTo
<1>10. CASE Probe
  BY <1>10 DEF Probe, Worked, GoTo
<1>11. CASE ProbeMissing
  BY <1>11 DEF ProbeMissing, Worked, GoTo, Marked
<1>12. CASE Guard
  BY <1>12 DEF Guard, Worked, GoTo
<1>13. CASE GuardRefuses
  BY <1>13 DEF GuardRefuses, Fail, Marked, GoTo
<1>14. CASE InitRepo
  BY <1>14 DEF InitRepo, Worked, GoTo
<1>15. CASE Verify
  BY <1>15 DEF Verify, Worked, GoTo
<1>16. CASE CheckBefore
  BY <1>16 DEF CheckBefore, Worked, GoTo
<1>17. CASE Copy
  BY <1>17 DEF Copy, Worked, GoTo
<1>18. CASE Forget
  BY <1>18 DEF Forget, Worked, GoTo
<1>19. CASE CheckAfter
  BY <1>19 DEF CheckAfter, GoTo
<1>20. CASE NothingToStart
  BY <1>20 DEF NothingToStart, Done, Settle
<1>21. CASE ComposeStart
  BY <1>21 DEF ComposeStart, ComposeStarts, Starting, GoTo
<1>22. CASE ComposeStartMissing
  BY <1>22 DEF ComposeStartMissing, ComposeStarts, Starting, GoTo
<1>23. CASE ComposeStartFails
  BY <1>23 DEF ComposeStartFails, ComposeStarts, NotStarted, Settle, Marked,
     Fault
<1>24. CASE Recheck
  BY <1>24 DEF Recheck, Done, Settle
<1>25. CASE RecheckLost
  BY <1>25 DEF RecheckLost, Starting, GoTo
<1>26. CASE RecheckAgain
  BY <1>26 DEF RecheckAgain, Done, NotStarted, Settle, Marked
<1>27. CASE RecheckFails
  BY <1>27 DEF RecheckFails, NotStarted, Settle, Marked, Fault
<1>28. CASE Up
  BY <1>28 DEF Up, Done, Settle, Starting, GoTo
<1>29. CASE CannotRebuild
  BY <1>29 DEF CannotRebuild, NotStarted, Settle, Marked
<1>30. CASE UpFails
  BY <1>30 DEF UpFails, NotStarted, Settle, Marked, Fault
<1>31. CASE ListStarted
  BY <1>31 DEF ListStarted, Done, Settle
<1>32. CASE Report
  BY <1>32 DEF Report
<1>33. CASE Crash
  BY <1>33 DEF Crash, Fault
<1>34. ASSUME NEW c \in Configs, SkipBroken(c) PROVE Remembered'
  BY <1>34 DEF SkipBroken
<1>35. ASSUME NEW c \in Configs, BadConfig(c) PROVE Remembered'
  BY <1>35 DEF BadConfig
<1>36. ASSUME NEW c \in Configs, Begin(c) PROVE Remembered'
  BY <1>36 DEF Begin
<1>37. ASSUME NEW k \in Containers, ListStop(k) PROVE Remembered'
  BY <1>37 DEF ListStop
<1>38. ASSUME NEW k \in Containers, ListStopFails(k) PROVE Remembered'
  BY <1>38 DEF ListStopFails, Fail, Marked, GoTo, Fault
<1>39. ASSUME NEW k \in Containers, ListStart(k) PROVE Remembered'
  BY <1>39 DEF ListStart
<1>40. ASSUME NEW k \in Containers, ListStartFails(k) PROVE Remembered'
  BY <1>40 DEF ListStartFails, Marked, Fault
<1>41. ASSUME NEW k \in Containers, Removed(k) PROVE Remembered'
  BY <1>41 DEF Removed, Meddle, StartedByUs
<1>42. ASSUME NEW k \in Containers, Stopped(k) PROVE Remembered'
  BY <1>42 DEF Stopped, Meddle, StartedByUs
<1>43. ASSUME NEW k \in Containers, Started(k) PROVE Remembered'
  BY <1>43 DEF Started, Meddle
<1>44. ASSUME NEW r \in Repos, DiskChanged(r) PROVE Remembered'
  BY <1>44 DEF DiskChanged, Meddle
<1>45. CASE UNCHANGED vars
  BY <1>45 DEF vars
<1> QED
  BY <1>1, <1>2, <1>3, <1>4, <1>5, <1>6, <1>7, <1>8, <1>9, <1>10,
     <1>11, <1>12, <1>13, <1>14, <1>15, <1>16, <1>17, <1>18, <1>19,
     <1>20, <1>21, <1>22, <1>23, <1>24, <1>25, <1>26, <1>27, <1>28,
     <1>29, <1>30, <1>31, <1>32, <1>33, <1>34, <1>35, <1>36, <1>37,
     <1>38, <1>39, <1>40, <1>41, <1>42, <1>43, <1>44, <1>45
     DEF Next, Runner, Others

(* Only others start a container between the stop and the copy.            *)
LEMMA StepDown == IInv /\ [Next]_vars => Down'
<1> SUFFICES ASSUME IInv, [Next]_vars PROVE Down'
  OBVIOUS
<1> USE BackupAssumption, Commands DEF BackupAssumption, Mode, Repo,
      serverVars, resultVars, stackVars, seenVars, boundVars, dockerVars,
      IInv, TypeOK, AtRest, Remembered, Down, Cold, Managed
<1>1. CASE Find
  <2>1. CASE OwnUp(cur) = {}
    BY <1>1, <2>1 DEF Find, GoTo, OwnUp
  <2>2. CASE OwnUp(cur) # {}
    <3>1. PICK o \in FoundOrigins(cur) : target' = o /\ GoTo("composeStop")
      BY <1>1, <2>2 DEF Find
    <3>2. \A k \in OwnUp(cur) : OriginOf[k] = o
      BY <1>1, <3>1, OneOrigin DEF Find
    <3>3. o # None
      BY DEF FoundOrigins, OwnUp
    <3> QED
      BY <1>1, <2>2, <3>1, <3>2, <3>3 DEF Find, GoTo, OwnUp, Services,
         OfOrigin
  <2> QED
    BY <2>1, <2>2
<1>2. CASE FindRefuses
  BY <1>2 DEF FindRefuses, Fail, Marked, GoTo
<1>3. CASE FindFails
  BY <1>3 DEF FindFails, Fail, Marked, GoTo, Fault
<1>4. CASE ComposeStop
  BY <1>4 DEF ComposeStop, GoTo
<1>5. CASE ComposeStopFails
  BY <1>5 DEF ComposeStopFails, Fail, Marked, GoTo, Fault
<1>6. CASE ListStopped
  BY <1>6 DEF ListStopped, GoTo
<1>7. CASE CommandFails
  BY <1>7 DEF CommandFails, Fail, Marked, GoTo, Fault, Step
<1>8. CASE CommandRefused
  BY <1>8 DEF CommandRefused, Fail, Marked, GoTo, Step
<1>9. CASE Chown
  BY <1>9 DEF Chown, Worked, GoTo
<1>10. CASE Probe
  BY <1>10 DEF Probe, Worked, GoTo
<1>11. CASE ProbeMissing
  BY <1>11 DEF ProbeMissing, Worked, GoTo, Marked
<1>12. CASE Guard
  BY <1>12 DEF Guard, Worked, GoTo
<1>13. CASE GuardRefuses
  BY <1>13 DEF GuardRefuses, Fail, Marked, GoTo
<1>14. CASE InitRepo
  BY <1>14 DEF InitRepo, Worked, GoTo
<1>15. CASE Verify
  BY <1>15 DEF Verify, Worked, GoTo
<1>16. CASE CheckBefore
  BY <1>16 DEF CheckBefore, Worked, GoTo
<1>17. CASE Copy
  BY <1>17 DEF Copy, Worked, GoTo
<1>18. CASE Forget
  BY <1>18 DEF Forget, Worked, GoTo
<1>19. CASE CheckAfter
  BY <1>19 DEF CheckAfter, GoTo
<1>20. CASE NothingToStart
  BY <1>20 DEF NothingToStart, Done, Settle
<1>21. CASE ComposeStart
  BY <1>21 DEF ComposeStart, ComposeStarts, Starting, GoTo
<1>22. CASE ComposeStartMissing
  BY <1>22 DEF ComposeStartMissing, ComposeStarts, Starting, GoTo
<1>23. CASE ComposeStartFails
  BY <1>23 DEF ComposeStartFails, ComposeStarts, NotStarted, Settle, Marked,
     Fault
<1>24. CASE Recheck
  BY <1>24 DEF Recheck, Done, Settle
<1>25. CASE RecheckLost
  BY <1>25 DEF RecheckLost, Starting, GoTo
<1>26. CASE RecheckAgain
  BY <1>26 DEF RecheckAgain, Done, NotStarted, Settle, Marked
<1>27. CASE RecheckFails
  BY <1>27 DEF RecheckFails, NotStarted, Settle, Marked, Fault
<1>28. CASE Up
  BY <1>28 DEF Up, Done, Settle, Starting, GoTo
<1>29. CASE CannotRebuild
  BY <1>29 DEF CannotRebuild, NotStarted, Settle, Marked
<1>30. CASE UpFails
  BY <1>30 DEF UpFails, NotStarted, Settle, Marked, Fault
<1>31. CASE ListStarted
  BY <1>31 DEF ListStarted, Done, Settle
<1>32. CASE Report
  BY <1>32 DEF Report
<1>33. CASE Crash
  BY <1>33 DEF Crash, Fault
<1>34. ASSUME NEW c \in Configs, SkipBroken(c) PROVE Down'
  BY <1>34 DEF SkipBroken
<1>35. ASSUME NEW c \in Configs, BadConfig(c) PROVE Down'
  BY <1>35 DEF BadConfig
<1>36. ASSUME NEW c \in Configs, Begin(c) PROVE Down'
  BY <1>36 DEF Begin
<1>37. ASSUME NEW k \in Containers, ListStop(k) PROVE Down'
  BY <1>37 DEF ListStop
<1>38. ASSUME NEW k \in Containers, ListStopFails(k) PROVE Down'
  BY <1>38 DEF ListStopFails, Fail, Marked, GoTo, Fault
<1>39. ASSUME NEW k \in Containers, ListStart(k) PROVE Down'
  BY <1>39 DEF ListStart
<1>40. ASSUME NEW k \in Containers, ListStartFails(k) PROVE Down'
  BY <1>40 DEF ListStartFails, Marked, Fault
<1>41. ASSUME NEW k \in Containers, Removed(k) PROVE Down'
  BY <1>41 DEF Removed, Meddle, StartedByUs
<1>42. ASSUME NEW k \in Containers, Stopped(k) PROVE Down'
  BY <1>42 DEF Stopped, Meddle, StartedByUs
<1>43. ASSUME NEW k \in Containers, Started(k) PROVE Down'
  BY <1>43 DEF Started, Meddle
<1>44. ASSUME NEW r \in Repos, DiskChanged(r) PROVE Down'
  BY <1>44 DEF DiskChanged, Meddle
<1>45. CASE UNCHANGED vars
  BY <1>45 DEF vars
<1> QED
  BY <1>1, <1>2, <1>3, <1>4, <1>5, <1>6, <1>7, <1>8, <1>9, <1>10,
     <1>11, <1>12, <1>13, <1>14, <1>15, <1>16, <1>17, <1>18, <1>19,
     <1>20, <1>21, <1>22, <1>23, <1>24, <1>25, <1>26, <1>27, <1>28,
     <1>29, <1>30, <1>31, <1>32, <1>33, <1>34, <1>35, <1>36, <1>37,
     <1>38, <1>39, <1>40, <1>41, <1>42, <1>43, <1>44, <1>45
     DEF Next, Runner, Others

(* A container leaves a list's start when it runs, or is marked as failed. *)
LEMMA StepList == IInv /\ [Next]_vars => ListGoesOn'
<1> SUFFICES ASSUME IInv, [Next]_vars PROVE ListGoesOn'
  OBVIOUS
<1> USE BackupAssumption, Commands DEF BackupAssumption, Mode, Repo,
      serverVars, resultVars, stackVars, seenVars, boundVars, dockerVars,
      IInv, TypeOK, Remembered, ListGoesOn
<1>1. CASE Find
  BY <1>1 DEF Find, Fail, Marked, GoTo
<1>2. CASE FindRefuses
  BY <1>2 DEF FindRefuses, Fail, Marked, GoTo
<1>3. CASE FindFails
  BY <1>3 DEF FindFails, Fail, Marked, GoTo, Fault
<1>4. CASE ComposeStop
  BY <1>4 DEF ComposeStop, GoTo
<1>5. CASE ComposeStopFails
  BY <1>5 DEF ComposeStopFails, Fail, Marked, GoTo, Fault
<1>6. CASE ListStopped
  BY <1>6 DEF ListStopped, GoTo
<1>7. CASE CommandFails
  BY <1>7 DEF CommandFails, Fail, Marked, GoTo, Fault, Step
<1>8. CASE CommandRefused
  BY <1>8 DEF CommandRefused, Fail, Marked, GoTo, Step
<1>9. CASE Chown
  BY <1>9 DEF Chown, Worked, GoTo
<1>10. CASE Probe
  BY <1>10 DEF Probe, Worked, GoTo
<1>11. CASE ProbeMissing
  BY <1>11 DEF ProbeMissing, Worked, GoTo, Marked
<1>12. CASE Guard
  BY <1>12 DEF Guard, Worked, GoTo
<1>13. CASE GuardRefuses
  BY <1>13 DEF GuardRefuses, Fail, Marked, GoTo
<1>14. CASE InitRepo
  BY <1>14 DEF InitRepo, Worked, GoTo
<1>15. CASE Verify
  BY <1>15 DEF Verify, Worked, GoTo
<1>16. CASE CheckBefore
  BY <1>16 DEF CheckBefore, Worked, GoTo
<1>17. CASE Copy
  BY <1>17 DEF Copy, Worked, GoTo
<1>18. CASE Forget
  BY <1>18 DEF Forget, Worked, GoTo
<1>19. CASE CheckAfter
  BY <1>19 DEF CheckAfter, GoTo
<1>20. CASE NothingToStart
  BY <1>20 DEF NothingToStart, Done, Settle
<1>21. CASE ComposeStart
  BY <1>21 DEF ComposeStart, ComposeStarts, Starting, GoTo
<1>22. CASE ComposeStartMissing
  BY <1>22 DEF ComposeStartMissing, ComposeStarts, Starting, GoTo
<1>23. CASE ComposeStartFails
  BY <1>23 DEF ComposeStartFails, ComposeStarts, NotStarted, Settle, Marked,
     Fault
<1>24. CASE Recheck
  BY <1>24 DEF Recheck, Done, Settle
<1>25. CASE RecheckLost
  BY <1>25 DEF RecheckLost, Starting, GoTo
<1>26. CASE RecheckAgain
  BY <1>26 DEF RecheckAgain, Done, NotStarted, Settle, Marked
<1>27. CASE RecheckFails
  BY <1>27 DEF RecheckFails, NotStarted, Settle, Marked, Fault
<1>28. CASE Up
  BY <1>28 DEF Up, Done, Settle, Starting, GoTo
<1>29. CASE CannotRebuild
  BY <1>29 DEF CannotRebuild, NotStarted, Settle, Marked
<1>30. CASE UpFails
  BY <1>30 DEF UpFails, NotStarted, Settle, Marked, Fault
<1>31. CASE ListStarted
  BY <1>31 DEF ListStarted, Done, Settle
<1>32. CASE Report
  BY <1>32 DEF Report
<1>33. CASE Crash
  BY <1>33 DEF Crash, Fault
<1>34. ASSUME NEW c \in Configs, SkipBroken(c) PROVE ListGoesOn'
  BY <1>34 DEF SkipBroken
<1>35. ASSUME NEW c \in Configs, BadConfig(c) PROVE ListGoesOn'
  BY <1>35 DEF BadConfig
<1>36. ASSUME NEW c \in Configs, Begin(c) PROVE ListGoesOn'
  BY <1>36 DEF Begin
<1>37. ASSUME NEW k \in Containers, ListStop(k) PROVE ListGoesOn'
  BY <1>37 DEF ListStop
<1>38. ASSUME NEW k \in Containers, ListStopFails(k) PROVE ListGoesOn'
  BY <1>38 DEF ListStopFails, Fail, Marked, GoTo, Fault
<1>39. ASSUME NEW k \in Containers, ListStart(k) PROVE ListGoesOn'
  BY <1>39 DEF ListStart
<1>40. ASSUME NEW k \in Containers, ListStartFails(k) PROVE ListGoesOn'
  BY <1>40 DEF ListStartFails, Marked, Fault
<1>41. ASSUME NEW k \in Containers, Removed(k) PROVE ListGoesOn'
  BY <1>41 DEF Removed, Meddle, StartedByUs
<1>42. ASSUME NEW k \in Containers, Stopped(k) PROVE ListGoesOn'
  BY <1>42 DEF Stopped, Meddle, StartedByUs
<1>43. ASSUME NEW k \in Containers, Started(k) PROVE ListGoesOn'
  BY <1>43 DEF Started, Meddle
<1>44. ASSUME NEW r \in Repos, DiskChanged(r) PROVE ListGoesOn'
  BY <1>44 DEF DiskChanged, Meddle
<1>45. CASE UNCHANGED vars
  BY <1>45 DEF vars
<1> QED
  BY <1>1, <1>2, <1>3, <1>4, <1>5, <1>6, <1>7, <1>8, <1>9, <1>10,
     <1>11, <1>12, <1>13, <1>14, <1>15, <1>16, <1>17, <1>18, <1>19,
     <1>20, <1>21, <1>22, <1>23, <1>24, <1>25, <1>26, <1>27, <1>28,
     <1>29, <1>30, <1>31, <1>32, <1>33, <1>34, <1>35, <1>36, <1>37,
     <1>38, <1>39, <1>40, <1>41, <1>42, <1>43, <1>44, <1>45
     DEF Next, Runner, Others

(* A step of the chain leads on when it has worked; else it marks one.     *)
LEMMA StepChain == IInv /\ [Next]_vars => ChainDone'
<1> SUFFICES ASSUME IInv, [Next]_vars PROVE ChainDone'
  OBVIOUS
<1> USE BackupAssumption, Commands DEF BackupAssumption, Mode, Repo,
      serverVars, resultVars, stackVars, seenVars, boundVars, dockerVars,
      IInv, TypeOK, ChainDone, Starters
<1>1. CASE Find
  BY <1>1 DEF Find, Fail, Marked, GoTo
<1>2. CASE FindRefuses
  BY <1>2 DEF FindRefuses, Fail, Marked, GoTo
<1>3. CASE FindFails
  BY <1>3 DEF FindFails, Fail, Marked, GoTo, Fault
<1>4. CASE ComposeStop
  BY <1>4 DEF ComposeStop, GoTo
<1>5. CASE ComposeStopFails
  BY <1>5 DEF ComposeStopFails, Fail, Marked, GoTo, Fault
<1>6. CASE ListStopped
  BY <1>6 DEF ListStopped, GoTo
<1>7. CASE CommandFails
  BY <1>7 DEF CommandFails, Fail, Marked, GoTo, Fault, Step
<1>8. CASE CommandRefused
  BY <1>8 DEF CommandRefused, Fail, Marked, GoTo, Step
<1>9. CASE Chown
  BY <1>9 DEF Chown, Worked, GoTo
<1>10. CASE Probe
  BY <1>10 DEF Probe, Worked, GoTo
<1>11. CASE ProbeMissing
  BY <1>11 DEF ProbeMissing, Worked, GoTo, Marked
<1>12. CASE Guard
  BY <1>12 DEF Guard, Worked, GoTo
<1>13. CASE GuardRefuses
  BY <1>13 DEF GuardRefuses, Fail, Marked, GoTo
<1>14. CASE InitRepo
  BY <1>14 DEF InitRepo, Worked, GoTo
<1>15. CASE Verify
  BY <1>15 DEF Verify, Worked, GoTo
<1>16. CASE CheckBefore
  BY <1>16 DEF CheckBefore, Worked, GoTo
<1>17. CASE Copy
  BY <1>17 DEF Copy, Worked, GoTo
<1>18. CASE Forget
  BY <1>18 DEF Forget, Worked, GoTo
<1>19. CASE CheckAfter
  BY <1>19 DEF CheckAfter, GoTo
<1>20. CASE NothingToStart
  BY <1>20 DEF NothingToStart, Done, Settle
<1>21. CASE ComposeStart
  BY <1>21 DEF ComposeStart, ComposeStarts, Starting, GoTo
<1>22. CASE ComposeStartMissing
  BY <1>22 DEF ComposeStartMissing, ComposeStarts, Starting, GoTo
<1>23. CASE ComposeStartFails
  BY <1>23 DEF ComposeStartFails, ComposeStarts, NotStarted, Settle, Marked,
     Fault
<1>24. CASE Recheck
  BY <1>24 DEF Recheck, Done, Settle
<1>25. CASE RecheckLost
  BY <1>25 DEF RecheckLost, Starting, GoTo
<1>26. CASE RecheckAgain
  BY <1>26 DEF RecheckAgain, Done, NotStarted, Settle, Marked
<1>27. CASE RecheckFails
  BY <1>27 DEF RecheckFails, NotStarted, Settle, Marked, Fault
<1>28. CASE Up
  BY <1>28 DEF Up, Done, Settle, Starting, GoTo
<1>29. CASE CannotRebuild
  BY <1>29 DEF CannotRebuild, NotStarted, Settle, Marked
<1>30. CASE UpFails
  BY <1>30 DEF UpFails, NotStarted, Settle, Marked, Fault
<1>31. CASE ListStarted
  BY <1>31 DEF ListStarted, Done, Settle
<1>32. CASE Report
  BY <1>32 DEF Report
<1>33. CASE Crash
  BY <1>33 DEF Crash, Fault
<1>34. ASSUME NEW c \in Configs, SkipBroken(c) PROVE ChainDone'
  BY <1>34 DEF SkipBroken
<1>35. ASSUME NEW c \in Configs, BadConfig(c) PROVE ChainDone'
  BY <1>35 DEF BadConfig
<1>36. ASSUME NEW c \in Configs, Begin(c) PROVE ChainDone'
  BY <1>36 DEF Begin
<1>37. ASSUME NEW k \in Containers, ListStop(k) PROVE ChainDone'
  BY <1>37 DEF ListStop
<1>38. ASSUME NEW k \in Containers, ListStopFails(k) PROVE ChainDone'
  BY <1>38 DEF ListStopFails, Fail, Marked, GoTo, Fault
<1>39. ASSUME NEW k \in Containers, ListStart(k) PROVE ChainDone'
  BY <1>39 DEF ListStart
<1>40. ASSUME NEW k \in Containers, ListStartFails(k) PROVE ChainDone'
  BY <1>40 DEF ListStartFails, Marked, Fault
<1>41. ASSUME NEW k \in Containers, Removed(k) PROVE ChainDone'
  BY <1>41 DEF Removed, Meddle, StartedByUs
<1>42. ASSUME NEW k \in Containers, Stopped(k) PROVE ChainDone'
  BY <1>42 DEF Stopped, Meddle, StartedByUs
<1>43. ASSUME NEW k \in Containers, Started(k) PROVE ChainDone'
  BY <1>43 DEF Started, Meddle
<1>44. ASSUME NEW r \in Repos, DiskChanged(r) PROVE ChainDone'
  BY <1>44 DEF DiskChanged, Meddle
<1>45. CASE UNCHANGED vars
  BY <1>45 DEF vars
<1> QED
  BY <1>1, <1>2, <1>3, <1>4, <1>5, <1>6, <1>7, <1>8, <1>9, <1>10,
     <1>11, <1>12, <1>13, <1>14, <1>15, <1>16, <1>17, <1>18, <1>19,
     <1>20, <1>21, <1>22, <1>23, <1>24, <1>25, <1>26, <1>27, <1>28,
     <1>29, <1>30, <1>31, <1>32, <1>33, <1>34, <1>35, <1>36, <1>37,
     <1>38, <1>39, <1>40, <1>41, <1>42, <1>43, <1>44, <1>45
     DEF Next, Runner, Others

(* What guard and probe have found holds until others change the disk.     *)
LEMMA StepGuard == IInv /\ [Next]_vars => GuardHolds'
<1> SUFFICES ASSUME IInv, [Next]_vars PROVE GuardHolds'
  OBVIOUS
<1> USE BackupAssumption, Commands DEF BackupAssumption, Mode, Repo,
      serverVars, resultVars, stackVars, seenVars, boundVars, dockerVars,
      IInv, TypeOK, AtRest, GuardHolds
<1>1. CASE Find
  BY <1>1 DEF Find, Fail, Marked, GoTo
<1>2. CASE FindRefuses
  BY <1>2 DEF FindRefuses, Fail, Marked, GoTo
<1>3. CASE FindFails
  BY <1>3 DEF FindFails, Fail, Marked, GoTo, Fault
<1>4. CASE ComposeStop
  BY <1>4 DEF ComposeStop, GoTo
<1>5. CASE ComposeStopFails
  BY <1>5 DEF ComposeStopFails, Fail, Marked, GoTo, Fault
<1>6. CASE ListStopped
  BY <1>6 DEF ListStopped, GoTo
<1>7. CASE CommandFails
  BY <1>7 DEF CommandFails, GoTo
<1>8. CASE CommandRefused
  BY <1>8 DEF CommandRefused, Fail, Marked, GoTo, Step
<1>9. CASE Chown
  BY <1>9 DEF Chown, Worked, GoTo
<1>10. CASE Probe
  BY <1>10 DEF Probe, Worked, GoTo
<1>11. CASE ProbeMissing
  BY <1>11 DEF ProbeMissing, Worked, GoTo, Marked
<1>12. CASE Guard
  BY <1>12 DEF Guard, Worked, GoTo
<1>13. CASE GuardRefuses
  BY <1>13 DEF GuardRefuses, Fail, Marked, GoTo
<1>14. CASE InitRepo
  BY <1>14 DEF InitRepo, Worked, GoTo
<1>15. CASE Verify
  BY <1>15 DEF Verify, Worked, GoTo
<1>16. CASE CheckBefore
  BY <1>16 DEF CheckBefore, Worked, GoTo
<1>17. CASE Copy
  BY <1>17 DEF Copy, Worked, GoTo
<1>18. CASE Forget
  BY <1>18 DEF Forget, Worked, GoTo
<1>19. CASE CheckAfter
  BY <1>19 DEF CheckAfter, GoTo
<1>20. CASE NothingToStart
  BY <1>20 DEF NothingToStart, Done, Settle
<1>21. CASE ComposeStart
  BY <1>21 DEF ComposeStart, ComposeStarts, Starting, GoTo
<1>22. CASE ComposeStartMissing
  BY <1>22 DEF ComposeStartMissing, ComposeStarts, Starting, GoTo
<1>23. CASE ComposeStartFails
  BY <1>23 DEF ComposeStartFails, ComposeStarts, NotStarted, Settle, Marked,
     Fault
<1>24. CASE Recheck
  BY <1>24 DEF Recheck, Done, Settle
<1>25. CASE RecheckLost
  BY <1>25 DEF RecheckLost, Starting, GoTo
<1>26. CASE RecheckAgain
  BY <1>26 DEF RecheckAgain, Done, NotStarted, Settle, Marked
<1>27. CASE RecheckFails
  BY <1>27 DEF RecheckFails, NotStarted, Settle, Marked, Fault
<1>28. CASE Up
  BY <1>28 DEF Up, Done, Settle, Starting, GoTo
<1>29. CASE CannotRebuild
  BY <1>29 DEF CannotRebuild, NotStarted, Settle, Marked
<1>30. CASE UpFails
  BY <1>30 DEF UpFails, NotStarted, Settle, Marked, Fault
<1>31. CASE ListStarted
  BY <1>31 DEF ListStarted, Done, Settle
<1>32. CASE Report
  BY <1>32 DEF Report
<1>33. CASE Crash
  BY <1>33 DEF Crash, Fault
<1>34. ASSUME NEW c \in Configs, SkipBroken(c) PROVE GuardHolds'
  BY <1>34 DEF SkipBroken
<1>35. ASSUME NEW c \in Configs, BadConfig(c) PROVE GuardHolds'
  BY <1>35 DEF BadConfig
<1>36. ASSUME NEW c \in Configs, Begin(c) PROVE GuardHolds'
  BY <1>36 DEF Begin
<1>37. ASSUME NEW k \in Containers, ListStop(k) PROVE GuardHolds'
  BY <1>37 DEF ListStop
<1>38. ASSUME NEW k \in Containers, ListStopFails(k) PROVE GuardHolds'
  BY <1>38 DEF ListStopFails, Fail, Marked, GoTo, Fault
<1>39. ASSUME NEW k \in Containers, ListStart(k) PROVE GuardHolds'
  BY <1>39 DEF ListStart
<1>40. ASSUME NEW k \in Containers, ListStartFails(k) PROVE GuardHolds'
  BY <1>40 DEF ListStartFails, Marked, Fault
<1>41. ASSUME NEW k \in Containers, Removed(k) PROVE GuardHolds'
  BY <1>41 DEF Removed, Meddle, StartedByUs
<1>42. ASSUME NEW k \in Containers, Stopped(k) PROVE GuardHolds'
  BY <1>42 DEF Stopped, Meddle, StartedByUs
<1>43. ASSUME NEW k \in Containers, Started(k) PROVE GuardHolds'
  BY <1>43 DEF Started, Meddle
<1>44. ASSUME NEW r \in Repos, DiskChanged(r) PROVE GuardHolds'
  BY <1>44 DEF DiskChanged, Meddle
<1>45. CASE UNCHANGED vars
  BY <1>45 DEF vars
<1> QED
  BY <1>1, <1>2, <1>3, <1>4, <1>5, <1>6, <1>7, <1>8, <1>9, <1>10,
     <1>11, <1>12, <1>13, <1>14, <1>15, <1>16, <1>17, <1>18, <1>19,
     <1>20, <1>21, <1>22, <1>23, <1>24, <1>25, <1>26, <1>27, <1>28,
     <1>29, <1>30, <1>31, <1>32, <1>33, <1>34, <1>35, <1>36, <1>37,
     <1>38, <1>39, <1>40, <1>41, <1>42, <1>43, <1>44, <1>45
     DEF Next, Runner, Others

(* Only Done makes a success, at the end of a chain that marked no error.  *)
LEMMA StepSuccess == IInv /\ [Next]_vars => SuccessIsCopied'
<1> SUFFICES ASSUME IInv, [Next]_vars PROVE SuccessIsCopied'
  OBVIOUS
<1> USE BackupAssumption, Commands DEF BackupAssumption, Mode, Repo,
      serverVars, resultVars, stackVars, seenVars, boundVars, dockerVars,
      IInv, TypeOK, ChainDone, Starters, SuccessIsCopied
<1>1. CASE Find
  BY <1>1 DEF Find, Fail, Marked, GoTo
<1>2. CASE FindRefuses
  BY <1>2 DEF FindRefuses, Fail, Marked, GoTo
<1>3. CASE FindFails
  BY <1>3 DEF FindFails, Fail, Marked, GoTo, Fault
<1>4. CASE ComposeStop
  BY <1>4 DEF ComposeStop, GoTo
<1>5. CASE ComposeStopFails
  BY <1>5 DEF ComposeStopFails, Fail, Marked, GoTo, Fault
<1>6. CASE ListStopped
  BY <1>6 DEF ListStopped, GoTo
<1>7. CASE CommandFails
  <2>1. /\ copied \subseteq copied' /\ checked' = checked /\ exit' = exit
        /\ copied' \subseteq Configs
    BY <1>7 DEF CommandFails, GoTo
  <2>2. \A c \in Configs : status'[c] = "success" => status[c] = "success"
    BY <1>7 DEF CommandFails, Marked
  <2> QED
    BY <2>1, <2>2
<1>8. CASE CommandRefused
  BY <1>8 DEF CommandRefused, Fail, Marked, GoTo, Step
<1>9. CASE Chown
  BY <1>9 DEF Chown, Worked, GoTo
<1>10. CASE Probe
  BY <1>10 DEF Probe, Worked, GoTo
<1>11. CASE ProbeMissing
  BY <1>11 DEF ProbeMissing, Worked, GoTo, Marked
<1>12. CASE Guard
  BY <1>12 DEF Guard, Worked, GoTo
<1>13. CASE GuardRefuses
  BY <1>13 DEF GuardRefuses, Fail, Marked, GoTo
<1>14. CASE InitRepo
  BY <1>14 DEF InitRepo, Worked, GoTo
<1>15. CASE Verify
  BY <1>15 DEF Verify, Worked, GoTo
<1>16. CASE CheckBefore
  BY <1>16 DEF CheckBefore, Worked, GoTo
<1>17. CASE Copy
  BY <1>17 DEF Copy, Worked, GoTo
<1>18. CASE Forget
  BY <1>18 DEF Forget, Worked, GoTo
<1>19. CASE CheckAfter
  BY <1>19 DEF CheckAfter, GoTo
<1>20. CASE NothingToStart
  BY <1>20 DEF NothingToStart, Done, Settle
<1>21. CASE ComposeStart
  BY <1>21 DEF ComposeStart, ComposeStarts, Starting, GoTo
<1>22. CASE ComposeStartMissing
  BY <1>22 DEF ComposeStartMissing, ComposeStarts, Starting, GoTo
<1>23. CASE ComposeStartFails
  BY <1>23 DEF ComposeStartFails, ComposeStarts, NotStarted, Settle, Marked,
     Fault
<1>24. CASE Recheck
  BY <1>24 DEF Recheck, Done, Settle
<1>25. CASE RecheckLost
  BY <1>25 DEF RecheckLost, Starting, GoTo
<1>26. CASE RecheckAgain
  BY <1>26 DEF RecheckAgain, Done, NotStarted, Settle, Marked
<1>27. CASE RecheckFails
  BY <1>27 DEF RecheckFails, NotStarted, Settle, Marked, Fault
<1>28. CASE Up
  BY <1>28 DEF Up, Done, Settle, Starting, GoTo
<1>29. CASE CannotRebuild
  BY <1>29 DEF CannotRebuild, NotStarted, Settle, Marked
<1>30. CASE UpFails
  BY <1>30 DEF UpFails, NotStarted, Settle, Marked, Fault
<1>31. CASE ListStarted
  BY <1>31 DEF ListStarted, Done, Settle
<1>32. CASE Report
  BY <1>32 DEF Report
<1>33. CASE Crash
  BY <1>33 DEF Crash, Fault
<1>34. ASSUME NEW c \in Configs, SkipBroken(c) PROVE SuccessIsCopied'
  BY <1>34 DEF SkipBroken
<1>35. ASSUME NEW c \in Configs, BadConfig(c) PROVE SuccessIsCopied'
  BY <1>35 DEF BadConfig
<1>36. ASSUME NEW c \in Configs, Begin(c) PROVE SuccessIsCopied'
  BY <1>36 DEF Begin
<1>37. ASSUME NEW k \in Containers, ListStop(k) PROVE SuccessIsCopied'
  BY <1>37 DEF ListStop
<1>38. ASSUME NEW k \in Containers, ListStopFails(k) PROVE SuccessIsCopied'
  BY <1>38 DEF ListStopFails, Fail, Marked, GoTo, Fault
<1>39. ASSUME NEW k \in Containers, ListStart(k) PROVE SuccessIsCopied'
  BY <1>39 DEF ListStart
<1>40. ASSUME NEW k \in Containers, ListStartFails(k) PROVE SuccessIsCopied'
  BY <1>40 DEF ListStartFails, Marked, Fault
<1>41. ASSUME NEW k \in Containers, Removed(k) PROVE SuccessIsCopied'
  BY <1>41 DEF Removed, Meddle, StartedByUs
<1>42. ASSUME NEW k \in Containers, Stopped(k) PROVE SuccessIsCopied'
  BY <1>42 DEF Stopped, Meddle, StartedByUs
<1>43. ASSUME NEW k \in Containers, Started(k) PROVE SuccessIsCopied'
  BY <1>43 DEF Started, Meddle
<1>44. ASSUME NEW r \in Repos, DiskChanged(r) PROVE SuccessIsCopied'
  BY <1>44 DEF DiskChanged, Meddle
<1>45. CASE UNCHANGED vars
  BY <1>45 DEF vars
<1> QED
  BY <1>1, <1>2, <1>3, <1>4, <1>5, <1>6, <1>7, <1>8, <1>9, <1>10,
     <1>11, <1>12, <1>13, <1>14, <1>15, <1>16, <1>17, <1>18, <1>19,
     <1>20, <1>21, <1>22, <1>23, <1>24, <1>25, <1>26, <1>27, <1>28,
     <1>29, <1>30, <1>31, <1>32, <1>33, <1>34, <1>35, <1>36, <1>37,
     <1>38, <1>39, <1>40, <1>41, <1>42, <1>43, <1>44, <1>45
     DEF Next, Runner, Others

(* A run starts with nothing taken up and nothing done.                    *)
LEMMA StartsRight == Init => IInv
<1> SUFFICES ASSUME Init PROVE IInv
  OBVIOUS
<1> USE BackupAssumption DEF BackupAssumption
<1>1. status \in [Configs -> {"inProgress", "success", "error"}]
  BY DEF Init
<1>2. /\ errorAtStep \in [Configs -> Steps]
      /\ \A c \in Configs : status[c] = "error" <=> errorAtStep[c] # "none"
  BY <1>1, Commands DEF Init
<1>3. rebuildable \in BOOLEAN
  BY Zenon DEF Init
<1>4. TypeOK
  BY <1>1, <1>2, <1>3 DEF Init, TypeOK, PCs
<1>5. SuccessIsCopied
  BY DEF Init, SuccessIsCopied
<1> QED
  BY <1>4, <1>5
     DEF Init, IInv, AtRest, Remembered, Starters, Down, Cold, ListGoesOn,
         ChainDone, GuardHolds

(* The conjuncts of the invariant, one step further.                       *)
LEMMA StepInvariant == IInv /\ [Next]_vars => IInv'
BY StepTypes, StepAtRest, StepRemembered, StepDown, StepList, StepChain,
   StepGuard, StepSuccess DEF IInv

(* The inductive invariant of the nightly backup.                          *)
THEOREM BackupInvariant == Spec => []IInv
BY StartsRight, StepInvariant, PTL DEF Spec

(* The variables of the backup keep their types.                           *)
THEOREM BackupTypes == Spec => []TypeOK
<1>1. IInv => TypeOK
  BY DEF IInv
<1> QED
  BY <1>1, BackupInvariant, PTL

(* A success is a copy this run has made and found sound, and exit 0 says  *)
(* that of every config: nothing the run reports as done was left out.     *)
THEOREM SuccessMeansCopied == Spec => []SuccessIsCopied
<1>1. IInv => SuccessIsCopied
  BY DEF IInv
<1> QED
  BY <1>1, BackupInvariant, PTL

-----------------------------------------------------------------------------
(* The action properties.                                                  *)

(* Whatever ran before the stop runs again when a workflow is over, or the *)
(* config is marked as one whose containers did not start.                 *)
THEOREM NothingStaysDown == Spec => BackUpOrReported
<1> DEFINE Over == cur # None /\ cur' = None
           Up2 == ran \subseteq running' \cup late
           Said == errorAtStep'[cur] \in {"compose_start", "docker_start"}
<1>1. IInv /\ [Next]_vars => [Over => Up2 \/ Said]_vars
  <2> SUFFICES ASSUME IInv, [Next]_vars, Over PROVE Up2 \/ Said
    OBVIOUS
  <2> USE BackupAssumption DEF BackupAssumption, Mode, IInv, TypeOK,
        serverVars, resultVars, stackVars, seenVars, boundVars, dockerVars
  <2>1. ASSUME NEW step \in {"compose_start"}, NotStarted(step) PROVE Said
    BY <2>1 DEF NotStarted, Marked
  <2>2. CASE NothingToStart
    BY <2>2 DEF NothingToStart, Remembered
  <2>3. CASE Recheck \/ RecheckAgain
    BY <2>1, <2>3 DEF Recheck, RecheckAgain
  <2>4. CASE Up
    BY <2>4 DEF Up, Starting, GoTo, Remembered, Starters, Services, OfOrigin
  <2>5. CASE ListStarted
    BY <2>5 DEF ListStarted, ListGoesOn, Done
  <2>6. CASE ComposeStartFails \/ RecheckFails \/ CannotRebuild \/ UpFails
    BY <2>1, <2>6 DEF ComposeStartFails, RecheckFails, CannotRebuild, UpFails
  <2>7. \/ cur' = cur \/ \E c \in Configs : Begin(c)
        \/ NothingToStart \/ Recheck \/ RecheckAgain \/ Up \/ ListStarted
        \/ ComposeStartFails \/ RecheckFails \/ CannotRebuild \/ UpFails
    BY DEF Next, Runner, Others, vars, SkipBroken, BadConfig, Find,
           FindRefuses, FindFails, ComposeStop, ComposeStopFails, ListStopped,
           CommandFails, CommandRefused, Chown, Probe, ProbeMissing, Guard,
           GuardRefuses, InitRepo, Verify, CheckBefore, Copy, Forget,
           CheckAfter, ComposeStart, ComposeStartMissing, RecheckLost,
           ListStop, ListStopFails, ListStart, ListStartFails, Report, Crash,
           Removed, Stopped, Started, DiskChanged, Worked, GoTo, Fail,
           Starting, Meddle
  <2> QED
    BY <2>2, <2>3, <2>4, <2>5, <2>6, <2>7 DEF Begin
<1> QED
  BY <1>1, BackupInvariant, PTL DEF Spec, BackUpOrReported

(* No data is copied under a running container of its config, but for what *)
(* others have started.                                                    *)
THEOREM NothingCopiedLive == Spec => CopiedCold
<1> DEFINE Copies == pc = "copy" /\ pc' = "forget"
           ColdCopy == Managed(cur) \cap running \subseteq warm
<1>1. IInv => (pc = "copy" => ColdCopy)
  BY DEF IInv, Down, Cold
<1>2. IInv /\ [Next]_vars => [Copies => ColdCopy]_vars
  BY <1>1
<1> QED
  BY <1>2, BackupInvariant, PTL DEF Spec, CopiedCold

(* What the backup starts is named by its config, or of the compose project*)
(* something of which ran before the stop.                                 *)
THEOREM StoppedStacksStay == Spec => StoppedStaysStopped
<1> DEFINE Ours(k) == \/ k \in Named[cur]
                      \/ \E j \in ran : OriginOf[j] = OriginOf[k]
           Alone == meddles' = meddles =>
                      \A k \in running' \ running : Ours(k)
<1>1. IInv /\ [Next]_vars => [Alone]_vars
  <2> SUFFICES ASSUME IInv, [Next]_vars, meddles' = meddles,
                      NEW k \in running' \ running
               PROVE  Ours(k)
    OBVIOUS
  <2> USE BackupAssumption DEF BackupAssumption, Mode, IInv, TypeOK,
        serverVars, resultVars, stackVars, seenVars, boundVars, dockerVars
  <2>1. ASSUME target # None, k \in Services(target), cur # None PROVE Ours(k)
    BY <2>1 DEF Remembered, Services, OfOrigin
  <2>2. CASE ComposeStart \/ ComposeStartMissing \/ ComposeStartFails
    BY <2>1, <2>2
       DEF ComposeStart, ComposeStartMissing, ComposeStartFails,
           ComposeStarts
  <2>3. CASE Up \/ UpFails
    BY <2>1, <2>3 DEF Up, UpFails
  <2>4. ASSUME NEW l \in Containers, ListStart(l) PROVE Ours(k)
    <3>1. k = l /\ l \in left
      BY <2>4 DEF ListStart
    <3>2. left \subseteq Named[cur] \/ left = {}
      BY <2>4 DEF Remembered, ListStart
    <3> QED
      BY <3>1, <3>2
  <2>5. \/ running' \subseteq running
        \/ ComposeStart \/ ComposeStartMissing \/ ComposeStartFails
        \/ Up \/ UpFails \/ \E l \in Containers : ListStart(l)
    BY DEF Next, Runner, Others, vars, SkipBroken, BadConfig, Begin, Find,
           FindRefuses, FindFails, ComposeStop, ComposeStopFails, ListStopped,
           CommandFails, CommandRefused, Chown, Probe, ProbeMissing, Guard,
           GuardRefuses, InitRepo, Verify, CheckBefore, Copy, Forget,
           CheckAfter, NothingToStart, Recheck, RecheckLost, RecheckAgain,
           RecheckFails, CannotRebuild, ListStarted,
           ListStop, ListStopFails, ListStartFails, Report, Crash,
           Removed, Stopped, Started, DiskChanged, Worked, Meddle
  <2> QED
    BY <2>2, <2>3, <2>4, <2>5
<1> QED
  BY <1>1, BackupInvariant, PTL DEF Spec, StoppedStaysStopped

(* A folder with an earlier repository's keys or data is never made a new  *)
(* repository: the guard looks before restic does, and stands for as long  *)
(* as nobody changes the disk.                                             *)
THEOREM OrphansStay == Spec => OrphanLeftAlone
<1> DEFINE Kept == \A r \in Repos \ swapped :
                     repo[r] = "orphan" /\ meddles' = meddles
                       => repo'[r] = "orphan"
<1>1. IInv /\ [Next]_vars => [Kept]_vars
  <2> SUFFICES ASSUME IInv, [Next]_vars, NEW r \in Repos \ swapped,
                      repo[r] = "orphan", meddles' = meddles
               PROVE  repo'[r] = "orphan"
    OBVIOUS
  <2> USE BackupAssumption DEF BackupAssumption, Repo, IInv, TypeOK,
        serverVars, resultVars, stackVars, seenVars, boundVars, dockerVars
  <2>1. CASE InitRepo
    BY <2>1 DEF InitRepo, Worked, GuardHolds
  <2>2. CASE CommandFails
    <3>1. pc \in {"init", "copy", "forget"} \/ repo' = repo
      BY <2>2 DEF CommandFails
    <3>2. pc \in {"init", "copy", "forget"} => r # RepoOf[cur]
      BY DEF GuardHolds
    <3> QED
      BY <2>2, <3>1, <3>2 DEF CommandFails
  <2>3. repo' = repo \/ InitRepo \/ CommandFails
    BY DEF Next, Runner, Others, vars, SkipBroken, BadConfig, Begin, Find,
           FindRefuses, FindFails, ComposeStop, ComposeStopFails, ListStopped,
           CommandRefused, Chown, Probe, ProbeMissing, Guard,
           GuardRefuses, Verify, CheckBefore, Copy, Forget,
           CheckAfter, NothingToStart, Recheck, RecheckLost, RecheckAgain,
           RecheckFails, CannotRebuild, ListStarted, ComposeStart,
           ComposeStartMissing, ComposeStartFails, Up, UpFails, Done, Settle,
           NotStarted, Starting, ListStart,
           ListStop, ListStopFails, ListStartFails, Report, Crash,
           Removed, Stopped, Started, DiskChanged, Worked, Meddle
  <2> QED
    BY <2>1, <2>2, <2>3
<1> QED
  BY <1>1, BackupInvariant, PTL DEF Spec, OrphanLeftAlone
=============================================================================
