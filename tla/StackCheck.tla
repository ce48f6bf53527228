----------------------------- MODULE StackCheck -----------------------------
(**************************************************************************)
(* The look the deploy script takes at the containers it has started         *)
(* (cli/deploy/deploy-script.ts): up, the restart counts after it, one       *)
(* wait for all stacks, a look at each, a second wait and a second look      *)
(* for the stacks with a container that was restarted once, and what         *)
(* parseDeployResults makes of the markers.                                  *)
(*                                                                           *)
(* Containers crash, are restarted by docker and are made anew by others     *)
(* at any time.  A finishing time is kept as before or since the stack's     *)
(* up.                                                                       *)
(**************************************************************************)
EXTENDS Naturals, FiniteSets, Sequences

CONSTANTS
  Order,        \* the stacks, in the order of the script
  Conts,        \* containers
  ProjectOf,    \* container -> its stack
  MaxCrashes,   \* bound: crashes of containers
  MaxRemakes    \* bound: containers made anew by others

(* A project lists a stack once: stack add appends no name that is there.    *)
ASSUME OrderIsSeq ==
  /\ Order \in Seq(STRING) /\ Len(Order) > 0
  /\ \A i, j \in 1..Len(Order) : Order[i] = Order[j] => i = j
ASSUME ProjectOfType ==
  ProjectOf \in [Conts -> {Order[i] : i \in 1..Len(Order)}]
ASSUME CheckBounds == MaxCrashes \in Nat /\ MaxRemakes \in Nat

VARIABLES
  at,        \* <<phase, position>> of the script
  status,    \* container -> what docker inspect says of it
  since,     \* container -> it has finished after its stack's up began
  restarts,  \* container -> RestartCount
  counted,    \* container -> RestartCount after up, or NoCount
  upOk,      \* stacks whose up exited 0
  suspects,  \* containers seen restarted exactly once by the first look
  undecided, \* stacks that have one, and get their result from the second
  markers,   \* stack -> the result markers it has printed
  cutOff,       \* the connection broke: the rest is not printed
  early, late, \* containers' crashes between the counts and the first look,
               \* and between the two looks (history)
  since_up,  \* containers that have crashed since up (history)
  crashes, remakes

contVars == <<status, since, restarts, early, late, since_up, crashes,
              remakes>>
lookVars == <<counted, upOk, suspects, undecided, markers, cutOff>>
checkVars == <<at, contVars, lookVars>>

NoCount == MaxCrashes + 1
Of(s) == {c \in Conts : ProjectOf[c] = s}
Results == {"success", "failed"}

CheckTypeOK ==
  /\ at \in {"up", "wait", "look", "wait2", "look2", "parsed"}
            \X (1..(Len(Order) + 1))
  /\ status \in [Conts -> {"absent", "running", "restarting", "exited0",
                           "exited1"}]
  /\ since \in [Conts -> BOOLEAN]
  /\ restarts \in [Conts -> 0..MaxCrashes]
  /\ counted \in [Conts -> 0..NoCount]
  /\ upOk \subseteq {Order[i] : i \in 1..Len(Order)}
  /\ suspects \subseteq Conts
  /\ undecided \subseteq upOk /\ cutOff \in BOOLEAN
  /\ DOMAIN markers = {Order[i] : i \in 1..Len(Order)}
  /\ \A s \in DOMAIN markers : markers[s] \subseteq Results
  /\ early \in [Conts -> 0..MaxCrashes] /\ late \in [Conts -> 0..MaxCrashes]
  /\ since_up \subseteq Conts
  /\ crashes \in 0..MaxCrashes /\ remakes \in 0..MaxRemakes

(* Containers of an earlier deploy: absent, up, or failed long ago.          *)
CheckInit ==
  /\ at = <<"up", 1>>
  /\ status = [c \in Conts |-> "absent"]
  /\ since = [c \in Conts |-> FALSE]
  /\ restarts = [c \in Conts |-> 0]
  /\ counted = [c \in Conts |-> NoCount]
  /\ upOk = {} /\ suspects = {} /\ undecided = {} /\ since_up = {}
  /\ cutOff = FALSE
  /\ markers = [s \in {Order[i] : i \in 1..Len(Order)} |-> {}]
  /\ early = [c \in Conts |-> 0] /\ late = [c \in Conts |-> 0]
  /\ crashes = 0 /\ remakes = 0

Here == Order[at[2]]
Is(phase) == at[1] = phase /\ at[2] <= Len(Order)
Done(phase) == at[1] = phase /\ at[2] > Len(Order)
Move == at' = <<at[1], at[2] + 1>>
Report(s, r) == markers' = [markers EXCEPT ![s] = @ \cup {r}]

-----------------------------------------------------------------------------
(* up starts what the stack has; some services are one-offs that end         *)
(* well, or old ones that failed before and are not part of it any more.     *)
UpStack ==
  /\ Is("up") /\ Here \notin upOk
  /\ \E st \in [Of(Here) -> {"running", "exited0", "exited1", "absent"}] :
       status' = [c \in Conts |-> IF c \in Of(Here) THEN st[c] ELSE status[c]]
  /\ upOk' = upOk \cup {Here}
  /\ UNCHANGED <<at, since, restarts, early, late, since_up, crashes, remakes,
                 counted, suspects, undecided, markers, cutOff>>

UpStackFails ==
  /\ Is("up") /\ Here \notin upOk
  /\ Report(Here, "failed") /\ Move
  /\ UNCHANGED <<contVars, counted, upOk, suspects, undecided, cutOff>>

(* The restart counts, taken after up and any restart.                       *)
CountRestarts ==
  /\ Is("up") /\ Here \in upOk
  /\ counted' = [c \in Conts |->
                  IF c \in Of(Here) /\ status[c] # "absent" THEN restarts[c]
                  ELSE counted[c]]
  /\ Move
  /\ UNCHANGED <<contVars, upOk, suspects, undecided, markers, cutOff>>

WaitEnds ==
  /\ \/ Done("up") /\ at' = <<"look", 1>>
     \/ Done("look") /\ at' = <<"look2", 1>>
  /\ UNCHANGED <<contVars, lookVars>>

-----------------------------------------------------------------------------
(* Mutant: off by one, two restarts count as one.                            *)
ReasonLenient(c) ==
  IF status[c] = "restarting" THEN "is restarting"
  ELSE IF status[c] = "exited1" /\ since[c] THEN "exited"
  ELSE IF counted[c] = NoCount THEN ""
  ELSE IF restarts[c] > counted[c] + 2 THEN "keeps restarting"
  ELSE IF restarts[c] > counted[c] THEN "restarted"
  ELSE ""

(* rostok_look: why a container counts as failed, or "" and "restarted".     *)
Reason(c) ==
  IF status[c] = "restarting" THEN "is restarting"
  ELSE IF status[c] = "exited1" /\ since[c] THEN "exited"
  ELSE IF counted[c] = NoCount THEN ""
  ELSE IF restarts[c] >= counted[c] + 2 THEN "keeps restarting"
  ELSE IF restarts[c] > counted[c] THEN "restarted"
  ELSE ""

Finds(cs, reasons) ==
  {c \in cs : status[c] # "absent" /\ Reason(c) \in reasons}
Failures == {"is restarting", "exited", "keeps restarting"}

(* The first look.  A stack with a container restarted once, and nothing     *)
(* worse, is not decided yet.                                                *)
Look ==
  /\ Is("look") /\ Move
  /\ LET failed == Finds(Of(Here), Failures)
         once   == Finds(Of(Here), {"restarted"})
     IN  IF Here \notin upOk
         THEN UNCHANGED <<suspects, undecided, markers>>
         ELSE IF failed # {} \/ once = {}
         THEN /\ Report(Here, IF failed = {} THEN "success" ELSE "failed")
              /\ UNCHANGED <<suspects, undecided>>
         ELSE /\ suspects' = suspects \cup once
              /\ undecided' = undecided \cup {Here}
              /\ UNCHANGED markers
  /\ UNCHANGED <<contVars, counted, upOk, cutOff>>

(* The second look counts only the containers that restarted once.           *)
LookAgain ==
  /\ Is("look2") /\ Move
  /\ IF Here \notin undecided THEN UNCHANGED markers
     ELSE Report(Here, IF Finds(Of(Here) \cap suspects, Failures) = {}
                      THEN "success" ELSE "failed")
  /\ UNCHANGED <<contVars, counted, upOk, suspects, undecided, cutOff>>

(* The results are parsed when the script has ended, or ssh has.             *)
ScriptOver ==
  /\ \/ Done("look2") /\ UNCHANGED cutOff
     \/ at[1] # "parsed" /\ cutOff' = TRUE
  /\ at' = <<"parsed", 1>>
  /\ UNCHANGED <<contVars, counted, upOk, suspects, undecided, markers>>

Success(s) == markers[s] = {"success"}

-----------------------------------------------------------------------------
(* The containers.  A crash is counted where the script could see it.      *)
Counting(c) == counted[c] # NoCount /\ markers[ProjectOf[c]] = {}
SecondWait(c) == ProjectOf[c] \in undecided

Crash(c) ==
  /\ status[c] = "running" /\ crashes < MaxCrashes /\ at[1] # "parsed"
  /\ \E policy \in {"restarting", "exited1"} :
       status' = [status EXCEPT ![c] = policy]
  /\ since' = [since EXCEPT ![c] = TRUE]
  /\ since_up' = since_up \cup {c}
  /\ crashes' = crashes + 1
  /\ IF Counting(c) /\ SecondWait(c)
     THEN late' = [late EXCEPT ![c] = @ + 1] /\ UNCHANGED early
     ELSE IF Counting(c)
     THEN early' = [early EXCEPT ![c] = @ + 1] /\ UNCHANGED late
     ELSE UNCHANGED <<early, late>>
  /\ UNCHANGED <<at, restarts, remakes, lookVars>>

DockerRestarts(c) ==
  /\ status[c] = "restarting"
  /\ status' = [status EXCEPT ![c] = "running"]
  /\ restarts' = [restarts EXCEPT ![c] = @ + 1]
  /\ UNCHANGED <<at, since, early, late, since_up, crashes, remakes, lookVars>>

(* Watchtower or a person makes the container anew: another id, which the    *)
(* counts do not hold.                                                       *)
Remake(c) ==
  /\ status[c] # "absent" /\ remakes < MaxRemakes /\ at[1] # "parsed"
  /\ remakes' = remakes + 1
  /\ status' = [status EXCEPT ![c] = "running"]
  /\ restarts' = [restarts EXCEPT ![c] = 0]
  /\ counted' = [counted EXCEPT ![c] = NoCount]
  /\ suspects' = suspects \ {c}
  /\ early' = [early EXCEPT ![c] = 0] /\ late' = [late EXCEPT ![c] = 0]
  /\ UNCHANGED <<at, since, since_up, crashes, upOk, undecided, markers,
                 cutOff>>

CheckNext ==
  \/ UpStack \/ UpStackFails \/ CountRestarts \/ WaitEnds
  \/ Look \/ LookAgain \/ ScriptOver
  \/ \E c \in Conts : Crash(c) \/ DockerRestarts(c) \/ Remake(c)

-----------------------------------------------------------------------------
(* A stack is never reported as started when a container of it crashed       *)
(* twice before the first look, or once before each of the two: a loop       *)
(* slower than one wait is caught by the second.                             *)
CrashLoopReported ==
  \A c \in Conts : Success(ProjectOf[c]) =>
    early[c] < 2 /\ (early[c] = 1 => late[c] = 0)

(* A stack whose up went well is reported as failed only when a container    *)
(* of it has crashed since: neither one that failed long ago nor one that    *)
(* somebody made anew counts.                                                *)
NoFalseAlarm ==
  \A s \in upOk : "failed" \in markers[s] => since_up \cap Of(s) # {}

(* Every stack gets one result; when the script was cut off, a stack         *)
(* without one does not count as started.                                    *)
OneResultEach ==
  at[1] = "parsed" =>
    \A s \in DOMAIN markers :
      Cardinality(markers[s]) = 1 \/ (cutOff /\ markers[s] = {})
=============================================================================
