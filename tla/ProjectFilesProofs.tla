------------------------- MODULE ProjectFilesProofs -------------------------
(* What ProjectFiles' properties rest on, proved for every catalog, every  *)
(* graph of requirements and every set of variables.                       *)
EXTENDS ProjectFiles, SequenceTheorems, TLAPS

Call == [name : Stacks, missing : SUBSET Stacks]

-----------------------------------------------------------------------------
(* The inductive invariant.                                                *)

Removing == pc \in {"removeConfig", "removeEnv"}

(* The adds under way are of different stacks of the catalog, all marked.   *)
Chain ==
  /\ NoEndlessChain
  /\ \A i \in DOMAIN calls : calls[i].name \in visiting
  /\ \A i \in DOMAIN calls : calls[i].name \in Catalog
  /\ Removing => calls = <<>>
  /\ pc = "idle" => calls = <<>>

(* Each add under way knows what has become of every requirement of its    *)
(* stack: it is listed, declined, still to be asked about, or being added. *)
BeingAdded(i, r) ==
  IF i = Len(calls) THEN pc = "enter" /\ r = stack ELSE r = calls[i + 1].name

Accounted ==
  \A i \in DOMAIN calls : \A r \in Requires[calls[i].name] :
    \/ r \in config \/ r \in calls[i].missing
    \/ <<calls[i].name, r>> \in excused
    \/ BeingAdded(i, r)

(* What the next write relies on.                                          *)
Ready ==
  /\ pc = "config" => /\ \A k \in Asked(Top.name) : HasValue(k)
                      /\ Top.missing = {}
  /\ pc = "encrypt" /\ calls # <<>> => Top.name \in config
  /\ pc = "removeConfig" =>
       /\ \A d \in Dependents(stack) : <<d, stack>> \in excused
       /\ \A d \in (config \ {stack}) \cap Known :
            MetaOf(d).keys \cap dropped = {}
  /\ pc = "removeEnv" =>
       \A d \in config \cap Known : MetaOf(d).keys \cap dropped = {}
  /\ Removing => ServerKeys \cap dropped = {}

(* Only between a write of .env and the end of its command is .env.age old *)
(* without the owner's knowing.                                            *)
Told == pc \notin {"config", "encrypt"} => aged \/ warned

IInv ==
  /\ TypeOK
  /\ Chain /\ Accounted /\ Ready /\ Told
  /\ ListedHaveValues /\ RequirementsListed

-----------------------------------------------------------------------------
(* Types.                                                                  *)

LEMMA SetTypes ==
  /\ Catalog \subseteq Stacks /\ Local \subseteq Stacks
  /\ \A s \in Stacks : Requires[s] \subseteq Stacks
  /\ \A s \in Catalog : /\ CatalogMeta[s] \in Meta
                        /\ CatalogMeta[s].keys \subseteq Keys
                        /\ CatalogMeta[s].asked \subseteq Keys
                        /\ CatalogMeta[s].asked
                             \cap CatalogMeta[s].optional = {}
  /\ \A s \in Known : MetaOf(s) \in Meta /\ MetaOf(s).keys \subseteq Keys
  /\ \A s \in Known : Asked(s) \subseteq MetaOf(s).keys \cap Keys
  /\ ServerKeys \subseteq Keys
  /\ None \notin Stacks
<1> USE ProjectFilesAssumption DEF ProjectFilesAssumption
<1>1. \A s \in Catalog : /\ CatalogMeta[s] \in Meta
                         /\ CatalogMeta[s].keys \subseteq Keys
                         /\ CatalogMeta[s].asked \subseteq Keys
                         /\ CatalogMeta[s].asked
                              \cap CatalogMeta[s].optional = {}
  BY DEF Meta
<1>2. \A s \in Known : MetaOf(s) \in Meta
  BY DEF Known, MetaOf
<1>3. \A s \in Known : MetaOf(s).keys \subseteq Keys
  BY <1>2 DEF Meta
<1>4. \A s \in Known : Asked(s) \subseteq MetaOf(s).keys \cap Keys
  BY <1>3 DEF Asked, Needed
<1> QED
  BY <1>1, <1>2, <1>3, <1>4

LEMMA CallsTypes ==
  ASSUME TypeOK
  PROVE  /\ calls \in Seq(Call) /\ Len(calls) \in Nat
         /\ DOMAIN calls = 1..Len(calls)
         /\ \A i \in DOMAIN calls : /\ calls[i] \in Call
                                    /\ calls[i].name \in Stacks
                                    /\ calls[i].missing \subseteq Stacks
<1>1. calls \in Seq(Call)
  BY DEF TypeOK, Call
<1>2. Len(calls) \in Nat /\ DOMAIN calls = 1..Len(calls)
  BY <1>1, LenProperties
<1>3. \A i \in DOMAIN calls : calls[i] \in Call
  BY <1>1, <1>2, ElementOfSeq
<1> QED
  BY <1>1, <1>2, <1>3 DEF Call

(* The innermost add exists where a step relies on it.                     *)
LEMMA TopTypes ==
  ASSUME TypeOK, calls # <<>>
  PROVE  /\ Len(calls) \in 1..Len(calls) /\ Len(calls) \in DOMAIN calls
         /\ Top \in Call /\ Top.name \in Stacks /\ Top.missing \subseteq Stacks
<1>1. Len(calls) # 0
  BY CallsTypes, EmptySeq
<1> QED
  BY <1>1, CallsTypes DEF Top

(* The calls after one more add.                                           *)
LEMMA Entered ==
  ASSUME TypeOK, NEW c \in Call, calls' = Append(calls, c)
  PROVE  /\ calls' \in Seq(Call) /\ calls' # <<>>
         /\ Len(calls') = Len(calls) + 1
         /\ DOMAIN calls' = 1..(Len(calls) + 1)
         /\ \A i \in DOMAIN calls : calls'[i] = calls[i]
         /\ calls'[Len(calls) + 1] = c
<1>1. calls \in Seq(Call)
  BY CallsTypes
<1>2. calls' \in Seq(Call)
  BY <1>1, AppendProperties
<1> QED
  BY <1>1, <1>2, CallsTypes, AppendProperties, LenProperties

(* The calls after a requirement has been handled.                         *)
LEMMA HandledCalls ==
  ASSUME TypeOK, calls # <<>>, NEW r, calls' = Handled(r)
  PROVE  /\ calls' \in Seq(Call) /\ calls' # <<>>
         /\ Len(calls') = Len(calls) /\ DOMAIN calls' = DOMAIN calls
         /\ \A i \in DOMAIN calls :
              /\ calls'[i].name = calls[i].name
              /\ calls'[i].missing = IF i = Len(calls)
                                     THEN calls[i].missing \ {r}
                                     ELSE calls[i].missing
<1> DEFINE n == Len(calls)
           c == [Top EXCEPT !.missing = @ \ {r}]
<1>1. n \in 1..Len(calls) /\ Top \in Call /\ n \in Nat /\ n # 0
  BY TopTypes, CallsTypes
<1>2. c \in Call /\ c.name = Top.name /\ c.missing = Top.missing \ {r}
  BY <1>1 DEF Call
<1>3. calls' = [calls EXCEPT ![n] = c]
  BY DEF Handled, Top
<1>4. calls' \in Seq(Call) /\ Len(calls') = n
  BY <1>1, <1>2, <1>3, CallsTypes, ExceptSeq
<1>5. DOMAIN calls' = DOMAIN calls
  BY <1>3
<1>6. \A i \in DOMAIN calls : calls'[i] = IF i = n THEN c ELSE calls[i]
  BY <1>3
<1>7. calls' # <<>>
  BY <1>1, <1>4, EmptySeq
<1> QED
  BY <1>2, <1>4, <1>5, <1>6, <1>7 DEF Top

(* The calls after the innermost add has returned to another.              *)
LEMMA ReturnedCalls ==
  ASSUME TypeOK, Len(calls) > 1, calls' = SubSeq(calls, 1, Len(calls) - 1)
  PROVE  /\ calls' \in Seq(Call) /\ calls' # <<>>
         /\ Len(calls') = Len(calls) - 1
         /\ DOMAIN calls' = 1..(Len(calls) - 1)
         /\ \A i \in DOMAIN calls' : calls'[i] = calls[i]
<1> DEFINE n == Len(calls) - 1
<1>1. n \in Nat /\ n # 0 /\ 1 \in Int /\ n \in Int /\ 1 <= n
  BY CallsTypes
<1>2. \A i \in 1..n : calls[i] \in Call
  BY <1>1, CallsTypes
<1>3. /\ SubSeq(calls, 1, n) \in Seq(Call)
      /\ Len(SubSeq(calls, 1, n)) = IF 1 <= n THEN n - 1 + 1 ELSE 0
      /\ \A i \in 1..(n - 1 + 1) : SubSeq(calls, 1, n)[i] = calls[1 + i - 1]
  BY <1>1, <1>2, SubSeqProperties
<1>4. calls' \in Seq(Call) /\ Len(calls') = n
  BY <1>1, <1>3
<1>5. DOMAIN calls' = 1..n
  BY <1>4, LenProperties
<1>6. calls' # <<>>
  BY <1>1, <1>4, EmptySeq
<1>7. \A i \in 1..n : calls'[i] = calls[i]
  BY <1>1, <1>3
<1> QED
  BY <1>4, <1>5, <1>6, <1>7

LEMMA InitTypes == Init => TypeOK
<1> SUFFICES ASSUME Init PROVE TypeOK
  OBVIOUS
<1>1. config \subseteq Stacks
  BY SetTypes DEF Init
<1>2. calls \in Seq(Call)
  BY EmptySeq DEF Init
<1>3. env \in [Keys -> {"none", "blank", "set"}]
  BY DEF Init
<1> QED
  BY <1>1, <1>2, <1>3 DEF Init, TypeOK, Call

(* A command that is over leaves its own variables as it found them.       *)
LEMMA ReturnTypes ==
  ASSUME TypeOK, NEW result \in {"ok", "failed", "cycle", "died"},
         Return(result),
         config' \subseteq Stacks, torn' \in BOOLEAN,
         env' \in [Keys -> {"none", "blank", "set"}],
         aged' \in BOOLEAN, blanked' \subseteq Keys,
         excused' \subseteq Stacks \X Stacks, warned' \in BOOLEAN
  PROVE  TypeOK'
<1>1. calls' \in Seq(Call)
  BY EmptySeq DEF Return
<1> QED
  BY <1>1 DEF TypeOK, Return, Call

LEMMA ReturnedTypes ==
  ASSUME TypeOK, Returned, UNCHANGED <<config, torn, env, blanked, excused>>,
         aged' \in BOOLEAN, warned' \in BOOLEAN, pc = "encrypt"
  PROVE  TypeOK'
<1>1. CASE Len(calls) <= 1
  BY <1>1, ReturnTypes DEF TypeOK, Returned
<1>2. CASE Len(calls) > 1
  <2>1. /\ pc' = "requires" /\ calls' = SubSeq(calls, 1, Len(calls) - 1)
        /\ UNCHANGED <<stack, visiting, interactive, blanks, dropped, outcome>>
    BY <1>2, CallsTypes DEF Returned
  <2>2. calls' \in Seq(Call) /\ calls' # <<>>
    BY <1>2, <2>1, ReturnedCalls
  <2> QED
    BY <2>1, <2>2 DEF TypeOK, Call
<1> QED
  BY <1>1, <1>2, CallsTypes

LEMMA StepTypes == TypeOK /\ [Next]_vars => TypeOK'
<1> SUFFICES ASSUME TypeOK, [Next]_vars PROVE TypeOK'
  OBVIOUS
<1> USE DEF fileVars, commandVars, seenVars
<1>1. ASSUME NEW s \in Stacks, NEW ask \in BOOLEAN,
             NEW given \in SUBSET Keys, Add(s, ask, given)
      PROVE  TypeOK'
  BY <1>1, SetTypes DEF TypeOK, Add
<1>2. CASE EnterRefused \/ EnterCycle \/ NoValue
  BY <1>2, ReturnTypes DEF TypeOK, EnterRefused, EnterCycle, NoValue
<1>3. CASE Enter
  <2> DEFINE c == [name |-> stack, missing |-> Requires[stack] \ config]
  <2>1. stack \in Stacks
    BY <1>3 DEF Enter, TypeOK
  <2>2. c \in Call
    BY <2>1, SetTypes DEF Call
  <2>3. calls' \in Seq(Call) /\ calls' # <<>>
    BY <1>3, <2>2, Entered DEF Enter
  <2>4. excused' \subseteq Stacks \X Stacks
    BY <1>3 DEF Enter, TypeOK
  <2> QED
    BY <1>3, <2>1, <2>3, <2>4 DEF Enter, TypeOK, Call
<1>4. ASSUME NEW r \in Stacks, AddRequired(r) PROVE TypeOK'
  <2>1. calls' \in Seq(Call) /\ calls' # <<>>
    BY <1>4, HandledCalls DEF AddRequired, TypeOK
  <2> QED
    BY <1>4, <2>1, SetTypes DEF AddRequired, TypeOK, Call
<1>5. ASSUME NEW r \in Stacks, Decline(r) PROVE TypeOK'
  <2>1. calls' \in Seq(Call) /\ calls' # <<>>
    BY <1>5, HandledCalls DEF Decline, TypeOK
  <2>2. <<Top.name, r>> \in Stacks \X Stacks
    BY <1>5, TopTypes DEF Decline, TypeOK
  <2> QED
    BY <1>5, <2>1, <2>2 DEF Decline, TypeOK, Call
<1>6. CASE WriteEnv
  <2>1. env' \in [Keys -> {"none", "blank", "set"}]
    BY <1>6 DEF WriteEnv
  <2>2. blanked' \subseteq Keys
    BY <1>6 DEF WriteEnv
  <2> QED
    BY <1>6, <2>1, <2>2 DEF WriteEnv, TypeOK
<1>7. CASE WriteConfig
  <2>1. config' \subseteq Stacks
    BY <1>7, TopTypes DEF WriteConfig, TypeOK
  <2> QED
    BY <1>7, <2>1 DEF WriteConfig, TypeOK
<1>8. ASSUME NEW s \in Stacks, NEW force \in BOOLEAN, RemoveRefused(s, force)
      PROVE  TypeOK'
  BY <1>8 DEF TypeOK, RemoveRefused
<1>9. ASSUME NEW s \in Stacks, NEW force \in BOOLEAN, NEW drop \in BOOLEAN,
             Remove(s, force, drop)
      PROVE  TypeOK'
  <2>1. dropped' \subseteq Keys
    BY <1>9 DEF Remove, Candidates, Present
  <2>2. excused' \subseteq Stacks \X Stacks
    BY <1>9 DEF Remove, Dependents, TypeOK
  <2> QED
    BY <1>9, <2>1, <2>2, SetTypes DEF Remove, TypeOK
<1>10. CASE RemoveConfig
  <2>1. CASE stack \in Known
    BY <1>10, <2>1 DEF RemoveConfig, TypeOK
  <2>2. CASE stack \notin Known
    BY <1>10, <2>2, ReturnTypes DEF RemoveConfig, TypeOK
  <2> QED
    BY <2>1, <2>2
<1>11. CASE RemoveEnv
  <2>1. aged' \in BOOLEAN /\ warned' \in BOOLEAN
    BY <1>11 DEF RemoveEnv, TypeOK
  <2>2. env' \in [Keys -> {"none", "blank", "set"}] /\ blanked' \subseteq Keys
    BY <1>11 DEF RemoveEnv, TypeOK
  <2> QED
    BY <1>11, <2>1, <2>2 DEF RemoveEnv, TypeOK
<1>12. CASE Encrypt \/ NotEncrypted
  BY <1>12, ReturnedTypes DEF Encrypt, NotEncrypted, TypeOK
<1>13. CASE Die
  BY <1>13, ReturnTypes DEF Die, TypeOK
<1>14. CASE Repair
  BY <1>14 DEF Repair, TypeOK
<1>15. CASE UNCHANGED vars
  BY <1>15 DEF vars, TypeOK
<1> QED
  BY <1>1, <1>2, <1>3, <1>4, <1>5, <1>6, <1>7, <1>8, <1>9, <1>10, <1>11,
     <1>12, <1>13, <1>14, <1>15 DEF Next, Command

(* Every variable keeps its type, and a step that works for an add finds   *)
(* one.                                                                    *)
THEOREM ProjectTypes == Spec => []TypeOK
BY InitTypes, StepTypes, PTL DEF Spec

-----------------------------------------------------------------------------
(* Preservation: the adds under way.                                       *)

(* A command that is over has no adds under way.                           *)
LEMMA Idle ==
  ASSUME NEW result, Return(result)
  PROVE  /\ Chain' /\ Accounted' /\ Ready'
         /\ pc' = "idle" /\ calls' = <<>>
BY DEF Return, Chain, NoEndlessChain, Accounted, Ready, Removing

LEMMA ChainStep == IInv /\ [Next]_vars => Chain'
<1> SUFFICES ASSUME IInv, [Next]_vars PROVE Chain'
  OBVIOUS
<1> USE DEF IInv, fileVars, commandVars, seenVars
<1>1. ASSUME NEW s \in Stacks, NEW ask \in BOOLEAN,
             NEW given \in SUBSET Keys, Add(s, ask, given)
      PROVE  Chain'
  BY <1>1 DEF Add, Chain, NoEndlessChain, Removing
<1>2. CASE EnterRefused \/ EnterCycle \/ NoValue \/ Die
  BY <1>2, Idle DEF EnterRefused, EnterCycle, NoValue, Die
<1>3. CASE Enter
  <2> DEFINE c == [name |-> stack, missing |-> Requires[stack] \ config]
             n == Len(calls)
  <2>1. c \in Call
    BY <1>3, SetTypes DEF Call, Enter, TypeOK
  <2>2. /\ n \in Nat /\ DOMAIN calls = 1..n /\ DOMAIN calls' = 1..(n + 1)
        /\ \A i \in 1..n : calls'[i] = calls[i]
        /\ calls'[n + 1] = c
    BY <1>3, <2>1, Entered, CallsTypes DEF Enter
  <2>3. \A i \in 1..n : calls'[i].name = calls[i].name
    BY <2>2
  <2>4. calls'[n + 1].name = stack
    BY <2>2
  <2>5. \A i \in 1..n : calls[i].name # stack
    BY <1>3, <2>2 DEF Enter, Chain
  <2>6. NoEndlessChain'
    BY <2>2, <2>3, <2>4, <2>5 DEF NoEndlessChain, Chain
  <2>7. \A i \in 1..(n + 1) : calls'[i].name \in visiting'
    BY <1>3, <2>2, <2>3, <2>4 DEF Enter, Chain
  <2>8. \A i \in 1..(n + 1) : calls'[i].name \in Catalog
    BY <1>3, <2>2, <2>3, <2>4 DEF Enter, Addable, Chain
  <2>9. pc' = "requires"
    BY <1>3 DEF Enter
  <2> QED
    BY <2>2, <2>6, <2>7, <2>8, <2>9 DEF Chain, Removing
<1>4. ASSUME NEW r \in Stacks, AddRequired(r) \/ Decline(r) PROVE Chain'
  <2>1. calls # <<>> /\ calls' = Handled(r) /\ visiting' = visiting
    BY <1>4 DEF AddRequired, Decline, TypeOK
  <2>2. /\ DOMAIN calls' = DOMAIN calls
        /\ \A i \in DOMAIN calls : calls'[i].name = calls[i].name
    BY <2>1, HandledCalls
  <2>3. pc' \in {"enter", "requires"}
    BY <1>4 DEF AddRequired, Decline
  <2> QED
    BY <2>1, <2>2, <2>3 DEF Chain, NoEndlessChain, Removing
<1>5. CASE WriteEnv \/ WriteConfig
  BY <1>5 DEF WriteEnv, WriteConfig, Chain, NoEndlessChain, Removing
<1>6. ASSUME NEW s \in Stacks, NEW force \in BOOLEAN, RemoveRefused(s, force)
      PROVE  Chain'
  BY <1>6 DEF RemoveRefused, Chain, NoEndlessChain, Removing
<1>7. ASSUME NEW s \in Stacks, NEW force \in BOOLEAN, NEW drop \in BOOLEAN,
             Remove(s, force, drop)
      PROVE  Chain'
  BY <1>7 DEF Remove, Chain, NoEndlessChain, Removing
<1>8. CASE RemoveConfig
  <2>1. CASE stack \in Known
    BY <1>8, <2>1 DEF RemoveConfig, Chain, NoEndlessChain, Removing
  <2> QED
    BY <1>8, <2>1, Idle DEF RemoveConfig
<1>9. CASE RemoveEnv
  BY <1>9 DEF RemoveEnv, Chain, NoEndlessChain, Removing
<1>10. CASE Encrypt \/ NotEncrypted
  <2>1. Returned
    BY <1>10 DEF Encrypt, NotEncrypted
  <2>2. CASE Len(calls) <= 1
    BY <2>1, <2>2, Idle DEF Returned
  <2>3. CASE Len(calls) > 1
    <3>1. /\ pc' = "requires" /\ visiting' = visiting
          /\ calls' = SubSeq(calls, 1, Len(calls) - 1)
      BY <2>1, <2>3, CallsTypes DEF Returned
    <3>2. /\ DOMAIN calls' \subseteq DOMAIN calls
          /\ \A i \in DOMAIN calls' : calls'[i] = calls[i]
      BY <2>3, <3>1, ReturnedCalls, CallsTypes
    <3> QED
      BY <3>1, <3>2 DEF Chain, NoEndlessChain, Removing
  <2> QED
    BY <2>2, <2>3, CallsTypes
<1>11. CASE Repair \/ UNCHANGED vars
  BY <1>11 DEF Repair, vars, Chain, NoEndlessChain, Removing
<1> QED
  BY <1>1, <1>2, <1>3, <1>4, <1>5, <1>6, <1>7, <1>8, <1>9, <1>10, <1>11
  DEF Next, Command

LEMMA AccountedStep == IInv /\ [Next]_vars => Accounted'
<1> SUFFICES ASSUME IInv, [Next]_vars PROVE Accounted'
  OBVIOUS
<1> USE DEF IInv, fileVars, commandVars, seenVars
<1>1. ASSUME calls' = <<>> PROVE Accounted'
  BY <1>1 DEF Accounted
<1>2. ASSUME NEW s \in Stacks, NEW ask \in BOOLEAN,
             NEW given \in SUBSET Keys, Add(s, ask, given)
      PROVE  Accounted'
  BY <1>1, <1>2 DEF Add, Chain
<1>3. CASE EnterRefused \/ EnterCycle \/ NoValue \/ Die
  BY <1>3, Idle DEF EnterRefused, EnterCycle, NoValue, Die
<1>4. CASE Enter
  <2> DEFINE c == [name |-> stack, missing |-> Requires[stack] \ config]
             n == Len(calls)
  <2>1. c \in Call /\ stack \in Stacks
    BY <1>4, SetTypes DEF Call, Enter, TypeOK
  <2>2. /\ n \in Nat /\ DOMAIN calls = 1..n /\ DOMAIN calls' = 1..(n + 1)
        /\ Len(calls') = n + 1
        /\ \A i \in 1..n : calls'[i] = calls[i]
        /\ calls'[n + 1] = c
    BY <1>4, <2>1, Entered, CallsTypes DEF Enter
  <2>3. c.name = stack /\ c.missing = Requires[stack] \ config
    OBVIOUS
  <2>4. UNCHANGED <<config, stack>> /\ pc = "enter"
    BY <1>4 DEF Enter
  <2>5. ASSUME NEW i \in 1..n, NEW r \in Requires[calls[i].name]
        PROVE  \/ r \in config' \/ r \in calls'[i].missing
               \/ <<calls'[i].name, r>> \in excused' \/ BeingAdded(i, r)'
    <3>1. calls[i].name # stack
      BY <1>4, <2>2 DEF Enter, Chain
    <3>2. <<calls[i].name, r>> \in excused =>
            <<calls[i].name, r>> \in excused'
      BY <1>4, <3>1 DEF Enter
    <3>3. calls'[i] = calls[i] /\ i # n + 1
      BY <2>2
    <3>4. BeingAdded(i, r) => BeingAdded(i, r)'
      <4>1. CASE i = n
        <5>1. calls'[i + 1].name = stack
          BY <2>2, <2>3, <4>1
        <5> QED
          BY <2>2, <3>3, <4>1, <5>1 DEF BeingAdded
      <4>2. CASE i # n
        <5>1. i + 1 \in 1..n
          <6>1. n \in Nat
            BY <2>2
          <6> HIDE DEF n
          <6> QED
            BY <6>1, <4>2
        <5>2. calls'[i + 1] = calls[i + 1]
          BY <2>2, <5>1
        <5> QED
          BY <2>2, <3>3, <4>2, <5>2 DEF BeingAdded
      <4> QED
        BY <4>1, <4>2
    <3>5. \/ r \in config \/ r \in calls[i].missing
          \/ <<calls[i].name, r>> \in excused \/ BeingAdded(i, r)
      BY <2>2 DEF Accounted
    <3> QED
      BY <2>4, <3>2, <3>3, <3>4, <3>5
  <2>6. \A r \in Requires[calls'[n + 1].name] :
          r \in config' \/ r \in calls'[n + 1].missing
    BY <2>2, <2>3, <2>4
  <2>7. \A i \in 1..(n + 1) : i = n + 1 \/ (i \in 1..n /\ calls'[i] = calls[i])
    BY <2>2
  <2> QED
    BY <2>2, <2>5, <2>6, <2>7 DEF Accounted
<1>5. ASSUME NEW q \in Stacks, AddRequired(q) \/ Decline(q) PROVE Accounted'
  <2> DEFINE n == Len(calls)
  <2>1. calls # <<>> /\ calls' = Handled(q) /\ UNCHANGED config
    BY <1>5 DEF AddRequired, Decline, TypeOK
  <2>2. /\ n \in DOMAIN calls /\ DOMAIN calls' = DOMAIN calls
        /\ Len(calls') = n /\ DOMAIN calls = 1..n /\ n \in Nat
        /\ \A i \in DOMAIN calls :
             /\ calls'[i].name = calls[i].name
             /\ calls'[i].missing = IF i = n THEN calls[i].missing \ {q}
                                    ELSE calls[i].missing
    BY <2>1, HandledCalls, TopTypes, CallsTypes
  <2>3. \/ pc' = "enter" /\ stack' = q
        \/ <<calls[n].name, q>> \in excused'
    BY <1>5 DEF AddRequired, Decline, Top
  <2>4. excused \subseteq excused'
    BY <1>5 DEF AddRequired, Decline
  <2>5. pc = "requires"
    BY <1>5 DEF AddRequired, Decline
  <2>6. ASSUME NEW i \in DOMAIN calls, NEW r \in Requires[calls[i].name]
        PROVE  \/ r \in config' \/ r \in calls'[i].missing
               \/ <<calls'[i].name, r>> \in excused' \/ BeingAdded(i, r)'
    <3>1. \/ r \in config \/ r \in calls[i].missing
          \/ <<calls[i].name, r>> \in excused \/ BeingAdded(i, r)
      BY DEF Accounted
    <3>2. CASE i = n
      BY <2>1, <2>2, <2>3, <2>4, <2>5, <3>1, <3>2 DEF BeingAdded
    <3>3. CASE i # n
      <4>1. i + 1 \in DOMAIN calls
        BY <2>2, <3>3
      <4>2. calls'[i + 1].name = calls[i + 1].name
        BY <2>2, <4>1
      <4> QED
        BY <2>1, <2>2, <2>4, <3>1, <3>3, <4>2 DEF BeingAdded
    <3> QED
      BY <3>2, <3>3
  <2> QED
    BY <2>2, <2>6 DEF Accounted
<1>6. CASE WriteEnv \/ WriteConfig
  BY <1>6 DEF WriteEnv, WriteConfig, Accounted, BeingAdded
<1>7. ASSUME NEW s \in Stacks, NEW force \in BOOLEAN, RemoveRefused(s, force)
      PROVE  Accounted'
  BY <1>1, <1>7 DEF RemoveRefused, Chain
<1>8. ASSUME NEW s \in Stacks, NEW force \in BOOLEAN, NEW drop \in BOOLEAN,
             Remove(s, force, drop)
      PROVE  Accounted'
  BY <1>1, <1>8 DEF Remove, Chain
<1>9. CASE RemoveConfig \/ RemoveEnv
  <2>1. calls' = <<>>
    BY <1>9 DEF RemoveConfig, RemoveEnv, Return, Chain, Removing
  <2> QED
    BY <1>1, <2>1
<1>10. CASE Encrypt \/ NotEncrypted
  <2>1. Returned /\ UNCHANGED <<config, excused>> /\ pc = "encrypt"
    BY <1>10 DEF Encrypt, NotEncrypted
  <2>2. CASE Len(calls) <= 1
    BY <2>1, <2>2, Idle DEF Returned
  <2>3. CASE Len(calls) > 1
    <3> DEFINE n == Len(calls) - 1
    <3>1. /\ pc' = "requires"
          /\ calls' = SubSeq(calls, 1, Len(calls) - 1)
      BY <2>1, <2>3, CallsTypes DEF Returned
    <3>2. /\ DOMAIN calls' = 1..n /\ Len(calls') = n /\ n \in Nat
          /\ DOMAIN calls = 1..(n + 1) /\ Len(calls) = n + 1
          /\ \A i \in 1..n : calls'[i] = calls[i]
      BY <2>3, <3>1, ReturnedCalls, CallsTypes
    <3>3. calls[n + 1].name \in config
      BY <2>1, <2>3, <3>2, EmptySeq DEF Ready, Top
    <3>4. ASSUME NEW i \in 1..n, NEW r \in Requires[calls[i].name]
          PROVE  \/ r \in config' \/ r \in calls'[i].missing
                 \/ <<calls'[i].name, r>> \in excused' \/ BeingAdded(i, r)'
      <4>1. \/ r \in config \/ r \in calls[i].missing
            \/ <<calls[i].name, r>> \in excused \/ r = calls[i + 1].name
        BY <3>2 DEF Accounted, BeingAdded
      <4>2. CASE i = n
        BY <2>1, <3>2, <3>3, <4>1, <4>2
      <4>3. CASE i # n
        <5>1. i + 1 \in 1..n
          BY <3>2, <4>3
        <5> QED
          BY <2>1, <3>2, <4>1, <4>3, <5>1 DEF BeingAdded
      <4> QED
        BY <4>2, <4>3
    <3> QED
      BY <3>2, <3>4 DEF Accounted
  <2> QED
    BY <2>2, <2>3, CallsTypes
<1>11. CASE Repair \/ UNCHANGED vars
  BY <1>11 DEF Repair, vars, Accounted, BeingAdded
<1> QED
  BY <1>2, <1>3, <1>4, <1>5, <1>6, <1>7, <1>8, <1>9, <1>10, <1>11
  DEF Next, Command

-----------------------------------------------------------------------------
(* Preservation: the files.                                                *)

(* What an add does to .env: a value that is there stays, or its owner has *)
(* taken it, and every value the add sees to is there.                     *)
LEMMA WrittenValues ==
  ASSUME IInv, WriteEnv
  PROVE  /\ \A k \in Keys : HasValue(k) => HasValue(k)'
         /\ \A k \in Keys : env[k] # "none" => env'[k] # "none"
         /\ Top.name \in Catalog
         /\ \A k \in Asked(Top.name) : HasValue(k)'
<1> DEFINE meta == CatalogMeta[Top.name]
<1>1. Top.name \in Catalog
  BY TopTypes DEF IInv, WriteEnv, TypeOK, Chain, Top
<1>2. env \in [Keys -> {"none", "blank", "set"}]
  BY DEF IInv, TypeOK
<1>3. /\ \A k \in Keys : env'[k] \in Becomes(meta, k)
      /\ blanked' = {k \in Keys : /\ env'[k] = "blank"
                                  /\ k \in blanked \cup MayBlank(meta)}
  BY DEF WriteEnv
<1>4. \A k \in Keys : env'[k] = "blank" /\ k \in blanked \cup MayBlank(meta)
                      => HasValue(k)'
  BY <1>3 DEF HasValue
<1>5. ASSUME NEW k \in Keys
      PROVE  /\ HasValue(k) => HasValue(k)'
             /\ env[k] # "none" => env'[k] # "none"
  <2>1. CASE k \in blanks \cap meta.keys
    BY <1>3, <1>4, <2>1 DEF Becomes, MayBlank
  <2>2. CASE k \notin blanks \cap meta.keys
    <3>1. \/ env'[k] = "set" \/ env'[k] = env[k]
          \/ env'[k] = "blank" /\ env[k] # "set"
      BY <1>2, <1>3, <2>2 DEF Becomes
    <3>2. HasValue(k) /\ env[k] # "set" => k \in blanked
      BY DEF HasValue
    <3> QED
      BY <1>2, <1>4, <3>1, <3>2 DEF HasValue
  <2> QED
    BY <2>1, <2>2
<1>6. ASSUME NEW k \in Asked(Top.name) PROVE HasValue(k)'
  <2>1. k \in Keys /\ k \in meta.keys \ meta.optional /\ k \notin meta.tags
    BY <1>1, SetTypes DEF Asked, Needed, Known
  <2>2. env'[k] = "set" \/ (env'[k] = "blank" /\ k \in MayBlank(meta))
    BY <1>3, <2>1 DEF Becomes, MayBlank
  <2> QED
    BY <1>4, <2>1, <2>2 DEF HasValue
<1> QED
  BY <1>1, <1>5, <1>6

LEMMA ReadyStep == IInv /\ [Next]_vars => Ready'
<1> SUFFICES ASSUME IInv, [Next]_vars PROVE Ready'
  OBVIOUS
<1> USE DEF IInv, fileVars, commandVars, seenVars
<1>1. CASE EnterRefused \/ EnterCycle \/ NoValue \/ Die
  BY <1>1, Idle DEF EnterRefused, EnterCycle, NoValue, Die
<1>2. ASSUME NEW s \in Stacks, NEW ask \in BOOLEAN,
             NEW given \in SUBSET Keys, Add(s, ask, given)
      PROVE  Ready'
  BY <1>2 DEF Add, Ready, Removing
<1>3. CASE Enter
  BY <1>3 DEF Enter, Ready, Removing
<1>4. ASSUME NEW r \in Stacks, AddRequired(r) \/ Decline(r) PROVE Ready'
  BY <1>4 DEF AddRequired, Decline, Ready, Removing
<1>5. CASE WriteEnv
  <2>1. Top.missing = {} /\ pc' = "config" /\ UNCHANGED calls
    BY <1>5 DEF WriteEnv
  <2>2. (\A k \in Asked(Top.name) : HasValue(k))'
    BY <1>5, <2>1, WrittenValues DEF Top, Asked
  <2> QED
    BY <2>1, <2>2 DEF Ready, Removing, Top
<1>6. CASE WriteConfig
  BY <1>6 DEF WriteConfig, Ready, Removing, Top
<1>7. ASSUME NEW s \in Stacks, NEW force \in BOOLEAN, RemoveRefused(s, force)
      PROVE  Ready'
  BY <1>7 DEF RemoveRefused, Ready, Removing
<1>8. ASSUME NEW s \in Stacks, NEW force \in BOOLEAN, NEW drop \in BOOLEAN,
             Remove(s, force, drop)
      PROVE  Ready'
  <2>1. /\ pc' = "removeConfig" /\ stack' = s /\ UNCHANGED config
        /\ dropped' \subseteq Candidates(s)
    BY <1>8 DEF Remove
  <2>2. ServerKeys \cap dropped' = {}
    BY <2>1 DEF Candidates
  <2>3. \A d \in (config \ {s}) \cap Known : MetaOf(d).keys \cap dropped' = {}
    BY <2>1 DEF Candidates
  <2>4. \A d \in Dependents(s) : <<d, s>> \in excused'
    BY <1>8 DEF Remove
  <2> QED
    BY <2>1, <2>2, <2>3, <2>4 DEF Ready, Removing, Dependents
<1>9. CASE RemoveConfig
  <2>1. CASE stack \in Known
    BY <1>9, <2>1 DEF RemoveConfig, Ready, Removing
  <2> QED
    BY <1>9, <2>1, Idle DEF RemoveConfig
<1>10. CASE RemoveEnv
  <2>1. pc' = "encrypt" /\ calls' = <<>>
    BY <1>10 DEF RemoveEnv, Chain, Removing
  <2> QED
    BY <2>1 DEF Ready, Removing
<1>11. CASE Encrypt \/ NotEncrypted
  <2>1. pc' = "requires" \/ Return("ok")
    BY <1>11 DEF Encrypt, NotEncrypted, Returned
  <2> QED
    BY <2>1, Idle DEF Ready, Removing
<1>12. CASE Repair \/ UNCHANGED vars
  <2>1. /\ UNCHANGED <<config, env, pc, stack, calls, dropped>>
        /\ UNCHANGED <<blanked, excused>>
    BY <1>12 DEF Repair, vars
  <2> QED
    BY <2>1 DEF Ready, Removing, Top, Dependents, HasValue, Asked
<1> QED
  BY <1>1, <1>2, <1>3, <1>4, <1>5, <1>6, <1>7, <1>8, <1>9, <1>10, <1>11, <1>12
  DEF Next, Command

LEMMA ToldStep == IInv /\ [Next]_vars => Told'
<1> SUFFICES ASSUME IInv, [Next]_vars PROVE Told'
  OBVIOUS
<1> USE DEF IInv, fileVars, seenVars, Told
<1>1. CASE EnterRefused \/ EnterCycle \/ NoValue
  BY <1>1 DEF EnterRefused, EnterCycle, NoValue, Return
<1>2. CASE Die \/ Encrypt \/ NotEncrypted
  BY <1>2 DEF Die, Encrypt, NotEncrypted, TypeOK
<1>3. CASE WriteEnv \/ WriteConfig
  BY <1>3 DEF WriteEnv, WriteConfig
<1>4. CASE RemoveConfig \/ RemoveEnv
  BY <1>4 DEF RemoveConfig, RemoveEnv, Return
<1> QED
  BY <1>1, <1>2, <1>3, <1>4
  DEF Next, Command, Add, Enter, AddRequired, Decline, RemoveRefused, Remove,
      Repair, vars, commandVars

LEMMA ValuesStep == IInv /\ [Next]_vars => ListedHaveValues'
<1> SUFFICES ASSUME IInv, [Next]_vars PROVE ListedHaveValues'
  OBVIOUS
<1> USE DEF IInv, fileVars, seenVars, ListedHaveValues
<1>1. CASE WriteEnv
  <2>1. config' = config
    BY <1>1 DEF WriteEnv
  <2> QED
    BY <1>1, <2>1, WrittenValues, SetTypes DEF Asked
<1>2. CASE WriteConfig
  BY <1>2 DEF WriteConfig, Ready, HasValue, Asked
<1>3. CASE RemoveConfig
  BY <1>3 DEF RemoveConfig, HasValue, Asked
<1>4. CASE RemoveEnv
  <2>1. /\ config' = config /\ blanked' = blanked \ dropped
        /\ \A k \in Keys \ dropped : env'[k] = env[k]
    BY <1>4 DEF RemoveEnv
  <2>2. \A k \in Keys \ dropped : HasValue(k) => HasValue(k)'
    BY <2>1 DEF HasValue
  <2>3. \A s \in config \cap Known : MetaOf(s).keys \cap dropped = {}
    BY <1>4 DEF RemoveEnv, Ready
  <2>4. ServerKeys \cap dropped = {}
    BY <1>4 DEF RemoveEnv, Ready, Removing
  <2>5. \A s \in config \cap Known : \A k \in Asked(s) : k \in Keys \ dropped
    BY <2>3, SetTypes
  <2> QED
    BY <2>1, <2>2, <2>4, <2>5, SetTypes DEF Asked
<1>5. CASE UNCHANGED <<config, env, blanked>>
  BY <1>5 DEF HasValue, Asked
<1> QED
  BY <1>1, <1>2, <1>3, <1>4, <1>5
  DEF Next, Command, Add, EnterRefused, EnterCycle, Enter, AddRequired,
      Decline, NoValue, RemoveRefused, Remove, Encrypt, NotEncrypted, Die,
      Repair, vars

LEMMA ListedStep == IInv /\ [Next]_vars => RequirementsListed'
<1> SUFFICES ASSUME IInv, [Next]_vars PROVE RequirementsListed'
  OBVIOUS
<1> USE DEF IInv, fileVars, seenVars, RequirementsListed
<1>1. CASE Enter
  BY <1>1 DEF Enter
<1>2. CASE WriteConfig
  <2>1. calls # <<>> /\ pc = "config"
    BY <1>2 DEF WriteConfig, TypeOK
  <2>2. \A r \in Requires[Top.name] :
          r \in config \/ <<Top.name, r>> \in excused
    BY <2>1, TopTypes DEF Accounted, BeingAdded, Ready, Top
  <2> QED
    BY <1>2, <2>2 DEF WriteConfig
<1>3. CASE RemoveConfig
  <2>1. config' = config \ {stack} /\ UNCHANGED excused
    BY <1>3 DEF RemoveConfig
  <2>2. \A d \in (config \cap Catalog) \ {stack} :
          stack \in Requires[d] => <<d, stack>> \in excused
    BY <1>3 DEF RemoveConfig, Ready, Dependents
  <2> QED
    BY <2>1, <2>2
<1>4. CASE UNCHANGED config /\ excused \subseteq excused'
  BY <1>4
<1> QED
  BY <1>1, <1>2, <1>3, <1>4
  DEF Next, Command, Add, EnterRefused, EnterCycle, AddRequired, Decline,
      WriteEnv, NoValue, RemoveRefused, Remove, RemoveEnv, Encrypt,
      NotEncrypted, Die, Repair, vars

LEMMA Initially == Init => IInv
<1> SUFFICES ASSUME Init PROVE IInv
  OBVIOUS
<1>1. TypeOK /\ Chain /\ Accounted
  BY InitTypes DEF Init, Chain, NoEndlessChain, Accounted, Removing
<1>2. Ready /\ Told /\ RequirementsListed
  BY DEF Init, Ready, Told, RequirementsListed, Removing
<1>3. ListedHaveValues
  <2>1. \A s \in config : Asked(s) = Needed(OwnMeta[s]) /\ s \in Known
    BY DEF Init, Asked, MetaOf, Known
  <2> QED
    BY <2>1, SetTypes DEF Init, ListedHaveValues, HasValue
<1> QED
  BY <1>1, <1>2, <1>3 DEF IInv

LEMMA Inductive == IInv /\ [Next]_vars => IInv'
BY StepTypes, ChainStep, AccountedStep, ReadyStep, ToldStep, ValuesStep,
   ListedStep
DEF IInv

(* Every add under way accounts for what its stack requires, and every     *)
(* write finds what it relies on.                                          *)
THEOREM ProjectInvariant == Spec => []IInv
BY Initially, Inductive, PTL DEF Spec

(* A listed stack has the values its add sees to in .env, or its owner's   *)
(* word that there is none, whenever a command dies.                       *)
THEOREM ValuesStay == Spec => []ListedHaveValues
<1>1. IInv => ListedHaveValues
  BY DEF IInv
<1> QED
  BY <1>1, ProjectInvariant, PTL

(* A listed stack has what it requires, or its owner has said to go        *)
(* without.                                                                *)
THEOREM RequirementsStay == Spec => []RequirementsListed
<1>1. IInv => RequirementsListed
  BY DEF IInv
<1> QED
  BY <1>1, ProjectInvariant, PTL

(* The adds of requirements end for every graph of requirements.           *)
THEOREM ChainsEnd == Spec => []NoEndlessChain
<1>1. IInv => NoEndlessChain
  BY DEF IInv, Chain
<1> QED
  BY <1>1, ProjectInvariant, PTL

(* After every command .env.age is up to date, or its owner knows.         *)
THEOREM AgeTold == Spec => []EncryptedOrTold
<1>1. IInv => EncryptedOrTold
  BY DEF IInv, Told, EncryptedOrTold
<1> QED
  BY <1>1, ProjectInvariant, PTL
=============================================================================
