---------------------------- MODULE ProjectFiles ----------------------------
(***************************************************************************)
(* `rostok stack add` and `rostok stack remove` on the files of one server *)
(* (cli/stack-add.ts, cli/stack-remove.ts): config.json, the list of its   *)
(* stacks, .env, the values of their variables, and .env.age, the          *)
(* encrypted copy of .env.                                                 *)
(*                                                                         *)
(* `stack add` calls itself for what a stack requires; calls is its call   *)
(* stack.  Of a key of .env the model says whether it is there and whether *)
(* it has any text.  `stack add` reads the catalog's +meta.ts of a stack,  *)
(* `stack remove` and the deploy the project's own one where there is one; *)
(* neither changes.  One command runs at a time, and any of its steps may  *)
(* be its last.                                                            *)
(***************************************************************************)
EXTENDS Naturals, Sequences, FiniteSets

CONSTANTS
  Stacks,
  Catalog,      \* the stacks of the catalog
  Local,        \* the ones with a +meta.ts in the project's own stacks/
  Reserved,     \* stacks whose key prefix is reserved, or nests with another
  Requires,     \* what a stack's +meta.ts requires
  Keys,
  CatalogMeta,  \* the variables a stack's +meta.ts in the catalog declares
  OwnMeta,      \* the ones its +meta.ts in the project's own stacks/ does
  ServerKeys,   \* the ones `server create` has written
  MaxBlanks,    \* bound: how many `--var KEY=` without a text a command has
  None

(* Of the declared keys: the ones that need no value, the ones that do and *)
(* have no default.  tags: the image tags the stack's compose file names.  *)
Meta == [keys : SUBSET Keys, optional : SUBSET Keys, asked : SUBSET Keys,
         tags : SUBSET Keys]

ASSUME ProjectFilesAssumption ==
  /\ Catalog \subseteq Stacks /\ Local \subseteq Stacks
  /\ Reserved \subseteq Stacks
  /\ Requires \in [Stacks -> SUBSET Stacks]
  /\ CatalogMeta \in [Catalog -> Meta] /\ OwnMeta \in [Local -> Meta]
  /\ \A s \in Catalog : LET meta == CatalogMeta[s]
                       IN meta.asked \subseteq meta.keys \ meta.optional
  /\ ServerKeys \subseteq Keys /\ MaxBlanks \in Nat
  /\ None \notin Stacks

VARIABLES
  \* the project's files
  config,       \* the stacks config.json lists
  torn,         \* a write of config.json was cut off: it is no JSON
  env,          \* .env: of each key "none", "blank" (KEY=) or "set"
  aged,         \* .env.age holds what .env does
  \* the command
  pc,
  stack,        \* the stack to be added next, or removed
  calls,        \* the adds under way: the stack, and what it still misses
  visiting,     \* _visiting
  interactive,
  blanks,       \* the keys of its --var KEY= without a text
  dropped,      \* the keys the remove takes from .env
  outcome,
  \* history
  blanked,      \* the keys whose owner has said that they have no text
  excused,      \* <<s, r>>: its owner runs s without r, and has been told
  warned        \* the owner knows that .env.age is old

fileVars == <<config, torn, env, aged>>
commandVars ==
  <<pc, stack, calls, visiting, interactive, blanks, dropped, outcome>>
seenVars == <<blanked, excused, warned>>
vars == <<fileVars, commandVars, seenVars>>

Known == Catalog \cup Local
(* loadDeployMeta, and stackMetaFor of `stack remove`.                     *)
MetaOf(s) == IF s \in Local THEN OwnMeta[s] ELSE CatalogMeta[s]
Needed(meta) == meta.keys \ meta.optional
Top == calls[Len(calls)]
Dependents(s) == {d \in (config \cap Catalog) \ {s} : s \in Requires[d]}

(* A server as `server create` makes it; its owner may have listed stacks  *)
(* of the project's own by hand, and given them their values.              *)
Init ==
  /\ config \in SUBSET (Local \ Catalog) /\ torn = FALSE
  /\ env = [k \in Keys |-> IF \/ k \in ServerKeys
                             \/ \E s \in config : k \in Needed(OwnMeta[s])
                          THEN "set" ELSE "none"]
  /\ aged = FALSE /\ warned = TRUE
  /\ pc = "idle" /\ stack = None /\ calls = <<>> /\ visiting = {}
  /\ interactive = FALSE /\ blanks = {} /\ dropped = {} /\ outcome = "none"
  /\ blanked = {} /\ excused = {}

(* The command is over.                                                    *)
Return(result) ==
  /\ pc' = "idle" /\ outcome' = result
  /\ stack' = None /\ calls' = <<>> /\ visiting' = {} /\ dropped' = {}
  /\ interactive' = FALSE /\ blanks' = {}

-----------------------------------------------------------------------------
(* stackAdd                                                                *)

(* A stack of the catalog, and all that it requires, directly or not.      *)
Under ==
  [s \in Catalog |->
     {d \in Catalog : \A all \in SUBSET Catalog :
        (s \in all /\ \A x \in all : Requires[x] \cap Catalog \subseteq all)
          => d \in all}]

Declared == [s \in Catalog |-> UNION {CatalogMeta[d].keys : d \in Under[s]}]

(* A --var that none of the stacks declares is refused.                    *)
Add(s, ask, given) ==
  /\ pc = "idle"
  /\ given = {} \/ (s \in Catalog /\ given \subseteq Declared[s])
  /\ Cardinality(given) <= MaxBlanks
  /\ pc' = "enter" /\ stack' = s
  /\ interactive' = ask /\ blanks' = given
  /\ outcome' = "none"
  /\ UNCHANGED <<fileVars, seenVars, calls, visiting, dropped>>

Addable(s) == ~torn /\ s \in Catalog \ Reserved

EnterRefused ==
  /\ pc = "enter"
  /\ ~Addable(stack)
  /\ Return("failed")
  /\ UNCHANGED <<fileVars, seenVars>>

EnterCycle ==
  /\ pc = "enter"
  /\ Addable(stack)
  /\ stack \in visiting
  /\ Return("cycle")
  /\ UNCHANGED <<fileVars, seenVars>>

(* Mutant: nobody looks whether the stack is being added already.          *)
EnterAgain ==
  /\ pc = "enter"
  /\ Addable(stack)
  /\ visiting' = visiting \cup {stack}
  /\ calls' = Append(calls, [name |-> stack,
                             missing |-> Requires[stack] \ config])
  /\ excused' = IF stack \in config THEN excused
                ELSE {x \in excused : x[1] # stack}
  /\ pc' = "requires"
  /\ UNCHANGED <<fileVars, stack, interactive, blanks, dropped, outcome,
                 blanked, warned>>

(* What is missing is read here, once, before any of it is added.  The set *)
(* of stacks being added is one for all calls, and only grows.             *)
Enter ==
  /\ pc = "enter"
  /\ Addable(stack)
  /\ stack \notin visiting
  /\ visiting' = visiting \cup {stack}
  /\ calls' = Append(calls, [name |-> stack,
                             missing |-> Requires[stack] \ config])
  /\ excused' = IF stack \in config THEN excused
                ELSE {x \in excused : x[1] # stack}
  /\ pc' = "requires"
  /\ UNCHANGED <<fileVars, stack, interactive, blanks, dropped, outcome,
                 blanked, warned>>

Handled(r) == [calls EXCEPT ![Len(calls)].missing = @ \ {r}]

AddRequired(r) ==
  /\ pc = "requires"
  /\ r \in Top.missing
  /\ calls' = Handled(r)
  /\ pc' = "enter" /\ stack' = r
  /\ UNCHANGED <<fileVars, seenVars, visiting, interactive, blanks, dropped,
                 outcome>>

Decline(r) ==
  /\ pc = "requires"
  /\ interactive
  /\ r \in Top.missing
  /\ calls' = Handled(r)
  /\ excused' = excused \cup {<<Top.name, r>>}
  /\ UNCHANGED <<fileVars, pc, stack, visiting, interactive, blanks, dropped,
                 outcome, blanked, warned>>

(* The keys this add leaves without a text when their owner says so, by    *)
(* --var KEY= or a blank answer.                                           *)
MayBlank(meta) ==
  (blanks \cap meta.keys) \cup (IF interactive THEN meta.asked ELSE {})

(* What the add makes of a key: a --var wins over everything, what has a   *)
(* text stays, and what is blank or not there gets a default or an answer. *)
(* An optional key may have no default, or a blank one; an image tag whose *)
(* version the registry does not tell loses its default (pinned policy).   *)
Becomes(meta, k) ==
  IF k \in blanks \cap meta.keys THEN {"blank"}
  ELSE IF env[k] = "set" \/ k \notin meta.keys \cup meta.tags THEN {env[k]}
  ELSE {"set"}
         \cup (IF k \in MayBlank(meta) THEN {"blank"} ELSE {})
         \cup (IF k \in meta.optional THEN {"blank", env[k]} ELSE {})
         \cup (IF k \in meta.tags \ meta.asked THEN {env[k]} ELSE {})

WriteEnv ==
  /\ pc = "requires"
  /\ Top.missing = {}
  /\ LET meta == CatalogMeta[Top.name] IN
     /\ env' \in [Keys -> {"none", "blank", "set"}]
     /\ \A k \in Keys : env'[k] \in Becomes(meta, k)
     /\ blanked' = {k \in Keys : /\ env'[k] = "blank"
                                 /\ k \in blanked \cup MayBlank(meta)}
  /\ aged' = FALSE /\ warned' = FALSE
  /\ pc' = "config"
  /\ UNCHANGED <<config, torn, stack, calls, visiting, interactive, blanks,
                 dropped, outcome, excused>>

(* A variable has no value, or one that cannot be written.                 *)
NoValue ==
  /\ pc = "requires"
  /\ Top.missing = {}
  /\ Return("failed")
  /\ UNCHANGED <<fileVars, seenVars>>

WriteConfig ==
  /\ pc = "config"
  /\ config' = config \cup {Top.name}
  /\ pc' = "encrypt"
  /\ UNCHANGED <<torn, env, aged, stack, calls, visiting, interactive, blanks,
                 dropped, outcome, seenVars>>

-----------------------------------------------------------------------------
(* stackRemove                                                             *)

Present == {k \in Keys : env[k] # "none"}

(* Mutant: a key another listed stack declares as well is dropped.         *)
CandidatesAll(s) ==
  IF s \in Known THEN (Present \cap MetaOf(s).keys) \ ServerKeys ELSE {}

(* candidateKeys: the stack's own, as far as a +meta.ts says what is whose.*)
Candidates(s) ==
  IF s \in Known
  THEN (Present \cap MetaOf(s).keys)
         \ (ServerKeys
              \cup UNION {MetaOf(d).keys : d \in (config \ {s}) \cap Known})
  ELSE {}

RemoveRefused(s, force) ==
  /\ pc = "idle"
  /\ torn \/ s \notin config \/ (Dependents(s) # {} /\ ~force)
  /\ outcome' = "failed"
  /\ UNCHANGED <<fileVars, pc, stack, calls, visiting, interactive, blanks,
                 dropped, seenVars>>

(* Mutant: nobody asks who requires the stack.                             *)
RemoveAny(s, force, drop) ==
  /\ pc = "idle"
  /\ ~torn
  /\ s \in config
  /\ pc' = "removeConfig" /\ stack' = s
  /\ dropped' = IF drop THEN Candidates(s) ELSE {}
  /\ excused' = IF force THEN excused \cup {<<d, s>> : d \in Dependents(s)}
                ELSE excused
  /\ outcome' = "none"
  /\ UNCHANGED <<fileVars, calls, visiting, interactive, blanks, blanked,
                 warned>>

(* Every question is answered before anything is written.                  *)
Remove(s, force, drop) ==
  /\ pc = "idle"
  /\ ~torn
  /\ s \in config
  /\ Dependents(s) = {} \/ force
  /\ pc' = "removeConfig" /\ stack' = s
  /\ dropped' = IF drop THEN Candidates(s) ELSE {}
  /\ excused' = IF force THEN excused \cup {<<d, s>> : d \in Dependents(s)}
                ELSE excused
  /\ outcome' = "none"
  /\ UNCHANGED <<fileVars, calls, visiting, interactive, blanks, blanked,
                 warned>>

RemoveConfig ==
  /\ pc = "removeConfig"
  /\ config' = config \ {stack}
  /\ IF stack \in Known
     THEN /\ pc' = "removeEnv"
          /\ UNCHANGED <<stack, calls, visiting, interactive, blanks, dropped,
                         outcome>>
     ELSE Return("ok")
  /\ UNCHANGED <<torn, env, aged, seenVars>>

RemoveEnv ==
  /\ pc = "removeEnv"
  /\ env' = [k \in Keys |-> IF k \in dropped THEN "none" ELSE env[k]]
  /\ blanked' = blanked \ dropped
  /\ IF dropped = {} THEN UNCHANGED <<aged, warned>>
     ELSE aged' = FALSE /\ warned' = FALSE
  /\ pc' = "encrypt"
  /\ UNCHANGED <<config, torn, stack, calls, visiting, interactive, blanks,
                 dropped, outcome, excused>>

-----------------------------------------------------------------------------
(* Mutant: there is always a caller to return to.                          *)
ReturnedTooFar ==
  IF calls = <<>> THEN Return("ok")
  ELSE /\ pc' = "requires"
       /\ calls' = SubSeq(calls, 1, Len(calls) - 1)
       /\ UNCHANGED <<stack, visiting, interactive, blanks, dropped, outcome>>

(* The caller goes on with what else it misses.                            *)
Returned ==
  IF Len(calls) <= 1 THEN Return("ok")
  ELSE /\ pc' = "requires"
       /\ calls' = SubSeq(calls, 1, Len(calls) - 1)
       /\ UNCHANGED <<stack, visiting, interactive, blanks, dropped, outcome>>

(* Mutant: only the command that was typed encrypts.                       *)
EncryptLast ==
  /\ pc = "encrypt"
  /\ IF Len(calls) > 1 THEN UNCHANGED <<aged, warned>>
     ELSE aged' = TRUE /\ warned' = FALSE
  /\ Returned
  /\ UNCHANGED <<config, torn, env, blanked, excused>>

(* reencryptAfterWrite                                                     *)
Encrypt ==
  /\ pc = "encrypt"
  /\ aged' = TRUE /\ warned' = FALSE
  /\ Returned
  /\ UNCHANGED <<config, torn, env, blanked, excused>>

(* There is no key, or the encryption fails: a line says so, no more.      *)
NotEncrypted ==
  /\ pc = "encrypt"
  /\ warned' = TRUE
  /\ Returned
  /\ UNCHANGED <<fileVars, blanked, excused>>

(* A write fails, or the process is killed.  Its owner sees it die.  .env  *)
(* is replaced by a rename, config.json is written in place.               *)
Die ==
  /\ pc # "idle"
  /\ Return("died")
  /\ \/ UNCHANGED torn
     \/ pc \in {"config", "removeConfig"} /\ torn' = TRUE
  /\ warned' = TRUE
  /\ UNCHANGED <<config, env, aged, blanked, excused>>

(* The owner takes config.json from the repository again.                  *)
Repair ==
  /\ pc = "idle"
  /\ torn
  /\ torn' = FALSE
  /\ UNCHANGED <<config, env, aged, commandVars, seenVars>>

-----------------------------------------------------------------------------
Command ==
  \/ EnterRefused \/ EnterCycle \/ Enter
  \/ \E r \in Stacks : AddRequired(r) \/ Decline(r)
  \/ WriteEnv \/ NoValue \/ WriteConfig
  \/ RemoveConfig \/ RemoveEnv
  \/ Encrypt \/ NotEncrypted \/ Die

Next ==
  \/ \E s \in Stacks, ask \in BOOLEAN, given \in SUBSET Keys :
       Add(s, ask, given)
  \/ \E s \in Stacks, force \in BOOLEAN : RemoveRefused(s, force)
  \/ \E s \in Stacks, force, drop \in BOOLEAN : Remove(s, force, drop)
  \/ Command
  \/ Repair

Spec == Init /\ [][Next]_vars

-----------------------------------------------------------------------------
TypeOK ==
  /\ config \subseteq Stacks /\ torn \in BOOLEAN
  /\ env \in [Keys -> {"none", "blank", "set"}] /\ aged \in BOOLEAN
  /\ pc \in {"idle", "enter", "requires", "config", "removeConfig",
             "removeEnv", "encrypt"}
  /\ stack \in Stacks \cup {None}
  /\ stack = None => pc = "idle"
  /\ calls \in Seq([name : Stacks, missing : SUBSET Stacks])
  /\ pc \in {"requires", "config"} => calls # <<>>
  /\ visiting \subseteq Stacks
  /\ interactive \in BOOLEAN /\ blanks \subseteq Keys
  /\ dropped \subseteq Keys
  /\ outcome \in {"none", "ok", "failed", "cycle", "died"}
  /\ blanked \subseteq Keys /\ excused \subseteq Stacks \X Stacks
  /\ warned \in BOOLEAN

(* The values a deploy asks of a listed stack and its add has seen to.  A  *)
(* key that only the project's own +meta.ts declares is none of them, nor  *)
(* an image tag, which may stay without a version.                         *)
Asked(s) ==
  IF s \in Catalog
  THEN (Needed(MetaOf(s)) \cap Needed(CatalogMeta[s])) \ CatalogMeta[s].tags
  ELSE Needed(MetaOf(s))

(* A text, or its owner's word that there is none.                         *)
HasValue(k) == env[k] = "set" \/ (env[k] = "blank" /\ k \in blanked)

(* Every stack config.json lists has its values in .env, whenever a        *)
(* command dies: a value is written before the stack is listed and taken   *)
(* away after it, never one that another listed stack reads, and no stack's*)
(* blank default hides what another one needs.  Only its owner, by a --var *)
(* or an answer without a text, leaves a key blank.  No key of the server's*)
(* own goes.                                                               *)
ListedHaveValues ==
  /\ \A s \in config \cap Known : \A k \in Asked(s) : HasValue(k)
  /\ \A k \in ServerKeys : env[k] # "none"

(* A listed stack has what it requires on the same server, wherever adding *)
(* it was broken off, unless its owner has said to go without.             *)
RequirementsListed ==
  \A s \in config \cap Catalog :
    \A r \in Requires[s] \ config : <<s, r>> \in excused

(* Adding what a stack requires never comes back to a stack that is being  *)
(* added: the calls end for every catalog, also one with a cycle.          *)
NoEndlessChain ==
  \A i, j \in DOMAIN calls : calls[i].name = calls[j].name => i = j

(* After every command .env.age holds what .env does, or the owner has     *)
(* been told: also when the stack that was asked for could not be added    *)
(* and one it requires was.                                                *)
EncryptedOrTold == pc = "idle" => aged \/ warned

(* Some of the stacks require each other in a ring.                        *)
Cyclic == \E ring \in SUBSET Stacks :
            ring # {} /\ \A s \in ring : Requires[s] \cap ring # {}

(* cli/stack-add.ts:163-166: `_visiting` tracks every stack "already being *)
(* added higher up the current call chain; a name reappearing here means a *)
(* cycle".  So no cycle is reported where there is none.                   *)
CycleIsCycle == outcome = "cycle" => Cyclic
=============================================================================
