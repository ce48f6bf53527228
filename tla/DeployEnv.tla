------------------------------ MODULE DeployEnv -----------------------------
(***************************************************************************)
(* What a deploy makes of .env.root, the server's .env and config.json     *)
(* before it touches the server (cli/deploy/env.ts, the envs of            *)
(* run-deploy.ts), what compose reads of it, and the environment each hook *)
(* runs with (buildHookEnv in cli/deploy/hooks.ts). The .env is the one    *)
(* ServerCreate writes and the owner edits.                                *)
(*                                                                         *)
(* Two stacks, "a" and "b", with a token each: A_TOKEN, which compose must *)
(* have, and B_TOKEN, which only the hook of b reads. References are the   *)
(* braced ones, and a file has a key before the values that refer to it.   *)
(***************************************************************************)
EXTENDS ServerCreate

CONSTANTS
  Roots,     \* what .env.root may hold: functions from Keys
  Shells,    \* what the shell may export: functions from Keys, HookOnly
  EnvsLists, \* values of A_TOKEN in the config.json entries of a and b
  MaxReads   \* bound: deploys

(* The keys the two stacks and the references are about are among those of *)
(* the files.                                                              *)
ASSUME TokenKeys ==
  {"A_TOKEN", "B_TOKEN", "BASE_PATH", "LD_PRELOAD"} \subseteq OtherKeys

VARIABLES
  root,      \* .env.root
  shell,     \* the environment of the rostok process
  envs,      \* stack -> its value of A_TOKEN in config.json, or None
  deployed,  \* "no", "refused" or "taken"
  resolved,  \* what the deploy works with
  composed,  \* what compose reads
  hookEnvs,  \* stack -> the environment of its hooks
  hollow,    \* history: the token it has taken refers to nothing
  reads      \* counter

deployEnvVars == <<root, shell, envs, deployed, resolved, composed, hookEnvs,
                   hollow, reads>>
serverVars == <<createVars, deployEnvVars>>

EnvStacks == {"a", "b"}
Token == [s \in EnvStacks |-> IF s = "a" THEN "A_TOKEN" ELSE "B_TOKEN"]
Uses == [s \in EnvStacks |->      \* what its compose file uses, and how
  IF s = "a" THEN {<<"A_TOKEN", "plain">>, <<"A_TOKEN", "fallback">>}
             ELSE {<<"B_TOKEN", "fallback">>}]
HookOnly == {"SSH_HOST", "SSH_PORT", "SSH_LOCAL", "DEPLOY_AS"}
Required == {"SSH_ADDRESS", "SSH_USER", "PATH_APPS", "VOLUMES_PATH", "PUID",
             "PGID", "DOCKER_GROUP_ID"}
PathKeys == {"PATH_APPS", "VOLUMES_PATH", "BASE_PATH"} \cap Keys
Denied == {"LD_PRELOAD"}
NoValues == [k \in Keys |-> None]
NoShell == [k \in Keys \cup HookOnly |-> None]
NoHooks == [s \in EnvStacks |-> NoShell]

ASSUME DeployConstants ==
  /\ Roots \subseteq [Keys -> EnvValue]
  /\ Shells \subseteq [Keys \cup HookOnly -> EnvValue]
  /\ EnvsLists \subseteq [EnvStacks -> EnvValue]
  /\ MaxReads \in Nat

Over(f, g) == [k \in DOMAIN f |-> Or(g[k], f[k])]     \* {...f, ...g}
HasText(v) == v \notin {None, Blank}

-----------------------------------------------------------------------------
(* assertNoBareDollar: every reference is to a key of the same file, or of *)
(* the one compose reads before it.                                        *)
Dangling(f, earlier) ==
  \E k \in Keys : \E r \in ComponentsOf(f[k]) \cap References :
    f[RefKey[r]] = None /\ earlier[RefKey[r]] = None

Filled(e) == [e EXCEPT
  !["PATH_APPS"] = IF HasText(@) THEN @ ELSE DefaultPathApps,
  !["PUID"] = IF HasText(@) THEN @ ELSE <<"1000">>,
  !["PGID"] = IF HasText(@) THEN @ ELSE <<"1000">>]

(* References to path keys are filled in; any other is refused, so that no *)
(* secret gets into a path and from there into a message. Not repeated: a  *)
(* reference within a reference stays, and is no valid path. A reference   *)
(* stands at the head of its path.                                         *)
RefersOnlyToPaths(v, e) ==
  \A r \in ComponentsOf(v) \cap References :
    RefKey[r] \in PathKeys /\ e[RefKey[r]] # None
Expand(v, e) ==
  IF v = None \/ v[1] \notin References THEN v
  ELSE IF HasText(e[RefKey[v[1]]]) THEN e[RefKey[v[1]]] \o Tail(v)
  ELSE IF Len(v) = 1 THEN Blank ELSE Tail(v)
Expanded(e) ==
  LET apps == [e EXCEPT !["PATH_APPS"] = Expand(@, e)]
  IN [apps EXCEPT !["VOLUMES_PATH"] = Expand(@, apps)]

Starts(short, long) ==
  Len(short) <= Len(long) /\ \A i \in DOMAIN short : short[i] = long[i]
Nested(p, q) == Starts(p, q) \/ Starts(q, p)

(* resolveDeployEnv, in its order.                                         *)
Resolution(e) == Expanded(Filled(e))
EnvResolves(e) ==
  /\ \A k \in Required : HasText(Filled(e)[k])
  /\ RefersOnlyToPaths(Filled(e)["PATH_APPS"], Filled(e))
  /\ RefersOnlyToPaths(Filled(e)["VOLUMES_PATH"], Filled(e))
  /\ LET r == Resolution(e) IN
       /\ ValidAddress(r["SSH_ADDRESS"]) /\ ValidUser(r["SSH_USER"])
       /\ ValidPath(r["PATH_APPS"], 2) /\ ValidPath(r["VOLUMES_PATH"], 1)
       /\ ~Nested(r["PATH_APPS"], r["VOLUMES_PATH"])
       /\ UserOf(r["SSH_ADDRESS"]) \in {None, r["SSH_USER"]}

(* assertRequiredStackKeys: a key counts as needed where compose uses it   *)
(* without a fallback. The last entry of config.json to set a key counts,  *)
(* and only where no file has the key at all; a reference counts as text,  *)
(* whatever it is to.                                                      *)
Shared(es) == Or(es["b"], es["a"])
HasValue(k, e, es) ==
  IF e[k] # None THEN HasText(e[k]) ELSE k = "A_TOKEN" /\ HasText(Shared(es))
Needs(s, k) == <<k, "plain">> \in Uses[s]
Missing(s, e, es) == {k \in {Token[s]} : Needs(s, k) /\ ~HasValue(k, e, es)}

(* applyStackEnvs: a reference in an entry is filled from what the deploy  *)
(* works with, and one to a key that has not got ends the deploy. The first*)
(* entry to set a key is appended to the .env that is sent, unless the     *)
(* server's has the key.                                                   *)
NamesKnown(es, e) ==
  \A s \in EnvStacks : \A r \in ComponentsOf(es[s]) \cap References :
    e[RefKey[r]] # None
Sent(es, e) ==
  [env EXCEPT !["A_TOKEN"] = Or(@, Or(Expand(es["a"], e), Expand(es["b"], e)))]

(* Compose reads .env.root and then that file, and fills in the references *)
(* of a value as it comes to it; one to nothing it has read becomes empty. *)
ReadBy(f, earlier) ==
  [k \in Keys |-> Expand(f[k], [Over(earlier, f) EXCEPT ![k] = earlier[k]])]
Composed(rt, sent) ==
  LET first == ReadBy(rt, NoValues) IN Over(first, ReadBy(sent, first))

(* A value the token may come from refers to a key which one of the files  *)
(* leaves blank, or which refers on.                                       *)
HollowToken(rt, es) ==
  \E v \in {rt["A_TOKEN"], env["A_TOKEN"], es["a"], es["b"]} :
  \E r \in ComponentsOf(v) \cap References : \E f \in {rt, env} :
    \/ f[RefKey[r]] = Blank
    \/ ComponentsOf(f[RefKey[r]]) \cap References # {}

(* buildHookEnv: the shell's environment, over it those keys of the files  *)
(* that are the server's or the stack's own, over that the contract.       *)
MayPass(k, s) == k \notin Denied
                 /\ k \in AskedKeys \cup {Token[s]}
HookEnv(s, rt, sh, r) ==
  LET files == Over(rt, env)
      address == r["SSH_ADDRESS"]
      local == address = <<"", "local", "">>
      port == IF address[3] = "" THEN None ELSE <<address[3]>>
  IN [k \in Keys \cup HookOnly |->
        CASE k = "SSH_HOST" -> IF local THEN None ELSE <<address[2]>>
          [] k = "SSH_LOCAL" -> IF local THEN <<"true">> ELSE None
          [] k = "SSH_PORT" -> IF local THEN None ELSE port
          [] k = "DEPLOY_AS" -> <<s>>
          [] k \in {"SSH_ADDRESS", "SSH_USER", "PATH_APPS"} -> r[k]
          [] OTHER -> IF MayPass(k, s) THEN Or(files[k], sh[k]) ELSE sh[k]]

-----------------------------------------------------------------------------
DeployEnvInit ==
  /\ CreateInit
  /\ root = NoValues /\ shell = NoShell /\ envs = [s \in EnvStacks |-> None]
  /\ deployed = "no" /\ resolved = NoValues /\ composed = NoValues
  /\ hookEnvs = NoHooks /\ hollow = FALSE /\ reads = 0

Acceptable(r, es) ==
  /\ ~Dangling(r, NoValues) /\ ~Dangling(env, r)
  /\ EnvResolves(Over(r, env))
  /\ LET e == Resolution(Over(r, env)) IN
       NamesKnown(es, e) /\ \A s \in EnvStacks : Missing(s, e, es) = {}

(* The other files and the shell are what they are when a deploy reads     *)
(* them. A deploy while server create asks its questions reads a file that *)
(* it reads as well when they are over.                                    *)
DeployReads ==
  /\ creating = "no" /\ reads < MaxReads /\ reads' = reads + 1
  /\ root' \in Roots /\ shell' \in Shells /\ envs' \in EnvsLists
  /\ UNCHANGED createVars

DeployTakes ==
  /\ DeployReads /\ Acceptable(root', envs')
  /\ resolved' = Resolution(Over(root', env))
  /\ composed' = Composed(root', Sent(envs', resolved'))
  /\ hookEnvs' = [s \in EnvStacks |-> HookEnv(s, root', shell', resolved')]
  /\ hollow' = HollowToken(root', envs')
  /\ deployed' = "taken"

DeployRefuses ==
  /\ DeployReads /\ ~Acceptable(root', envs')
  /\ deployed' = "refused"
  /\ UNCHANGED <<resolved, composed, hookEnvs, hollow>>

(* A deploy leaves nothing to the next one, so the last is the end.        *)
ServerNext == \/ CreateNext /\ reads < MaxReads /\ UNCHANGED deployEnvVars
              \/ DeployTakes \/ DeployRefuses

ServerTypeOK ==
  /\ CreateTypeOK
  /\ root \in [Keys -> EnvValue]
  /\ shell \in [Keys \cup HookOnly -> EnvValue]
  /\ envs \in [EnvStacks -> EnvValue]
  /\ deployed \in {"no", "refused", "taken"}
  /\ resolved \in [Keys -> EnvValue] /\ composed \in [Keys -> EnvValue]
  /\ hookEnvs \in [EnvStacks -> [Keys \cup HookOnly -> EnvValue]]
  /\ hollow \in BOOLEAN /\ reads \in 0..MaxReads

-----------------------------------------------------------------------------
(* DEPLOY_REQUIRED_KEYS: "`server create` must write all of them". What it *)
(* has written a deploy takes, whatever the server said and whatever was   *)
(* in the file, unless the owner asked for a login that is not that of the *)
(* address, or for paths inside each other, which it does not look at.     *)
CreatedIsDeployable ==
  created = "ok" =>
    \/ \A r \in Roots : EnvResolves(Over(r, env))
    \/ Nested(env["PATH_APPS"], env["VOLUMES_PATH"])
    \/ ~ValidUser(env["SSH_USER"])
    \/ UserOf(env["SSH_ADDRESS"]) \notin {None, env["SSH_USER"]}

(* A hook logs in where and as the deploy does and works in its folder,    *)
(* acts on this machine only when the deploy does, and gets no token of    *)
(* another stack: whatever the files and the shell hold.                   *)
HooksFollowDeploy ==
  deployed = "taken" =>
    \A s \in EnvStacks :
      LET h == hookEnvs[s]
          address == resolved["SSH_ADDRESS"] IN
      /\ UserOf(address) \in {None, h["SSH_USER"]}
      /\ h["PATH_APPS"] = resolved["PATH_APPS"]
      /\ IF address = <<"", "local", "">>
           THEN h["SSH_HOST"] = None /\ h["SSH_LOCAL"] = <<"true">>
           ELSE h["SSH_HOST"] = <<address[2]>> /\ h["SSH_LOCAL"] = None
      /\ h["SSH_PORT"] # None => h["SSH_PORT"] = <<address[3]>>
      /\ \A k \in {Token[t] : t \in EnvStacks \ {s}} \cup Denied :
           h[k] = shell[k]

(* The rsync of a deploy deletes below PATH_APPS and reaches no data.      *)
(* The token a stack cannot run without is in what compose reads. Not      *)
(* claimed where two entries of config.json set it, or one sets it to      *)
(* nothing over .env.root: the check takes the last of them and the file,  *)
(* the .env that is sent takes the first. Nor where the token refers to a  *)
(* key that a file leaves blank, or that refers on: the check looks at the *)
(* text of the reference, and compose then reads nothing.                  *)
Contested ==
  \/ \A s \in EnvStacks : envs[s] # None
  \/ root["A_TOKEN"] # None /\ \E s \in EnvStacks : envs[s] = Blank
TakenIsSound ==
  deployed = "taken" =>
    /\ ~Nested(resolved["PATH_APPS"], resolved["VOLUMES_PATH"])
    /\ References \cap (ComponentsOf(resolved["PATH_APPS"])
                        \cup ComponentsOf(resolved["VOLUMES_PATH"])) = {}
    /\ HasText(composed["A_TOKEN"]) \/ Contested \/ hollow
=============================================================================
