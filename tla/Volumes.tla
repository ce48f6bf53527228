------------------------------ MODULE Volumes -------------------------------
(***************************************************************************)
(* What a deploy does to the folders of the volumes: the preflight on the  *)
(* server, the refusals that read nothing but paths, the check of file     *)
(* mounts, and the remote script that makes and chowns the folders         *)
(* (cli/deploy/volumes.ts, docker-preflight.ts, run-deploy.ts).            *)
(*                                                                         *)
(* A folder of a stack is plain (chowned with all in it), kept (made, then *)
(* never chowned), owned (given its owner when it is made) or a file mount.*)
(* The script may be cut off between any two commands, and deployed again. *)
(* Any place may be a link, found there or put there between two deploys,  *)
(* or between the mkdir of a folder and the second look at its path; one   *)
(* put there between that look and the chown is left out.                  *)
(***************************************************************************)
EXTENDS Naturals, FiniteSets

CONSTANTS
  Nodes,        \* places below VOLUMES_PATH
  Above,        \* place -> the places it is in, VOLUMES_PATH left out
  MaxDeploys,   \* bound: deploys of one server
  MaxVolumes,   \* bound: places the stacks' compose files name
  MaxSwaps      \* bound: links put in the place of something

(* Places are paths: of two that a third is in, one is in the other.       *)
ASSUME AboveType ==
  /\ Above \in [Nodes -> SUBSET Nodes]
  /\ \A n \in Nodes : n \notin Above[n]
  /\ \A n \in Nodes : \A k, m \in Above[n] :
       k = m \/ k \in Above[m] \/ m \in Above[k]
ASSUME VolumesBound ==
  /\ MaxDeploys \in Nat /\ MaxVolumes \in Nat /\ MaxSwaps \in Nat
  /\ "nowhere" \notin Nodes /\ "outside" \notin Nodes

VARIABLES
  role,     \* place -> what the stacks' compose and +meta.ts make of it
  kind,     \* place -> what is there
  leads,    \* place -> the place its path leads to, links followed
  owner,    \* place -> who owns it
  sudo,     \* the user is not root; "denied": and has no passwordless sudo
  base,     \* VOLUMES_PATH exists
  vpc,      \* where the deploy is
  todo,     \* folders the script has not got to
  now,      \* the volume it works on, or NoNode
  real,     \* rostok_real: where that volume is, or NoNode
  sub,      \* the command it comes to next
  deploys,  \* deploys started
  made,     \* owned volumes' folders a script has made, at their own place
  torn,     \* those of them a script left before their chown
  swaps,    \* links put in the place of something
  swapped,  \* the places this has changed during the deploy
  strays    \* <<place, owner>>: given by a chown that a link led there

placeVars == <<role, kind, leads, sudo, base>>
loopVars == <<todo, now, real, sub>>
traceVars == <<made, torn, swapped, strays>>
volumeVars == <<placeVars, owner, loopVars, traceVars, vpc, deploys, swaps>>

NoNode == "nowhere"
Outside == "outside"   \* also VOLUMES_PATH itself, and where a link is broken
Roles == {"none", "plain", "kept", "owned", "file"}
Owners == {"root", "ids", "own", "other"}
Inside(n) == {m \in Nodes : n \in Above[m]}

VolumesTypeOK ==
  /\ role \in [Nodes -> Roles]
  /\ kind \in [Nodes -> {"missing", "dir", "file", "link"}]
  /\ leads \in [Nodes -> Nodes \cup {Outside}]
  /\ owner \in [Nodes -> Owners]
  /\ sudo \in {"root", "sudo", "denied"}
  /\ base \in BOOLEAN
  /\ vpc \in {"idle", "preflight", "checked", "script", "done", "stopped"}
  /\ todo \subseteq Nodes /\ now \in Nodes \cup {NoNode}
  /\ real \in Nodes \cup {NoNode, Outside}
  /\ sub \in {"none", "mkdir", "again", "chown"}
  /\ deploys \in 0..MaxDeploys /\ torn \subseteq made /\ made \subseteq Nodes
  /\ swaps \in 0..MaxSwaps /\ swapped \subseteq Nodes
  /\ strays \subseteq Nodes \X Owners

VolumesInit ==
  /\ role = [n \in Nodes |-> "none"]
  /\ kind = [n \in Nodes |-> "missing"] /\ owner = [n \in Nodes |-> "root"]
  /\ leads = [n \in Nodes |-> n]
  /\ sudo = "root" /\ base = FALSE
  /\ vpc = "idle" /\ todo = {} /\ now = NoNode /\ real = NoNode /\ sub = "none"
  /\ deploys = 0 /\ made = {} /\ torn = {}
  /\ swaps = 0 /\ swapped = {} /\ strays = {}

(* Only a folder has anything in it, and a path leads to its own place but *)
(* for the links on its way: a link to what is there, and a path through a *)
(* link to a place inside the one that link leads to.                      *)
Placed(k, l) ==
  \A n \in Nodes :
    /\ k[n] # "missing" => \A m \in Above[n] : k[m] = "dir"
    /\ (\A m \in Above[n] \cup {n} : k[m] # "link") => l[n] = n
    /\ k[n] = "link" /\ l[n] # Outside => k[l[n]] \in {"dir", "file"}
    /\ \A m \in Above[n] : k[m] = "link" =>
         IF l[m] = Outside THEN l[n] = Outside ELSE l[n] \in Inside(l[m])
    /\ l[n] # Outside =>
         \A m \in Above[l[n]] \cup {l[n]} : k[m] # "link"

Volume(r) == {n \in Nodes : r[n] # "none"}

(* A server as it may be found.                                            *)
Found ==
  /\ role' \in [Nodes -> Roles]
  /\ Cardinality(Volume(role')) <= MaxVolumes
  /\ kind' \in [Nodes -> {"missing", "dir", "file", "link"}]
  /\ leads' \in [Nodes -> Nodes \cup {Outside}]
  /\ Placed(kind', leads')
  /\ owner' \in [Nodes -> {"root", "ids"}]
  /\ \A n \in Nodes : kind'[n] # "dir" => owner'[n] = "root"
  /\ sudo' \in {"root", "sudo", "denied"} /\ base' \in BOOLEAN
  /\ kind' # [n \in Nodes |-> "missing"] => base'

Kept(r) == {n \in Nodes : r[n] \in {"kept", "owned"}}

(* assertNoKeepOwnerParent: no volume around a kept folder, or inside one. *)
KeepOwnerClash(r) ==
  \E k \in Kept(r), v \in Volume(r) : v \in Above[k] \/ k \in Above[v]

-----------------------------------------------------------------------------
Start ==
  /\ vpc = "idle" /\ deploys < MaxDeploys
  /\ IF deploys = 0
     THEN Found
     ELSE UNCHANGED <<placeVars, owner>>
  /\ deploys' = deploys + 1 /\ vpc' = "preflight" /\ swapped' = {}
  /\ UNCHANGED <<loopVars, made, torn, strays, swaps>>

(* The docker group, the user's UID, and both paths resolved on the server *)
(* once they exist; any answer but the right one stops the deploy.         *)
Preflight ==
  /\ vpc = "preflight"
  /\ base \/ sudo # "denied"
  /\ base' = TRUE /\ vpc' = "checked"
  /\ UNCHANGED <<role, kind, leads, sudo, owner, loopVars, traceVars, deploys,
                 swaps>>

PreflightStops ==
  /\ vpc = "preflight"
  /\ vpc' = "stopped"
  /\ base' \in {base} \cup (IF sudo = "denied" THEN {} ELSE {TRUE})
  /\ UNCHANGED <<role, kind, leads, sudo, owner, loopVars, traceVars, deploys,
                 swaps>>

(* A file mount a compose file uses must be a regular file already; what a *)
(* link leads to outside may be one.                                       *)
NoMount(n) == leads[n] # Outside /\ kind[leads[n]] # "file"
Mounts == {n \in Nodes : role[n] = "file"}
Folders == {n \in Nodes : role[n] \in {"plain", "kept", "owned"}}

RefusePaths ==
  /\ vpc = "checked"
  /\ \/ KeepOwnerClash(role)
     \/ \E n \in Mounts : NoMount(n) \/ leads[n] = Outside
  /\ vpc' = "stopped"
  /\ UNCHANGED <<placeVars, owner, loopVars, traceVars, deploys, swaps>>

StartScript ==
  /\ vpc = "checked"
  /\ ~KeepOwnerClash(role) /\ \A n \in Mounts : ~NoMount(n)
  /\ vpc' = "script" /\ todo' = Folders
  /\ UNCHANGED <<placeVars, owner, now, real, sub, traceVars, deploys, swaps>>

-----------------------------------------------------------------------------
(* rostok_resolve: the deepest part of the path that exists must be a      *)
(* folder below VOLUMES_PATH, wherever in it links lead.                   *)
Resolves(n) ==
  /\ leads[n] \in Nodes
  /\ \A m \in Above[leads[n]] \cup {leads[n]} : kind[m] \in {"missing", "dir"}

(* What needs nothing: a user that is not root leaves a folder that is as  *)
(* it should be, wherever the links above it lead, and a kept or owned one *)
(* that exists, to anybody; a link itself takes sudo to look at.           *)
Ready(n) ==
  /\ leads[n] \in Nodes /\ kind[leads[n]] = "dir"
  /\ IF role[n] = "plain"
     THEN sudo # "root" /\ kind[n] # "link" /\ owner[leads[n]] = "ids"
     ELSE sudo = "denied" => kind[n] # "link"
ReadyOutside(n) ==
  /\ leads[n] = Outside /\ kind[n] # "link"
  /\ role[n] = "plain" /\ sudo # "root"

SkipFolder ==
  /\ vpc = "script" /\ now = NoNode
  /\ \E n \in todo : (Ready(n) \/ ReadyOutside(n)) /\ todo' = todo \ {n}
  /\ UNCHANGED <<placeVars, owner, now, real, sub, traceVars, vpc, deploys,
                 swaps>>

OpenFolder ==
  /\ vpc = "script" /\ now = NoNode /\ sudo # "denied"
  /\ \E n \in todo : /\ ~Ready(n) /\ Resolves(n)
                     /\ now' = n /\ real' = leads[n] /\ todo' = todo \ {n}
  /\ sub' = "mkdir"
  /\ UNCHANGED <<placeVars, owner, traceVars, vpc, deploys, swaps>>

(* mkdir -p makes the folder and what is missing above it.                 *)
Mkdir ==
  /\ vpc = "script" /\ sub = "mkdir"
  /\ LET new == {m \in Above[real] \cup {real} : kind[m] = "missing"}
     IN  /\ kind' = [m \in Nodes |-> IF m \in new THEN "dir" ELSE kind[m]]
         /\ made' = IF role[now] = "owned" /\ real = now THEN made \cup {real}
                    ELSE made
  /\ sub' = "again"
  /\ UNCHANGED <<role, leads, sudo, base, owner, todo, now, real, torn,
                 swapped, strays, vpc, deploys, swaps>>

(* Mutant: every folder goes on to its chown.                              *)
ResolveAgainAll ==
  /\ vpc = "script" /\ sub = "again" /\ Resolves(now)
  /\ sub' = "chown" /\ real' = leads[now]
  /\ torn' = torn \cup (IF leads[now] = real THEN {} ELSE made \cap {real})
  /\ UNCHANGED <<placeVars, owner, todo, now, made, swapped, strays, vpc,
                 deploys, swaps>>

(* The path is resolved once more, and the chown is of where it leads now; *)
(* a kept folder is done with that.                                        *)
ResolveAgain ==
  /\ vpc = "script" /\ sub = "again" /\ Resolves(now)
  /\ IF role[now] = "kept"
     THEN sub' = "none" /\ now' = NoNode /\ real' = NoNode
     ELSE sub' = "chown" /\ real' = leads[now] /\ UNCHANGED now
  /\ torn' = torn \cup (IF leads[now] = real THEN {} ELSE made \cap {real})
  /\ UNCHANGED <<placeVars, owner, todo, made, swapped, strays, vpc, deploys,
                 swaps>>

(* chown -R for a plain folder, chown -h of the one folder for an owned.   *)
Chown ==
  /\ vpc = "script" /\ sub = "chown" /\ kind[real] = "dir"
  /\ LET who == IF role[now] = "owned" THEN "own" ELSE "ids"
         reached == IF role[now] = "owned" THEN {real}
                    ELSE {m \in {real} \cup Inside(real) : kind[m] # "missing"}
     IN  /\ owner' = [m \in Nodes |-> IF m \in reached THEN who ELSE owner[m]]
         /\ strays' = IF real = now THEN strays
                      ELSE strays \cup (reached \X {who})
  /\ sub' = "none" /\ now' = NoNode /\ real' = NoNode
  /\ UNCHANGED <<placeVars, todo, made, torn, swapped, vpc, deploys, swaps>>

(* Any command fails, or the connection breaks: the chain stops there.     *)
ScriptBreaks ==
  /\ vpc = "script"
  /\ vpc' = "stopped"
  /\ todo' = {} /\ now' = NoNode /\ real' = NoNode /\ sub' = "none"
  /\ torn' = torn \cup (made \cap (IF sub # "mkdir" THEN {real} ELSE {}))
  /\ UNCHANGED <<placeVars, owner, made, swapped, strays, deploys, swaps>>

ScriptDone ==
  /\ vpc = "script" /\ todo = {} /\ now = NoNode
  /\ vpc' = "done"
  /\ UNCHANGED <<placeVars, owner, loopVars, traceVars, deploys, swaps>>

-----------------------------------------------------------------------------
(* Between two deploys containers write: a folder appears in a folder, and *)
(* what no chown -R is meant for changes hands.                            *)
ContainerWrites ==
  /\ vpc = "idle" /\ deploys > 0
  /\ \E n \in Nodes :
       /\ role[n] \in {"none", "kept"}
       /\ kind[n] \in {"missing", "dir"} /\ \A m \in Above[n] : kind[m] = "dir"
       /\ kind' = [kind EXCEPT ![n] = "dir"]
       /\ owner' = [owner EXCEPT ![n] = "other"]
  /\ UNCHANGED <<role, leads, sudo, base, loopVars, traceVars, vpc, deploys,
                 swaps>>

(* Somebody, or a container, puts a link in the place of something, which  *)
(* is gone with all in it.                                                 *)
SwapIn ==
  /\ swaps < MaxSwaps /\ swaps' = swaps + 1
  /\ \/ vpc = "idle" /\ deploys > 0
     \/ vpc = "script" /\ sub = "again"
  /\ \E n \in Nodes :
       LET gone == {n} \cup Inside(n)
           moved == gone \cup {m \in Nodes : leads[m] \in gone}
       IN  /\ \A m \in Above[n] : kind[m] = "dir"
           /\ kind' = [m \in Nodes |-> IF m = n THEN "link"
                                       ELSE IF m \in gone THEN "missing"
                                       ELSE kind[m]]
           /\ owner' = [m \in Nodes |->
                          IF m \in gone THEN "root" ELSE owner[m]]
           /\ leads' \in [Nodes -> Nodes \cup {Outside}]
           /\ \A m \in Nodes : IF m \in moved THEN leads'[m] # m
                              ELSE leads'[m] = leads[m]
           /\ Placed(kind', leads')
           /\ made' = made \ gone /\ torn' = torn \ gone
           /\ swapped' = swapped \cup moved
           /\ strays' = {x \in strays : x[1] \notin gone}
  /\ UNCHANGED <<role, sudo, base, loopVars, vpc, deploys>>

DeployAgain ==
  /\ vpc \in {"done", "stopped"} /\ deploys < MaxDeploys
  /\ vpc' = "idle"
  /\ UNCHANGED <<placeVars, owner, loopVars, traceVars, deploys, swaps>>

ScriptCommands == \/ SkipFolder \/ OpenFolder \/ Mkdir \/ ResolveAgain \/ Chown
VolumesNext ==
  \/ Start \/ Preflight \/ PreflightStops \/ RefusePaths \/ StartScript
  \/ ScriptCommands \/ ScriptBreaks \/ ScriptDone
  \/ ContainerWrites \/ SwapIn \/ DeployAgain

-----------------------------------------------------------------------------
(* A deploy that ends well leaves every plain volume below VOLUMES_PATH in *)
(* the hands of PUID:PGID and every folder a deploy has made for an owned  *)
(* one in its declared owner's. Three things are left out: a volume whose  *)
(* place somebody has put a link in since the deploy started; a folder     *)
(* that a script left between making it and giving it away, cut off there  *)
(* or led elsewhere by a link (it then exists, and no later deploy looks at*)
(* its owner); and one that a link has made another volume's, which got it.*)
FoldersOwned ==
  vpc = "done" =>
    /\ \A n \in Folders \ swapped : leads[n] # Outside =>
         /\ kind[leads[n]] = "dir"
         /\ role[n] = "plain" /\ <<leads[n], "own">> \notin strays =>
              owner[leads[n]] = "ids"
    /\ \A p \in made \ torn : <<p, "ids">> \notin strays => owner[p] = "own"

(* No script, wherever it stops, changes the owner of a kept folder or of  *)
(* anything in it, gives an owned folder that was there to anybody, or     *)
(* makes a folder where a file mount belongs, unless a link leads the      *)
(* volume it works on to that folder: the names alone are compared, so it  *)
(* then does. (Kept is the folder of that name, not what a link in its     *)
(* place leads to.) And whatever was put there since the mkdir, what it    *)
(* chowns is below VOLUMES_PATH.                                           *)
KeptStaysKept ==
  [][ScriptCommands =>
       /\ \A n \in Nodes :
            /\ kind[n] # "missing" /\ ({n} \cup Above[n]) \cap Kept(role) # {}
                 => \/ owner'[n] = owner[n] \/ (n = real /\ n \in made)
                    \/ real # now
            /\ role[n] = "file" /\ n \notin swapped /\ leads[n] # Outside
                 => kind'[leads[n]] = "file"
       /\ sub' = "chown" => real' \in Nodes]_volumeVars
=============================================================================
