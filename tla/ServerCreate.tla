---------------------------- MODULE ServerCreate ----------------------------
(***************************************************************************)
(* `rostok server create`, first run and later ones (cli/server-create.ts, *)
(* cli/server-keys.ts): where each value of a server's .env comes from,    *)
(* with a server that may not answer, and an owner who edits the file      *)
(* while the command asks its questions.                                   *)
(*                                                                         *)
(* A value is a sequence: None (<<>>) is a key that is not there, Blank a  *)
(* key with nothing behind it, an address <<user or "", host, port or "">>,*)
(* a path its components, anything else a sequence of one. PROJECT, DOMAIN *)
(* and CONTACT_EMAIL are handled as VOLUMES_PATH is and left out.          *)
(***************************************************************************)
EXTENDS Naturals, Sequences

CONSTANTS
  OtherKeys,   \* keys of the .env files server create knows nothing of
  Vars,        \* what --var may give: functions from AskedKeys
  Typed,       \* what the owner may type where he is asked, in the same form
  Replies,     \* what the server may say of itself: functions from ProbedKeys
  Edits,       \* what an edit by hand sets: functions from some of the Keys
  MaxEdits,    \* bound: edits by hand
  MaxCreates   \* bound: runs of server create

AskedKeys == {"SSH_ADDRESS", "SSH_USER", "DOCKER_GROUP_ID", "TIMEZONE",
              "PUID", "PGID", "VOLUMES_PATH", "PATH_APPS"}
ProbedKeys == {"SSH_USER", "DOCKER_GROUP_ID", "PUID", "PGID"}
Keys == AskedKeys \cup OtherKeys
EnvValue == Seq(STRING)

(* Strings are strings: true of any, and not known to the provers.         *)
ASSUME Literals == {"", "?", "srv", "apps", "volumes", "1000", "990", "me",
                    "theirs", "ours", "true", "a", "b"} \subseteq STRING

ASSUME ServerConstants ==
  /\ Vars \cup Typed \subseteq [AskedKeys -> EnvValue]
  /\ Replies \subseteq [ProbedKeys -> EnvValue]
  /\ \A e \in Edits :
       DOMAIN e \subseteq Keys /\ \A k \in DOMAIN e : e[k] \in EnvValue
  /\ MaxEdits \in Nat /\ MaxCreates \in Nat

VARIABLES
  env,       \* servers/<name>/.env
  creating,  \* where server create is
  work,      \* what it has been given, read and told
  created,   \* how it ended
  edits, creates,   \* counters
  touched    \* history: keys edited by hand since it read the file

createVars == <<env, creating, work, created, edits, creates, touched>>

None == <<>>
Blank == <<"">>
Wrong == <<"?">>
Nobody == [k \in ProbedKeys |-> None]
DefaultPathApps == <<"srv", "apps">>

Or(a, b) == IF a # None THEN a ELSE b

-----------------------------------------------------------------------------
(* What a value has to look like. A reference is a component that begins   *)
(* with a dollar sign; References is all of them.                          *)
RefKey == [ r \in {"$PATH_APPS", "$BASE_PATH", "$A_TOKEN"} |->
            CASE r = "$PATH_APPS" -> "PATH_APPS"
              [] r = "$BASE_PATH" -> "BASE_PATH"
              [] OTHER -> "A_TOKEN" ]
References == DOMAIN RefKey
ComponentsOf(v) == {v[i] : i \in DOMAIN v}

UserOf(address) == IF address[1] = "" THEN None ELSE <<address[1]>>
ValidAddress(v) == Len(v) = 3
ValidId(v) == v \notin {None, Blank, Wrong}
ValidUser(v) == v \notin {None, Blank, Wrong}
ValidPath(v, least) ==
  /\ Len(v) >= least
  /\ ComponentsOf(v) \cap (References \cup {"..", "?", ""}) = {}
Accepts(k, v) ==
  CASE k = "SSH_ADDRESS" -> ValidAddress(v)
    [] k \in {"DOCKER_GROUP_ID", "PUID", "PGID"} -> ValidId(v)
    [] k = "VOLUMES_PATH" -> ValidPath(v, 1)
    [] k = "PATH_APPS" -> ValidPath(v, 2)
    [] OTHER -> v # None

-----------------------------------------------------------------------------
Works == [given : [AskedKeys -> EnvValue], typed : [AskedKeys -> EnvValue],
          existing : [Keys -> EnvValue], address : EnvValue,
          probed : [ProbedKeys -> EnvValue]]
IdleWork == [given |-> [k \in AskedKeys |-> None],
             typed |-> [k \in AskedKeys |-> None],
             existing |-> [k \in Keys |-> None],
             address |-> None, probed |-> Nobody]

CreateInit ==
  /\ env = [k \in Keys |-> None]
  /\ creating = "no" /\ work = IdleWork /\ created = "none"
  /\ edits = 0 /\ creates = 0 /\ touched = {}

EndCreate(how) == creating' = "no" /\ created' = how /\ work' = IdleWork

(* The name comes first, and a bad one ends the run before anything of the *)
(* server is read. Without a terminal nothing is typed.                    *)
CreateStarts ==
  /\ creating = "no" /\ creates < MaxCreates
  /\ creates' = creates + 1 /\ touched' = {}
  /\ \/ EndCreate("refused")
     \/ \E given \in Vars, typed \in Typed \cup {IdleWork.typed} :
          /\ work' = [IdleWork EXCEPT !.given = given, !.typed = typed,
                                      !.existing = env]
          /\ creating' = "address" /\ created' = "none"
  /\ UNCHANGED <<env, edits>>

Answer(k, default) == Or(work.given[k], Or(work.typed[k], default))

AskAddress ==
  /\ creating = "address"
  /\ LET a == Answer("SSH_ADDRESS", work.existing["SSH_ADDRESS"]) IN
       IF ValidAddress(a)
         THEN creating' = "probe" /\ work' = [work EXCEPT !.address = a]
              /\ UNCHANGED created
         ELSE EndCreate("refused")
  /\ UNCHANGED <<env, edits, creates, touched>>

NeedsRemoteUser ==
  UserOf(work.address) = None /\ work.given["SSH_USER"] = None
    /\ work.existing["SSH_USER"] = None
NeedsProbe == \/ \E k \in {"DOCKER_GROUP_ID", "PUID", "PGID"} :
                   work.given[k] = None
              \/ NeedsRemoteUser

(* Mutant: a reply is taken as it comes.                                   *)
TakenRaw(reply) == reply

(* What is taken of a reply: nothing that is no number or user name, and   *)
(* 1000 for both ids where the login is root.                              *)
Usable(k, v) == IF v \in {Blank, Wrong} THEN None ELSE v
Taken(reply) ==
  LET root == reply["PUID"] = <<"0">>
      id(k) == IF root /\ Usable(k, reply[k]) # None THEN <<"1000">>
               ELSE Usable(k, reply[k])
  IN [k \in ProbedKeys |-> IF k \in {"PUID", "PGID"} THEN id(k)
                           ELSE Usable(k, reply[k])]

(* One call over ssh; Nobody when it was killed after 10 s, or failed.     *)
Probe ==
  /\ creating = "probe" /\ NeedsProbe /\ creating' = "ask"
  /\ \E reply \in Replies \cup {Nobody} :
       work' = [work EXCEPT !.probed = Taken(reply)]
  /\ UNCHANGED <<env, created, edits, creates, touched>>

SkipProbe ==
  /\ creating = "probe" /\ ~NeedsProbe /\ creating' = "ask"
  /\ UNCHANGED <<env, work, created, edits, creates, touched>>

-----------------------------------------------------------------------------
(* The login: that of the address, unless --var says otherwise; else what  *)
(* is saved; only then what the server said, or the user of this machine.  *)
Login ==
  LET named == UserOf(work.address)
      guess == Or(work.probed["SSH_USER"], <<"me">>)
  IN IF named # None THEN Or(work.given["SSH_USER"], named)
     ELSE Or(work.given["SSH_USER"],
             Or(work.existing["SSH_USER"], Or(work.typed["SSH_USER"], guess)))

(* Mutant: the ids follow the server like the group of docker.             *)
IdDefaultProbed(k, last) ==
  Or(work.probed[k], Or(work.existing[k], last))

(* The group of docker on the server may drift and is corrected, the ids   *)
(* files are owned by are not.                                             *)
GroupDefault == Or(work.probed["DOCKER_GROUP_ID"],
                   Or(work.existing["DOCKER_GROUP_ID"], <<"990">>))
IdDefault(k, last) == Or(work.existing[k], Or(work.probed[k], last))

(* The zone of the server, where the probe has reached it.                 *)
ZoneDefault == Or(work.existing["TIMEZONE"],
                  IF work.probed # Nobody THEN <<"theirs">> ELSE <<"ours">>)

Answers ==
  LET puid == Answer("PUID", IdDefault("PUID", <<"1000">>))
      default == [k \in AskedKeys |->
        CASE k = "DOCKER_GROUP_ID" -> GroupDefault
          [] k = "TIMEZONE" -> ZoneDefault
          [] k = "PUID" -> puid
          [] k = "PGID" -> IdDefault("PGID", puid)
          [] k = "VOLUMES_PATH" ->
               Or(work.existing["VOLUMES_PATH"], <<"srv", "volumes">>)
          [] k = "PATH_APPS" ->
               Or(work.existing["PATH_APPS"], DefaultPathApps)
          [] OTHER -> None]
  IN [k \in AskedKeys |-> CASE k = "SSH_ADDRESS" -> work.address
                            [] k = "SSH_USER" -> Login
                            [] OTHER -> Answer(k, default[k])]

(* Every answer is checked before the file is written, and the file is     *)
(* read again so that what others have put into it stays.                  *)
WriteServer ==
  /\ creating = "ask"
  /\ IF \A k \in AskedKeys : Accepts(k, Answers[k])
       THEN /\ env' = [k \in Keys |->
                         IF k \in AskedKeys THEN Answers[k] ELSE env[k]]
            /\ EndCreate("ok")
       ELSE EndCreate("refused") /\ UNCHANGED env
  /\ UNCHANGED <<edits, creates, touched>>

OwnerEdits ==
  /\ edits < MaxEdits /\ edits' = edits + 1
  /\ \E e \in Edits :
       /\ env' = [k \in Keys |-> IF k \in DOMAIN e THEN e[k] ELSE env[k]]
       /\ touched' = touched \cup DOMAIN e
  /\ created' = "none"
  /\ UNCHANGED <<creating, work, creates>>

CreateNext == CreateStarts \/ AskAddress \/ Probe \/ SkipProbe \/ WriteServer
              \/ OwnerEdits

CreateTypeOK ==
  /\ env \in [Keys -> EnvValue] /\ touched \subseteq Keys
  /\ creating \in {"no", "address", "probe", "ask"}
  /\ created \in {"none", "ok", "refused"}
  /\ work \in Works
  /\ work.address # None => ValidAddress(work.address)
  /\ \A k \in ProbedKeys : work.probed[k] \notin {Blank, Wrong}
  /\ edits \in 0..MaxEdits /\ creates \in 0..MaxCreates

-----------------------------------------------------------------------------
(* A later run that is given and told nothing changes nothing that is set, *)
(* whatever the server answers or however it fails to: only the group of   *)
(* docker follows the server, and the login the address. Not claimed for   *)
(* what was edited by hand after the command had read it: that is lost.    *)
WritesUnasked == creating = "ask" /\ creating' = "no" /\ created' = "ok"
                 /\ work.given = IdleWork.given /\ work.typed = IdleWork.typed
RerunKeeps ==
  [][ WritesUnasked =>
        \A k \in Keys \ (touched \cup {"DOCKER_GROUP_ID"}) :
          \/ env[k] = None \/ env'[k] = env[k]
          \/ k = "SSH_USER" /\ UserOf(work.address) # None ]_createVars

(* Containers are made to run as root only by somebody who wrote it down,  *)
(* never because the login on the server is root.                          *)
RootOnlyAsked ==
  [][ creating = "ask" /\ created' = "ok" /\ env'["PUID"] = <<"0">> =>
        <<"0">> \in {work.given["PUID"], work.typed["PUID"],
                    work.existing["PUID"]} ]_createVars
=============================================================================
