----------------------------- MODULE ConfigFile -----------------------------
(***************************************************************************)
(* A configuration file that a hook writes for a stack and the container   *)
(* reads once, when it starts: Traefik's password file, Gatus's config and *)
(* Authelia's two files (one here). The before hook leaves a file that has *)
(* not changed with the server's modification time, so rsync skips it and  *)
(* its change time stays; the after hook restarts the container when the   *)
(* file changed in or after the second the container started. Authelia has *)
(* a label with the file's hash instead, which makes compose replace the   *)
(* container. Time counts in half seconds, the clocks of the two machines  *)
(* agree, and two deploys are never in the same second.                    *)
(***************************************************************************)
EXTENDS Naturals

CONSTANTS
  MaxCfTime,  \* bound: half seconds
  MaxCfRuns   \* bound: deploys

ASSUME CfBounds == MaxCfTime \in Nat /\ MaxCfTime >= 2 /\ MaxCfRuns \in Nat

VARIABLES
  app,      \* the stack
  wish,     \* version of the password or of the server's own file
  ownFile,  \* Authelia: the server keeps its own copy of the file
  server,   \* the file on the server
  saw,      \* the server's file as the before hook read it
  staged,   \* the file in the staging folder
  container,  \* the container: what it loaded, its label, when it started, and
            \* whether Docker has started it again since compose made it
  cfAt,     \* where the deploy is
  clock,
  cfRuns,
  settled,  \* when the deploy began nothing had to change
  blind     \* a read over ssh failed in this deploy

cfVars == <<app, wish, ownFile, server, saw, staged, container, cfAt,
            clock, cfRuns, settled, blind>>
wishVars == <<app, wish, ownFile, cfRuns, settled>>

NotThere == [text |-> <<0, 0>>, mtime |-> 0, ctime |-> 0]
NoContainer == [text |-> <<0, 0>>, label |-> <<0, 0>>, since |-> 0,
                again |-> FALSE]
Sec(t) == t \div 2
CfSteps == {"read", "render", "rsync", "up", "after"}
Given == {{"user", "password"}, {"user"},
          {"user", "password", "address"},
          {"user", "password", "smtpPassword"},
          {"user", "password", "address", "sender", "smtpPassword"}}

(* Settings in .env the hook refuses. The mail settings are looked at when *)
(* the hook writes the configuration, not when the server keeps its own.   *)
Refuses(given) ==
  \/ app # "gatus" /\ ~({"user", "password"} \subseteq given)
  \/ /\ app = "authelia" /\ ~ownFile
     /\ \/ ("address" \in given) # ("sender" \in given)
        \/ "smtpPassword" \in given /\ "address" \notin given

(* A bcrypt hash has a salt of its own, so only a hash that is kept is the *)
(* same bytes; Authelia's salt follows from the secret and the password.   *)
Fits(text) == text[1] = wish
Fresh == <<wish, IF app = "traefik" THEN cfRuns ELSE 0>>
Rendered == IF app = "traefik" /\ saw # NotThere /\ Fits(saw.text)
            THEN saw.text ELSE Fresh

CfTypeOK ==
  /\ app \in {"traefik", "gatus", "authelia"}
  /\ wish \in 1..2 /\ ownFile \in BOOLEAN
  /\ \A f \in {server, saw, staged} :
       /\ f.text \in (0..2) \X (0..MaxCfRuns)
       /\ f.mtime \in 0..MaxCfTime /\ f.ctime \in 0..MaxCfTime
  /\ container.text \in (0..2) \X (0..MaxCfRuns)
  /\ container.since \in 0..MaxCfTime
  /\ cfAt \in CfSteps \cup {"idle", "ok", "failed"}
  /\ clock \in 0..MaxCfTime /\ cfRuns \in 0..MaxCfRuns
  /\ settled \in BOOLEAN /\ blind \in BOOLEAN

CfInit ==
  /\ app \in {"traefik", "gatus", "authelia"} /\ wish = 1
  /\ ownFile = FALSE
  /\ server = NotThere /\ saw = NotThere /\ staged = NotThere
  /\ container = NoContainer /\ cfAt = "idle" /\ clock = 2 /\ cfRuns = 0
  /\ settled = FALSE /\ blind = FALSE

-----------------------------------------------------------------------------
(* The owner edits the settings, and a deploy begins.                      *)
CfStart ==
  /\ cfAt \in {"idle", "ok", "failed"} /\ cfRuns < MaxCfRuns
  /\ Sec(clock) > Sec(staged.ctime)
  /\ wish' \in 1..2 /\ ownFile' \in IF app = "authelia" THEN BOOLEAN
                                    ELSE {FALSE}
  /\ settled' = (/\ container # NoContainer /\ container.text = server.text
                 /\ server.text[1] = wish'
                 /\ (app = "authelia" => container.label = container.text)
                 /\ Sec(server.ctime) < Sec(container.since))
  /\ cfRuns' = cfRuns + 1 /\ blind' = FALSE /\ saw' = NotThere
  /\ staged' = NotThere
  /\ cfAt' = IF app = "authelia" THEN "render" ELSE "read"
  /\ UNCHANGED <<app, server, container, clock>>

(* readServerFile: a file that cannot be read counts as missing.           *)
ReadServerFile ==
  /\ cfAt = "read" /\ cfAt' = "render"
  /\ \/ saw' = server /\ UNCHANGED blind
     \/ saw' = NotThere /\ blind' = TRUE
  /\ UNCHANGED <<wishVars, server, staged, container, clock>>

(* Mutant: every file is written with the time of this deploy.             *)
KeepsTimeNever(old) == FALSE

KeepsTime(old) == old # NotThere /\ old.text = Rendered

(* The file is written now; when it holds the server's bytes it gets the   *)
(* server's time. Staged files keep the moment they were made in ctime.    *)
Render ==
  /\ cfAt = "render" /\ (\E given \in Given : ~Refuses(given))
  /\ staged' = [text |-> Rendered, ctime |-> clock,
                mtime |-> IF KeepsTime(saw) THEN saw.mtime ELSE clock]
  /\ cfAt' = "rsync"
  /\ UNCHANGED <<wishVars, server, saw, container, clock, blind>>

HookRefuses ==
  /\ cfAt = "render" /\ (\E given \in Given : Refuses(given))
  /\ cfAt' = "failed"
  /\ UNCHANGED <<wishVars, server, saw, staged, container, clock, blind>>

(* rsync compares whole seconds and sizes; here all sizes are the same.    *)
Rsync ==
  /\ cfAt = "rsync" /\ cfAt' = "up"
  /\ server' = IF server # NotThere /\ Sec(server.mtime) = Sec(staged.mtime)
               THEN server
               ELSE [text |-> staged.text, mtime |-> staged.mtime,
                     ctime |-> clock]
  /\ UNCHANGED <<wishVars, saw, staged, container, clock, blind>>

Loaded == [text |-> server.text, since |-> clock, again |-> FALSE,
           label |-> IF app = "authelia" THEN staged.text ELSE <<0, 0>>]

(* compose up leaves a container whose definition is unchanged alone.      *)
Up ==
  /\ cfAt = "up"
  /\ \/ container = NoContainer /\ container' = Loaded
     \/ container # NoContainer /\ container' = Loaded
        /\ app = "authelia" /\ container.label # staged.text
     \/ container # NoContainer /\ UNCHANGED container
        /\ (app = "authelia" => container.label = staged.text)
  /\ cfAt' = IF app = "authelia" THEN "ok" ELSE "after"
  /\ UNCHANGED <<wishVars, server, saw, staged, clock, blind>>

(* needsRestart. A status that cannot be read means restart.               *)
NeedsRestart == Sec(server.ctime) >= Sec(container.since)
LeaveRunning ==
  /\ cfAt = "after" /\ ~NeedsRestart /\ cfAt' = "ok"
  /\ UNCHANGED <<wishVars, server, saw, staged, container, clock, blind>>
DockerRestart ==
  /\ cfAt = "after"
  /\ blind' \in {blind, TRUE} /\ (NeedsRestart \/ blind')
  /\ container' = [container EXCEPT !.text = server.text, !.since = clock]
  /\ cfAt' = "ok"
  /\ UNCHANGED <<wishVars, server, saw, staged, clock>>

CfFails ==
  /\ cfAt \in {"rsync", "up", "after"} /\ cfAt' = "failed"
  /\ UNCHANGED <<wishVars, server, saw, staged, container, clock, blind>>

(* Docker's own restart of a container that died mounts the file afresh.   *)
ContainerDies ==
  /\ container # NoContainer /\ Sec(clock) # Sec(container.since)
  /\ container' = [container EXCEPT !.text = server.text, !.since = clock,
                                !.again = TRUE]
  /\ UNCHANGED <<wishVars, server, saw, staged, cfAt, clock, blind>>

Tick == /\ clock < MaxCfTime /\ clock' = clock + 1
        /\ UNCHANGED <<wishVars, server, saw, staged, container, cfAt, blind>>

CfNext == \/ CfStart \/ ReadServerFile \/ Render \/ HookRefuses \/ Rsync \/ Up
          \/ LeaveRunning \/ DockerRestart \/ CfFails \/ ContainerDies \/ Tick

-----------------------------------------------------------------------------
(* After a deploy that ended well the container runs with the file that    *)
(* is on the server, and that file is for the settings of the deploy,      *)
(* whatever failed in the deploys before. For Authelia only as long as     *)
(* Docker has not started the container again since compose made it.       *)
ServesCurrent ==
  cfAt = "ok" => /\ container # NoContainer /\ Fits(server.text)
                 /\ \/ container.text = server.text
                    \/ app = "authelia" /\ container.again

(* A deploy for which nothing had to change, and whose reads worked, does  *)
(* not take the service down.                                              *)
LeftAlone == settled /\ ~blind' /\ cfAt \in CfSteps /\ cfAt' # cfAt =>
               container' = container
LeavesRunning == [][LeftAlone]_cfVars
=============================================================================
