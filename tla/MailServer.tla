------------------------------ MODULE MailServer ----------------------------
(***************************************************************************)
(* The hooks of the stalwart stack: which mail domains a deploy serves,    *)
(* who manages their DKIM keys, whether the public DNS holds those keys,   *)
(* and when the mail server is stopped rather than left to sign wrongly    *)
(* (stacks/stalwart/before.deploy.ts, after.deploy.ts, dkim.ts,            *)
(* reports.ts). Stalwart rotates the keys of a domain it manages at any    *)
(* moment, and publishes nothing: the DNS is somebody's to bring up.       *)
(***************************************************************************)
EXTENDS Naturals, FiniteSets

CONSTANTS
  MailDomains,   \* the domains that may be in the .env or in Stalwart
  Primary,       \* DOMAIN
  Extras,        \* what else the server's Stalwart has; may be few of them
  MaxMail        \* bound: deploys, and steps of people and of Stalwart

ASSUME MailConstants ==
  Primary \in MailDomains /\ Extras \subseteq MailDomains /\ MaxMail \in Nat

VARIABLES
  mailAt,     \* where the hooks are
  listed,     \* STALWART_EXTRA_DOMAINS, a name that is no domain included
  initial,    \* STALWART_INITIAL_DEPLOY
  served,     \* the extra domains in the staged compose.yml
  running,    \* the container runs
  manual,     \* domains whose DKIM keys Stalwart leaves alone
  keys,       \* domain -> the generation of its active keys
  dual,       \* domains with an Ed25519 and an RSA key active
  dns,        \* domain -> the generation of the keys in the public DNS
  toMatch,    \* domains whose keys are still to be compared with the DNS
  verdict,    \* why the run fails: one of Verdicts
  settings,   \* the other settings in place
  mailMoves, runs

mailVars == <<mailAt, listed, initial, served, running, manual, keys, dual,
              dns, toMatch, verdict, settings, mailMoves, runs>>
envVars == <<listed, initial, runs>>
dkimVars == <<manual, keys, dual, dns>>

Steps == {"before", "preflight", "up", "healthy", "manual", "reread", "match",
          "rest", "stop", "stopAgain"}
(* Three settings made one after the other, and two by themselves.         *)
InOrder == {{}, {"allowedIp"}, {"allowedIp", "listener"},
            {"allowedIp", "listener", "hostname"}}
Extra == {"headers", "reports"}
BadName == "nodomain"
(* A hook before compose up failed; the keys are not as they must be;      *)
(* something else went wrong; a server to be stopped could not be.         *)
Verdicts == {"none", "before", "keys", "other", "unstopped"}

MailTypeOK ==
  /\ mailAt \in Steps \cup {"idle", "ok", "failed"}
  /\ listed \subseteq MailDomains \cup {BadName}
  /\ initial \in BOOLEAN /\ running \in BOOLEAN
  /\ served \subseteq MailDomains \ {Primary}
  /\ manual \subseteq MailDomains /\ dual \subseteq MailDomains
  /\ keys \in [MailDomains -> 0..MaxMail]
  /\ dns \in [MailDomains -> 0..MaxMail]
  /\ toMatch \subseteq MailDomains
  /\ verdict \in Verdicts
  /\ settings \subseteq Extra \cup UNION InOrder
  /\ mailMoves \in 0..MaxMail /\ runs \in 0..MaxMail

MailInit ==
  /\ mailAt = "idle" /\ listed = {} /\ initial = FALSE /\ served = {}
  /\ running = FALSE /\ manual = {} /\ dual = {Primary} \cup Extras
  /\ keys = [d \in MailDomains |-> 0] /\ dns = keys
  /\ toMatch = {} /\ verdict = "none" /\ settings = {}
  /\ mailMoves = 0 /\ runs = 0

(* The domains Stalwart has, and those a deploy of this .env expects.      *)
Known == {Primary} \cup Extras
Expected == {Primary} \cup (listed \ {BadName})

-----------------------------------------------------------------------------
(* resolveExtraDomains: the listed names but the primary; one that is no   *)
(* domain, or the retired variable naming a second one, fails the deploy.  *)
MailStarts ==
  /\ mailAt = "idle" /\ runs < MaxMail
  /\ listed' \in SUBSET (MailDomains \cup {BadName}) /\ initial' \in BOOLEAN
  /\ runs' = runs + 1 /\ verdict' = "none" /\ mailAt' = "before"
  /\ UNCHANGED <<served, running, dkimVars, toMatch, settings, mailMoves>>

StageDomains ==
  /\ mailAt = "before" /\ BadName \notin listed
  /\ served' = listed \ {Primary} /\ mailAt' = "preflight"
  /\ UNCHANGED <<envVars, running, dkimVars, toMatch, verdict, settings,
                 mailMoves>>

(* ensureManualDkimManagement: every expected domain must be there; those  *)
(* Stalwart manages are set to manual in one call, of which it may carry   *)
(* out a part only.                                                        *)
SetManual(some) ==
  /\ running /\ Expected \subseteq Known /\ some \subseteq Expected
  /\ manual' = manual \cup some

(* A live server is put right before anything starts; one that cannot be   *)
(* reached is skipped on an initial deploy only.                           *)
PreflightLive ==
  /\ mailAt = "preflight" /\ SetManual(Expected)
  /\ mailAt' = "up"
  /\ UNCHANGED <<envVars, served, running, keys, dual, dns, toMatch, verdict,
                 settings, mailMoves>>

PreflightSkipped ==
  /\ mailAt = "preflight" /\ initial
  /\ mailAt' = "up"
  /\ UNCHANGED <<envVars, served, running, dkimVars, toMatch, verdict,
                 settings, mailMoves>>

(* A hook before compose up that fails leaves the container as it was, and *)
(* has set some of the domains at most.                                    *)
BeforeFails ==
  /\ mailAt \in {"before", "preflight"}
  /\ \/ UNCHANGED manual
     \/ mailAt = "preflight" /\ \E some \in SUBSET Expected : SetManual(some)
  /\ mailAt' = "failed" /\ verdict' = "before"
  /\ UNCHANGED <<envVars, served, running, keys, dual, dns, toMatch, settings,
                 mailMoves>>

MailUp ==
  /\ mailAt = "up"
  /\ running' = TRUE /\ mailAt' = "healthy"
  /\ UNCHANGED <<envVars, served, dkimVars, toMatch, verdict, settings,
                 mailMoves>>

-----------------------------------------------------------------------------
(* after.deploy: healthy, then the DKIM checks, whose failure is of two    *)
(* kinds: the keys are not as they must be, or something else went wrong.  *)
Healthy ==
  /\ mailAt = "healthy" /\ running
  /\ mailAt' = "manual"
  /\ UNCHANGED <<envVars, served, running, dkimVars, toMatch, verdict,
                 settings, mailMoves>>

(* What Stalwart says it has set is read again before it is believed.      *)
MakeManual ==
  /\ mailAt = "manual" /\ \E some \in SUBSET Expected : SetManual(some)
  /\ mailAt' = "reread"
  /\ UNCHANGED <<envVars, served, running, keys, dual, dns, toMatch, verdict,
                 settings, mailMoves>>

Reread ==
  /\ mailAt = "reread" /\ running /\ Expected \subseteq manual
  /\ toMatch' = Expected /\ mailAt' = "match"
  /\ UNCHANGED <<envVars, served, running, dkimVars, verdict, settings,
                 mailMoves>>

(* verifyActiveDkimDns: both keys of each domain, each as the DNS has it.  *)
Match ==
  /\ mailAt = "match" /\ running
  /\ \E d \in toMatch : /\ d \in dual /\ keys[d] = dns[d]
                        /\ toMatch' = toMatch \ {d}
  /\ UNCHANGED <<mailAt, envVars, served, running, dkimVars, verdict, settings,
                 mailMoves>>

Matched ==
  /\ mailAt = "match" /\ toMatch = {}
  /\ mailAt' = "rest"
  /\ UNCHANGED <<envVars, served, running, dkimVars, toMatch, verdict,
                 settings, mailMoves>>

(* A DkimInvariantError: Stalwart names no domain, or not every expected   *)
(* one, whenever it is asked (it is asked for fifty); it refuses to set a  *)
(* domain, others set or not; a domain is still its own when read again;   *)
(* a key is missing, or not the published one.                             *)
KeysWrong ==
  \/ mailAt \in {"manual", "reread", "match"} /\ UNCHANGED manual
  \/ mailAt = "manual"
     /\ \E some \in SUBSET Expected : some # Expected /\ SetManual(some)

(* Anything else: no answer, though some domains may have been set; the    *)
(* public DNS cannot be asked.                                             *)
OtherFailure ==
  \/ UNCHANGED manual
  \/ mailAt = "manual" /\ \E some \in SUBSET Expected : SetManual(some)

(* checkDkimOrStop and failureMessage: wrong keys stop the container at    *)
(* once; anything else, and a server that never got healthy, only on an    *)
(* initial deploy.                                                         *)
DkimFails ==
  /\ mailAt \in {"healthy", "manual", "reread", "match"}
  /\ \/ KeysWrong /\ verdict' = "keys"
     \/ OtherFailure /\ verdict' = "other"
  /\ mailAt' = IF mailAt = "healthy"
                 THEN IF initial THEN "stopAgain" ELSE "failed"
                 ELSE IF verdict' = "keys" \/ initial THEN "stop" ELSE "failed"
  /\ toMatch' = {}
  /\ UNCHANGED <<envVars, served, running, keys, dual, dns, settings,
                 mailMoves>>

StopContainer ==
  /\ mailAt \in {"stop", "stopAgain"}
  /\ running' = FALSE /\ mailAt' = "failed"
  /\ UNCHANGED <<envVars, served, dkimVars, toMatch, verdict, settings,
                 mailMoves>>

(* docker stop fails: on an initial deploy failureMessage tries once more, *)
(* and the last failure is in the hook's message.                          *)
StopFails ==
  /\ mailAt \in {"stop", "stopAgain"}
  /\ mailAt' = IF mailAt = "stop" /\ initial THEN "stopAgain" ELSE "failed"
  /\ verdict' = IF mailAt' = "failed" THEN "unstopped" ELSE verdict
  /\ UNCHANGED <<envVars, served, running, dkimVars, toMatch, settings,
                 mailMoves>>

(* The rest is warned of when it fails, and never fails the deploy: three  *)
(* settings one after the other, then the headers, then the reports.       *)
Setup ==
  /\ mailAt = "rest"
  /\ \E some \in InOrder, more \in SUBSET Extra :
       settings' = settings \cup some \cup more
  /\ mailAt' = "ok"
  /\ UNCHANGED <<envVars, served, running, dkimVars, toMatch, verdict,
                 mailMoves>>

MailAgain ==
  /\ mailAt \in {"ok", "failed"} /\ runs < MaxMail
  /\ mailAt' = "idle"
  /\ UNCHANGED <<envVars, served, running, dkimVars, toMatch, verdict,
                 settings, mailMoves>>

-----------------------------------------------------------------------------
(* Stalwart rotates the keys of a domain it manages.                       *)
Rotate ==
  /\ mailMoves < MaxMail /\ mailMoves' = mailMoves + 1
  /\ running
  /\ \E d \in Known \ manual : keys' = [keys EXCEPT ![d] = @ + 1]
  /\ UNCHANGED <<mailAt, envVars, served, running, manual, dual, dns, toMatch,
                 verdict, settings>>

(* Somebody brings the public DNS up to date, or lets a key be made.       *)
Publish ==
  /\ mailMoves < MaxMail /\ mailMoves' = mailMoves + 1
  /\ \E d \in MailDomains : /\ dns' = [dns EXCEPT ![d] = keys[d]]
                            /\ dual' \in {dual, dual \cup {d}}
  /\ UNCHANGED <<mailAt, envVars, served, running, manual, keys, toMatch,
                 verdict, settings>>

(* Between deploys an administrator hands a domain back to Stalwart, or    *)
(* starts the container again by hand.                                     *)
Administer ==
  /\ mailMoves < MaxMail /\ mailMoves' = mailMoves + 1
  /\ mailAt = "idle" /\ runs > 0
  /\ \E d \in Known : manual' = manual \ {d}
  /\ running' = TRUE
  /\ UNCHANGED <<mailAt, envVars, served, keys, dual, dns, toMatch, verdict,
                 settings>>

MailHook == \/ StageDomains \/ PreflightLive \/ PreflightSkipped \/ BeforeFails
            \/ MailUp \/ Healthy \/ MakeManual \/ Reread \/ Match \/ Matched
            \/ DkimFails \/ StopContainer \/ StopFails \/ Setup
MailNext == \/ MailStarts \/ MailHook \/ MailAgain
            \/ Rotate \/ Publish \/ Administer

-----------------------------------------------------------------------------
(* The promise of the hooks of the DKIM management: Reconcile, with every  *)
(* domain Stalwart has a setting.                                          *)
MailPromise == INSTANCE Reconcile WITH
  Settings <- MailDomains,
  Values <- [d \in MailDomains |-> {"manual", "automatic"}],
  live <- [d \in MailDomains |->
             IF d \in manual THEN "manual" ELSE "automatic"],
  wanted <- [d \in MailDomains |-> IF d \in Expected THEN {"manual"}
                                   ELSE {"manual", "automatic"}],
  phase <- IF mailAt \in Steps THEN "running" ELSE mailAt

(* Only the domains of the deploy are taken from Stalwart, and a deploy    *)
(* ends well only with all of them taken.                                  *)
MailKeepsPromise == MailPromise!Spec

(* A deploy that ends well leaves every domain it serves with both keys    *)
(* active, as the public DNS has them, and no rotation to come between:    *)
(* what is compared must no longer be able to change.                      *)
SignsAsPublished ==
  mailAt \in {"rest", "ok"} =>
    \A d \in served \cup {Primary} :
      d \in manual /\ d \in dual /\ keys[d] = dns[d]

(* A check of the keys that fails because they are wrong, and any failure  *)
(* after compose up on an initial deploy, ends with the container stopped; *)
(* unless docker stop failed as well (twice on an initial deploy whose     *)
(* checks failed), which the hook then says. Not promised: anything of a   *)
(* failure before compose up, and of one that is no failure of the keys    *)
(* when the deploy is not an initial one.                                  *)
StoppedWhenWrong ==
  mailAt = "failed" /\ (verdict = "keys" \/ (verdict = "other" /\ initial)) =>
    ~running
=============================================================================
