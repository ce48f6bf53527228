-------------------------------- MODULE Sieve -------------------------------
(**************************************************************************)
(* The two scripts for a mailbox of Stalwart: ensure-account makes an        *)
(* account and may give it a redirect, apply-sieve-filters replaces the      *)
(* account's Sieve script of one name and then sorts the mail already        *)
(* there (scripts/stalwart). Every request may fail and end the run, done or *)
(* not; the calls of one request are answered one by one. A search returns   *)
(* its first hundred messages, and a mailbox has no more of one kind here.   *)
(**************************************************************************)
EXTENDS Naturals, FiniteSets

CONSTANTS
  Mails,     \* messages of the mailbox
  MatchedBy, \* message -> the rules that match it: "Reports", "BANK", ...
  MaxSieve   \* bound: runs

ASSUME MatchedByType ==
  MatchedBy \in [Mails -> SUBSET {"Reports", "BANK", "Digests", "bounce"}]
ASSUME SieveBound == MaxSieve \in Nat

VARIABLES
  sieveAt,  \* where the run is
  redirect, \* the run is ensure-account's
  tidy,     \* what the run does to the mail there: "no", "move" or "all"
  account,  \* the account is there
  scripts,  \* versions of the named script the account has
  active,   \* the one active script: of that name, the owner's own, or none
  replaced, \* versions found by the query
  inBox,    \* message -> the folder it is in, "gone" once deleted
  boxes,    \* folders of the mailbox
  toMove,   \* messages to move
  missed,   \* the server refused to move or delete one, and nobody looked
  ownerActed,    \* the owner changed the active script during the run
  sieveRuns

sieveVars == <<sieveAt, redirect, tidy, account, scripts, active, replaced,
               inBox, boxes, toMove, missed, ownerActed, sieveRuns>>
scriptVars == <<scripts, active>>
optionVars == <<redirect, tidy, sieveRuns>>
mailboxVars == <<inBox, boxes, toMove, missed>>

Targets == {"Reports", "BANK", "Digests"}
SieveSteps == {"account", "check", "query", "swap", "boxes", "search", "move",
               "bounces", "done"}

(* runMove: the first rule that matches a message decides.                   *)
TargetOf(m) == IF "Reports" \in MatchedBy[m] THEN "Reports"
               ELSE IF "BANK" \in MatchedBy[m] THEN "BANK" ELSE "Digests"
Matching == {m \in Mails : MatchedBy[m] \cap Targets # {}}
Bounces == {m \in Mails : "bounce" \in MatchedBy[m]}

SieveTypeOK ==
  /\ sieveAt \in SieveSteps \cup {"idle", "ok", "failed"}
  /\ redirect \in BOOLEAN /\ tidy \in {"no", "move", "all"}
  /\ account \in BOOLEAN /\ missed \in BOOLEAN
  /\ scripts \subseteq {"old", "new"} /\ replaced \subseteq {"old", "new"}
  /\ active \in {"none", "old", "new", "own"}
  /\ inBox \in [Mails -> Targets \cup {"inbox", "archive", "gone"}]
  /\ boxes \subseteq Targets /\ toMove \subseteq Matching
  /\ ownerActed \in BOOLEAN /\ sieveRuns \in 0..MaxSieve

SieveInit ==
  /\ sieveAt = "idle" /\ redirect = FALSE /\ tidy = "no" /\ account = FALSE
  /\ scripts = {} /\ active = "none" /\ replaced = {}
  /\ inBox = [m \in Mails |-> "inbox"] /\ boxes = {} /\ toMove = {}
  /\ missed = FALSE /\ ownerActed = FALSE /\ sieveRuns = 0

-----------------------------------------------------------------------------
(* --skip-move alone skips nothing: runMove is left out only together with   *)
(* the deleting, and so is by ensure-account.                                *)
SieveStarts ==
  /\ sieveAt \in {"idle", "ok", "failed"} /\ sieveRuns < MaxSieve
  /\ sieveRuns' = sieveRuns + 1
  /\ redirect' \in BOOLEAN
  /\ tidy' \in IF redirect' THEN {"no"} ELSE {"no", "move", "all"}
  /\ account \/ redirect'
  /\ sieveAt' = IF redirect' THEN "account" ELSE "query"
  /\ replaced' = {} /\ toMove' = {} /\ missed' = FALSE
  /\ ownerActed' = FALSE
  /\ scripts' = IF "new" \in scripts THEN {"old"} ELSE scripts
  /\ active' = IF active = "new" THEN "old" ELSE active
  /\ UNCHANGED <<account, inBox, boxes>>

(* ensureAccount: an account with the address is taken as it is. Asked for   *)
(* no redirect, the run is over.                                             *)
EnsureAccount ==
  /\ sieveAt = "account"
  /\ account' = TRUE /\ sieveAt' \in {"check", "idle", "failed"}
  /\ UNCHANGED <<optionVars, scriptVars, replaced, mailboxVars, ownerActed>>

(* installRedirect: an active script of another name stops the run.          *)
CheckOther ==
  /\ sieveAt = "check" /\ active # "own"
  /\ sieveAt' = "query"
  /\ UNCHANGED <<optionVars, account, scriptVars, replaced, mailboxVars,
                 ownerActed>>

QueryAndUpload ==
  /\ sieveAt = "query"
  /\ replaced' = scripts /\ sieveAt' = "swap"
  /\ UNCHANGED <<optionVars, account, scriptVars, mailboxVars, ownerActed>>

(* One request: every version found is switched off and destroyed, and the   *)
(* new one made active. Each call may be refused, and the next still runs;   *)
(* one refusal fails the run. A script in use is not destroyed.              *)
Swap ==
  /\ sieveAt = "swap"
  /\ \E off \in SUBSET (replaced \cap scripts),
        destroyed \in SUBSET (replaced \cap scripts), made \in BOOLEAN :
       LET still == IF active \in off THEN "none" ELSE active IN
       /\ still \notin destroyed
       /\ scripts' = (scripts \ destroyed) \cup (IF made THEN {"new"} ELSE {})
       /\ active' = IF made THEN "new" ELSE still
       /\ \/ sieveAt' = "failed"
          \/ /\ off = replaced /\ destroyed = replaced /\ made
             /\ sieveAt' = IF tidy = "no" THEN "ok" ELSE "boxes"
  /\ UNCHANGED <<optionVars, account, replaced, mailboxVars, ownerActed>>

(* A dry run ends before the swap.                                           *)
DryRun ==
  /\ sieveAt = "swap" /\ ~redirect
  /\ sieveAt' = "idle"
  /\ UNCHANGED <<optionVars, account, scriptVars, replaced, mailboxVars,
                 ownerActed>>

(* Whether the folders were made is not looked at.                           *)
EnsureBoxes ==
  /\ sieveAt = "boxes"
  /\ \E made \in SUBSET Targets : boxes' = boxes \cup made
  /\ sieveAt' \in {"search", "failed"}
  /\ UNCHANGED <<optionVars, account, scriptVars, replaced, inBox, toMove,
                 missed, ownerActed>>

(* The searches name no folder: a message matches wherever it is.            *)
Search ==
  /\ sieveAt = "search"
  /\ toMove' = {m \in Matching : inBox[m] # "gone"} /\ sieveAt' = "move"
  /\ UNCHANGED <<optionVars, account, scriptVars, replaced, inBox, boxes,
                 missed, ownerActed>>

(* Batch after batch: what the server refuses, for want of the folder or for *)
(* its own reasons, is in an answer nobody reads.                            *)
MoveBatch ==
  /\ sieveAt = "move" /\ toMove # {}
  /\ \E batch \in SUBSET toMove \ {{}} :
     \E moved \in SUBSET {m \in batch : TargetOf(m) \in boxes} :
       /\ inBox' = [m \in Mails |-> IF m \in moved THEN TargetOf(m)
                                    ELSE inBox[m]]
       /\ toMove' = toMove \ batch /\ missed' = (missed \/ moved # batch)
  /\ sieveAt' \in {"move", "failed"}
  /\ UNCHANGED <<optionVars, account, scriptVars, replaced, boxes, ownerActed>>

AllMoved ==
  /\ sieveAt = "move" /\ toMove = {}
  /\ sieveAt' = IF tidy = "all" THEN "bounces" ELSE "done"
  /\ UNCHANGED <<optionVars, account, scriptVars, replaced, mailboxVars,
                 ownerActed>>

(* runDeleteBounces: in whatever folder they are by now.                     *)
DeleteBounces ==
  /\ sieveAt = "bounces"
  /\ \E deleted \in SUBSET Bounces :
       /\ inBox' = [m \in Mails |-> IF m \in deleted THEN "gone" ELSE inBox[m]]
       /\ missed' = (missed \/ \E m \in Bounces : inBox'[m] # "gone")
  /\ sieveAt' \in {"done", "failed"}
  /\ UNCHANGED <<optionVars, account, scriptVars, replaced, boxes, toMove,
                 ownerActed>>

SieveEnds ==
  /\ sieveAt = "done" /\ sieveAt' = "ok"
  /\ UNCHANGED <<optionVars, account, scriptVars, replaced, mailboxVars,
                 ownerActed>>

SieveFails ==
  /\ sieveAt \in SieveSteps \ {"done"}
  /\ sieveAt' = "failed"
  /\ UNCHANGED <<optionVars, account, scriptVars, replaced, mailboxVars,
                 ownerActed>>

(* The owner switches to a script of his own, or files a message away.       *)
OwnerActs ==
  /\ account /\ ~ownerActed /\ ownerActed' = TRUE
  /\ \/ active' = "own" /\ UNCHANGED inBox
     \/ \E m \in Mails : /\ inBox[m] # "gone" /\ UNCHANGED active
                         /\ inBox' = [inBox EXCEPT ![m] = "archive"]
  /\ UNCHANGED <<sieveAt, optionVars, account, scripts, replaced, boxes,
                 toMove, missed>>

SieveStep == \/ EnsureAccount \/ CheckOther \/ QueryAndUpload \/ Swap \/ DryRun
             \/ EnsureBoxes \/ Search \/ MoveBatch \/ AllMoved
             \/ DeleteBounces \/ SieveEnds \/ SieveFails
SieveNext == SieveStarts \/ SieveStep \/ OwnerActs

-----------------------------------------------------------------------------
(* A run for a redirect never takes the place of a script of the owner's     *)
(* that was active before the run, and any run that ends well has left the   *)
(* new script the active one, unless the owner acted meanwhile.              *)
RightScript ==
  /\ [][SieveStep /\ redirect /\ ~ownerActed /\ active = "own" =>
          active' = "own"]_sieveVars
  /\ [](sieveAt = "ok" /\ ~ownerActed => active = "new" /\ scripts = {"new"})

(* Sorting: Reconcile, with every message a setting. A message no rule       *)
(* matches stays where it is; one that a rule matches, and a bounce, may go  *)
(* from wherever it is, also from where the owner has filed it: that is what *)
(* the code does, and not what its header says (MovesFromInbox). A run in    *)
(* which the server refused a message, unheard, has not kept the promise,    *)
(* whatever it reports; of one in which the owner acts nothing is said.      *)
Places == Targets \cup {"inbox", "archive", "gone"}
Unasked == [m \in Mails |-> Places]
Asked == [m \in Mails |->
  IF tidy = "no" \/ ~(m \in Matching \/ (tidy = "all" /\ m \in Bounces))
  THEN Places
  ELSE (IF m \in Matching THEN {TargetOf(m)} ELSE {}) \cup
       (IF m \in Bounces THEN {"gone"} ELSE {})]
SortPhase == IF ownerActed THEN "idle"
             ELSE IF sieveAt \in SieveSteps THEN "running"
             ELSE IF sieveAt = "ok" /\ missed THEN "failed" ELSE sieveAt
Sorting == INSTANCE Reconcile WITH
  Settings <- Mails, Values <- Unasked,
  live <- inBox, wanted <- Asked, phase <- SortPhase
SortsAsAsked == Sorting!Spec

(* scripts/stalwart/apply-sieve-filters.ts:8-9: the script "bulk-moves       *)
(* existing matching messages from INBOX into the new folders". So a run     *)
(* leaves a message alone that the owner has filed elsewhere before it.      *)
MovesFromInbox ==
  [][ SieveStep /\ ~ownerActed =>
        \A m \in Mails : inBox'[m] \in Targets /\ inBox'[m] # inBox[m] =>
                         inBox[m] = "inbox" ]_sieveVars
=============================================================================
