----------------------------- MODULE SkillUpkeep -----------------------------
(***************************************************************************)
(* Updates of the shared agent skills: the check of every pinned source,   *)
(* the human's choice, the pin and the sync                                *)
(* (src/extensions/skills/update-agent-skills.ts).  Several Pi sessions    *)
(* share the manifest; while one of them waits for a source, a human or    *)
(* the update script, the others and an editor change it.                  *)
(*                                                                         *)
(* Abstractions.  A version is a number.  The update script, which is not  *)
(* part of the repository, may change the manifest and still be reported   *)
(* as failed (it is killed after its timeout).                             *)
(***************************************************************************)
EXTENDS Naturals

CONSTANTS
    Managed,     \* the skills of the manifest
    Upkeepers,   \* runs of a check or an update at one time
    MaxVersion   \* bound: versions a source publishes

ASSUME UpkeepAssumption == MaxVersion \in Nat \ {0}

VARIABLES
    skillManifest,   \* version and enabled flag of every skill
    newest,     \* the newest tag of every source
    upkeep,     \* the runs
    accepted,   \* updates a human accepted
    pinned,     \* updates the script wrote to the manifest
    reported    \* updates reported as "Updated manifest refs"

upkeepVars == <<skillManifest, newest, upkeep, accepted, pinned, reported>>

Versions == 1..MaxVersion
Updates == [skill : Managed, to : Versions]

NoUpkeep == [at |-> "none", asks |-> FALSE, left |-> {}, failed |-> FALSE,
             seen |-> [s \in Managed |-> 1], updates |-> {}]

NoMore(u) == upkeep' = [upkeep EXCEPT ![u] = NoUpkeep]

\* checkSkillUpdates reads the manifest once; session_start and /skillz check
\* stop at a report, /skillz interactive goes on to ask.
StartCheck(u, asks) ==
    /\ upkeep[u] = NoUpkeep
    /\ upkeep' = [upkeep EXCEPT ![u] = [NoUpkeep EXCEPT
            !.at = "checking", !.asks = asks,
            !.left = {s \in Managed : skillManifest[s].enabled},
            !.seen = [s \in Managed |-> skillManifest[s].version]]]
    /\ UNCHANGED <<skillManifest, newest, accepted, pinned, reported>>

\* One source answers with its tags, or fails, in any order.
SourceAnswers(u, s, ok) ==
    /\ upkeep[u].at = "checking" /\ s \in upkeep[u].left
    /\ upkeep' = [upkeep EXCEPT
            ![u].left = @ \ {s},
            ![u].failed = @ \/ ~ok,
            ![u].updates = IF ok /\ newest[s] # upkeep[u].seen[s]
                           THEN @ \cup {[skill |-> s, to |-> newest[s]]} ELSE @]
    /\ UNCHANGED <<skillManifest, newest, accepted, pinned, reported>>

\* One failed source ends the run, so does a check that found nothing.
Checked(u) ==
    /\ upkeep[u].at = "checking" /\ upkeep[u].left = {}
    /\ IF upkeep[u].asks /\ ~upkeep[u].failed /\ upkeep[u].updates # {}
       THEN upkeep' = [upkeep EXCEPT ![u].at = "asking", ![u].seen = NoUpkeep.seen]
       ELSE NoMore(u)
    /\ UNCHANGED <<skillManifest, newest, accepted, pinned, reported>>

\* Mutant: a cancelled question keeps the options that were selected at first.
ChooseDefault(u, chosen) ==
    /\ upkeep[u].at = "asking" /\ chosen \subseteq upkeep[u].updates
    /\ accepted' = accepted \cup chosen
    /\ upkeep' = [upkeep EXCEPT ![u].at = "pinning",
                                ![u].updates = IF chosen = {} THEN @ ELSE chosen]
    /\ UNCHANGED <<skillManifest, newest, pinned, reported>>

\* The human accepts some of the updates; none, too, by cancelling.
Choose(u, chosen) ==
    /\ upkeep[u].at = "asking" /\ chosen \subseteq upkeep[u].updates
    /\ accepted' = accepted \cup chosen
    /\ IF chosen = {} THEN NoMore(u)
       ELSE upkeep' = [upkeep EXCEPT ![u].at = "pinning", ![u].updates = chosen]
    /\ UNCHANGED <<skillManifest, newest, pinned, reported>>

WritePins(written) ==
    /\ skillManifest' = [s \in Managed |->
            IF \E p \in written : p.skill = s
            THEN [skillManifest[s] EXCEPT !.version = (CHOOSE p \in written : p.skill = s).to]
            ELSE skillManifest[s]]
    /\ pinned' = pinned \cup written

\* The script pins what it can.  Without its JSON, with another exit code, or
\* with an outcome that is not ok nothing is synced or reported as updated.
Pin(u, written, ok) ==
    /\ upkeep[u].at = "pinning" /\ written \subseteq upkeep[u].updates
    /\ ok => written = upkeep[u].updates
    /\ WritePins(written)
    /\ IF ok THEN upkeep' = [upkeep EXCEPT ![u].at = "syncing"] ELSE NoMore(u)
    /\ UNCHANGED <<newest, accepted, reported>>

\* /skillz update syncs what the manifest has.
StartSync(u) ==
    /\ upkeep[u] = NoUpkeep
    /\ upkeep' = [upkeep EXCEPT ![u].at = "syncing"]
    /\ UNCHANGED <<skillManifest, newest, accepted, pinned, reported>>

\* The refs are reported as updated whether the sync succeeded or not.
Synced(u) ==
    /\ upkeep[u].at = "syncing" /\ NoMore(u)
    /\ reported' = reported \cup upkeep[u].updates
    /\ UNCHANGED <<skillManifest, newest, accepted, pinned>>

\* A source publishes a version; somebody edits the manifest.
Publish(s) ==
    /\ newest[s] < MaxVersion /\ newest' = [newest EXCEPT ![s] = @ + 1]
    /\ UNCHANGED <<skillManifest, upkeep, accepted, pinned, reported>>

Edit(s, version, enabled) ==
    /\ skillManifest' = [skillManifest EXCEPT ![s] = [version |-> version, enabled |-> enabled]]
    /\ skillManifest' # skillManifest
    /\ UNCHANGED <<newest, upkeep, accepted, pinned, reported>>

UpkeepInit ==
    /\ skillManifest = [s \in Managed |-> [version |-> 1, enabled |-> TRUE]]
    /\ newest = [s \in Managed |-> 1]
    /\ upkeep = [u \in Upkeepers |-> NoUpkeep]
    /\ accepted = {} /\ pinned = {} /\ reported = {}

UpkeepNext ==
    \/ \E u \in Upkeepers :
        \/ \E asks \in BOOLEAN : StartCheck(u, asks)
        \/ \E s \in Managed, ok \in BOOLEAN : SourceAnswers(u, s, ok)
        \/ Checked(u) \/ StartSync(u) \/ Synced(u)
        \/ \E some \in SUBSET upkeep[u].updates : Choose(u, some)
        \/ \E some \in SUBSET upkeep[u].updates, ok \in BOOLEAN : Pin(u, some, ok)
    \/ \E s \in Managed :
        Publish(s) \/ \E v \in Versions, enabled \in BOOLEAN : Edit(s, v, enabled)

UpkeepSpec == UpkeepInit /\ [][UpkeepNext]_upkeepVars

UpkeepTypeOK ==
    /\ skillManifest \in [Managed -> [version : Versions, enabled : BOOLEAN]]
    /\ newest \in [Managed -> Versions]
    /\ \A u \in Upkeepers :
        /\ upkeep[u].at \in {"none", "checking", "asking", "pinning", "syncing"}
        /\ upkeep[u].left \subseteq Managed /\ upkeep[u].updates \subseteq Updates
    /\ accepted \cup pinned \cup reported \subseteq Updates

\* Whatever fails between the check and the report, and whatever other sessions
\* do meanwhile, the script never pins a version that no human accepted, and
\* no update is reported that was not pinned.
ReportIsEarned == reported \subseteq pinned /\ pinned \subseteq accepted

=============================================================================
