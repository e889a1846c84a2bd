----------------------------- MODULE AutoCompact -----------------------------
(***************************************************************************)
(* Automatic and requested compaction of a session's context               *)
(* (extensions/productivity/autocompact): the settings, the cycle of       *)
(* warnings and attempts, and the summaries that are awaited while the     *)
(* session, its branch, model or settings change or the context is         *)
(* compacted by other means.                                               *)
(*                                                                         *)
(* Abstractions.  A token count is how it stands to the effective ceiling. *)
(* Of the settings only "enabled" is kept: a ceiling changes that level.   *)
(***************************************************************************)
EXTENDS Naturals, FiniteSets

CONSTANTS
    Summaries,      \* bound: turn_end handlers that await a summary
    MaxGeneration   \* bound on generation

ASSUME CompactAssumption == MaxGeneration \in Nat \ {0}

VARIABLES
    enabled, settingsFile,  \* config.enabled, in memory and on disk
    reads,                  \* what session_start and the commands await
    generation, compacting,
    pending,                \* a requested compaction
    warned, attempted,      \* CompactionCycle
    summaries,              \* a handler's generation, 0 if it is not running
    attempts                \* history: automatic attempts since the context was
                            \* last seen below the ceiling, or the cycle was reset

compactVars == <<enabled, settingsFile, reads, generation, compacting, pending, warned,
                 attempted, summaries, attempts>>

Levels == {"unknown", "low", "80", "90", "ceiling"}
Percent(level) == CASE level = "90" -> 90 [] level = "80" -> 80 [] OTHER -> 0
Readers == {"start", "status", "save"}
NoRead == "none"
Invalid == "invalid"

ResetCycle == warned' = 0 /\ attempted' = FALSE /\ attempts' = 0
KeepCycle == UNCHANGED <<warned, attempted, attempts>>

Reset ==
    /\ generation < MaxGeneration /\ generation' = generation + 1
    /\ compacting' = FALSE /\ pending' = FALSE

(***************************************************************************)
(* Session events and settings                                             *)
(***************************************************************************)
\* session_start, which then awaits the settings.
SessionStart ==
    /\ Reset /\ ResetCycle
    /\ reads' = [reads EXCEPT !.start = settingsFile]
    /\ UNCHANGED <<enabled, settingsFile, summaries>>

\* session_shutdown and session_tree.
SessionLeft ==
    /\ Reset /\ ResetCycle
    /\ UNCHANGED <<enabled, settingsFile, reads, summaries>>

ModelSelect ==
    /\ ResetCycle
    /\ UNCHANGED <<enabled, settingsFile, reads, generation, compacting, pending,
                   summaries>>

\* session_compact: a native compaction, or our own as Pi commits it.
SessionCompact ==
    /\ Reset /\ warned' = 0 /\ attempted' = TRUE /\ attempts' = 0
    /\ UNCHANGED <<enabled, settingsFile, reads, summaries>>

\* /autocompact status reads the file.
Status ==
    /\ reads.status = NoRead /\ reads' = [reads EXCEPT !.status = settingsFile]
    /\ UNCHANGED <<enabled, settingsFile, generation, compacting, pending, summaries>>
    /\ KeepCycle

\* On, off and ceiling write it, in one step (a temporary file and a rename);
\* a file that does not parse is an error.
Save(patch) ==
    /\ reads.save = NoRead
    /\ settingsFile' = IF settingsFile = Invalid THEN Invalid ELSE patch
    /\ reads' = [reads EXCEPT !.save = settingsFile']
    /\ UNCHANGED <<enabled, generation, compacting, pending, summaries>> /\ KeepCycle

\* The settings arrive.  An invalid file disables at the start of a session and
\* changes nothing for a command; a saved one resets the cycle.
SettingsRead(r) ==
    /\ reads[r] # NoRead
    /\ enabled' = IF reads[r] # Invalid THEN reads[r] = "on"
                  ELSE IF r = "start" THEN FALSE ELSE enabled
    /\ reads' = [reads EXCEPT ![r] = NoRead]
    /\ IF r = "save" /\ reads[r] # Invalid THEN ResetCycle ELSE KeepCycle
    /\ UNCHANGED <<settingsFile, generation, compacting, pending, summaries>>

EditFile(content) ==
    /\ settingsFile' = content /\ settingsFile' # settingsFile
    /\ UNCHANGED <<enabled, reads, generation, compacting, pending, summaries>> /\ KeepCycle

(***************************************************************************)
(* compact_context and turn_end                                            *)
(***************************************************************************)
RequestCompaction ==
    /\ ~compacting /\ pending' = TRUE
    /\ UNCHANGED <<enabled, settingsFile, reads, generation, compacting, summaries>>
    /\ KeepCycle

\* A turn that failed or was aborted.
TurnFails ==
    /\ ~compacting /\ pending' = FALSE
    /\ UNCHANGED <<enabled, settingsFile, reads, generation, compacting, summaries>>
    /\ KeepCycle

Rearmed(level) == IF level \in {"low", "80", "90"} THEN FALSE ELSE attempted
Since(level) == IF level \in {"low", "80", "90"} THEN 0 ELSE attempts

Start(s, automatic, level) ==
    /\ summaries[s] = 0
    /\ summaries' = [summaries EXCEPT ![s] = generation]
    /\ compacting' = TRUE /\ pending' = FALSE
    /\ attempted' = TRUE
    /\ warned' = IF enabled /\ Percent(level) > warned THEN Percent(level) ELSE warned
    /\ attempts' = (IF enabled THEN Since(level) ELSE attempts)
                    + (IF automatic THEN 1 ELSE 0)

\* turn_end up to the await: a compaction starts if one was requested or the
\* context is at the ceiling for the first time; a second time blocks the run.
TurnEnd(s, level) ==
    LET compact == enabled /\ level = "ceiling" /\ ~attempted IN
    /\ ~compacting
    /\ IF pending \/ compact
       THEN Start(s, ~pending, level)
       ELSE /\ enabled
            /\ attempted' = Rearmed(level) /\ attempts' = Since(level)
            /\ warned' = IF Percent(level) > warned THEN Percent(level) ELSE warned
            /\ UNCHANGED <<compacting, pending, summaries>>
    /\ UNCHANGED <<enabled, settingsFile, reads, generation>>

\* Mutant: whichever summary ends, the flag goes down.
LowersFlagForAll(s) == compacting' = FALSE

LowersFlag(s) ==
    compacting' = IF summaries[s] = generation THEN FALSE ELSE compacting

\* The summary arrives, fails or is aborted; one of an earlier generation is
\* dropped.  A failure pauses the run, with a message in its transcript.
SummaryEnds(s, how) ==
    /\ summaries[s] # 0
    /\ LowersFlag(s)
    /\ summaries' = [summaries EXCEPT ![s] = 0]
    /\ IF summaries[s] # generation \/ how = "failed" THEN KeepCycle
       ELSE IF how = "aborted" THEN ResetCycle
       ELSE warned' = 0 /\ attempted' = TRUE /\ UNCHANGED attempts
    /\ UNCHANGED <<enabled, settingsFile, reads, generation, pending>>

CompactInit ==
    /\ enabled = FALSE /\ settingsFile \in {"on", "off", Invalid}
    /\ reads = [r \in Readers |-> NoRead]
    /\ generation = 1 /\ compacting = FALSE /\ pending = FALSE
    /\ warned = 0 /\ attempted = FALSE /\ attempts = 0
    /\ summaries = [s \in Summaries |-> 0]

CompactNext ==
    \/ SessionStart \/ SessionLeft \/ ModelSelect \/ SessionCompact
    \/ Status
    \/ \E patch \in {"on", "off"} : Save(patch)
    \/ \E r \in Readers : SettingsRead(r)
    \/ \E content \in {"on", "off", Invalid} : EditFile(content)
    \/ RequestCompaction \/ TurnFails
    \/ \E s \in Summaries :
        \/ \E level \in Levels : TurnEnd(s, level)
        \/ \E how \in {"done", "failed", "aborted"} : SummaryEnds(s, how)

CompactSpec == CompactInit /\ [][CompactNext]_compactVars

(***************************************************************************)
(* Properties                                                              *)
(***************************************************************************)
CompactTypeOK ==
    /\ {enabled, compacting, pending, attempted} \subseteq BOOLEAN
    /\ settingsFile \in {"on", "off", Invalid}
    /\ reads \in [Readers -> {NoRead, "on", "off", Invalid}]
    /\ generation \in 1..MaxGeneration /\ warned \in {0, 80, 90}
    /\ summaries \in [Summaries -> 0..MaxGeneration]

\* Whatever sessions, branches and other compactions come and go while a
\* summary is awaited: the flag is up exactly while a compaction of this
\* generation runs, of which there is one at a time, so that none is locked
\* out for ever and no two summarize the same context; and the context is not
\* compacted automatically again and again while it stays above the ceiling.
CompactsOnce ==
    /\ compacting <=> \E s \in Summaries : summaries[s] = generation
    /\ Cardinality({s \in Summaries : summaries[s] = generation}) <= 1
    /\ attempts <= 1

=============================================================================
