---------------------------- MODULE EvalEvidence ----------------------------
(***************************************************************************)
(* The evidence of a skill evaluation: the event journal of RunStorage     *)
(* (extensions/evals/skill-eval/storage.ts), the tool-call file of         *)
(* VariantRecorder (recorder.ts), and what run.json says of both while     *)
(* runner.ts runs, retries, settles and saves.                             *)
(*                                                                         *)
(* Abstractions.  Events and tool calls are numbers.  The prompt snapshots *)
(* share the queue of the tool calls and are left out; so is every file    *)
(* that is written in one go.  The record is that of the variant under     *)
(* way.  A crash of the process is a state in which nothing happens more.  *)
(***************************************************************************)
EXTENDS Naturals, Sequences

CONSTANTS
    MaxEvents,    \* bound: events emitted before the run ends
    MaxTries   \* bound: attempts of all variants

ASSUME EvidenceAssumption == MaxEvents \in Nat /\ MaxTries \in Nat

VARIABLES
    stage,      \* where runEvaluation is
    tries,
    archived,   \* the variant's files were moved away for a retry
    journal,    \* RunStorage: events emitted, on file, queued; the chain rejected
    callLines,      \* the same of the VariantRecorder's tool calls
    marks,      \* completeness of events and toolCalls in the record
    saved       \* the same in run.json

evidenceVars == <<stage, tries, archived, journal, callLines, marks, saved>>

NewQueue == [made |-> 0, file |-> <<>>, queue |-> <<>>, broken |-> FALSE]

\* Appends are chained: they reach the file one after the other.
Queued(q) == [q EXCEPT !.made = @ + 1, !.queue = Append(@, q.made + 1)]

\* After an append that failed the chain is rejected, and no later one is tried.
Written(q, ok) ==
    IF ok THEN [q EXCEPT !.file = Append(@, Head(q.queue)), !.queue = Tail(@)]
    ELSE [q EXCEPT !.queue = <<>>, !.broken = TRUE]

Push(q) == IF q.broken THEN [q EXCEPT !.made = @ + 1] ELSE Queued(q)

AppendsEvent(ok) ==
    /\ journal.queue # <<>> /\ journal' = Written(journal, ok)
    /\ UNCHANGED <<stage, tries, archived, callLines, marks, saved>>

AppendsCall(ok) ==
    /\ callLines.queue # <<>> /\ callLines' = Written(callLines, ok)
    /\ UNCHANGED <<stage, tries, archived, journal, marks, saved>>

Emit ==
    /\ stage \in {"between", "trying", "finalizing"} /\ journal.made < MaxEvents
    /\ journal' = Push(journal)
    /\ UNCHANGED <<stage, tries, archived, callLines, marks, saved>>

\* A timed-out attempt is moved away; the record still speaks of its files.
Archive ==
    /\ stage = "between" /\ tries > 0 /\ ~archived /\ archived' = TRUE
    /\ journal.made < MaxEvents /\ journal' = Push(journal)
    /\ callLines' = NewQueue
    /\ UNCHANGED <<stage, tries, marks, saved>>

\* Another variant, or the retry, whose files are new.
StartAttempt ==
    /\ stage = "between" /\ tries < MaxTries
    /\ stage' = "trying" /\ tries' = tries + 1 /\ archived' = FALSE
    /\ callLines' = NewQueue
    /\ marks' = [marks EXCEPT !.toolCalls = "partial"] /\ saved' = marks'
    /\ UNCHANGED journal

\* A tool's events go to both files.
ToolEvent ==
    /\ stage = "trying" /\ journal.made < MaxEvents
    /\ journal' = Push(journal) /\ callLines' = Push(callLines)
    /\ UNCHANGED <<stage, tries, archived, marks, saved>>

\* The agent's events are no longer listened to.
AttemptEnds ==
    /\ stage = "trying" /\ stage' = "finalizing"
    /\ UNCHANGED <<tries, archived, journal, callLines, marks, saved>>

\* Mutant: the recorder's queue is not awaited.
FinalizeAtOnce(ok) ==
    /\ stage = "finalizing" /\ stage' = "flushing"
    /\ marks' = [marks EXCEPT !.toolCalls = IF ok /\ ~callLines.broken THEN "complete" ELSE @]
    /\ UNCHANGED <<tries, archived, journal, callLines, saved>>

\* finalizeSession awaits the queue and writes the other files; there may be no
\* session to finalize, or a file that cannot be written.
Finalize(ok) ==
    /\ stage = "finalizing" /\ stage' = "flushing"
    /\ ok => callLines.queue = <<>> /\ ~callLines.broken
    /\ marks' = [marks EXCEPT !.toolCalls = IF ok THEN "complete" ELSE @]
    /\ UNCHANGED <<tries, archived, journal, callLines, saved>>

\* The attempt settles once the journal is flushed; a rejected chain throws
\* out of it before it is saved.
SettleAttempt ==
    /\ stage = "flushing" /\ journal.queue = <<>>
    /\ IF journal.broken THEN stage' = "closing" /\ UNCHANGED saved
       ELSE stage' = "between" /\ saved' = marks
    /\ UNCHANGED <<tries, archived, journal, callLines, marks>>

\* The loop over the variants ends or throws.
LeaveLoop ==
    /\ stage = "between" /\ stage' = "closing"
    /\ UNCHANGED <<tries, archived, journal, callLines, marks, saved>>

\* The run is saved as it is, its report made, and the last event emitted.
CloseRun ==
    /\ stage = "closing" /\ stage' = "settling"
    /\ saved' = marks /\ journal' = Push(journal)
    /\ UNCHANGED <<tries, archived, callLines, marks>>

\* The journal is flushed and called complete; a rejected chain throws.
SettleRun ==
    /\ stage = "settling" /\ journal.queue = <<>>
    /\ IF journal.broken THEN stage' = "thrown" /\ UNCHANGED <<marks, saved>>
       ELSE /\ stage' = "ended"
            /\ marks' = [marks EXCEPT !.events = "complete"] /\ saved' = marks'
    /\ UNCHANGED <<tries, archived, journal, callLines>>

\* RunStorage.create has saved the record.
EvidenceInit ==
    /\ stage = "between" /\ tries = 0 /\ archived = FALSE
    /\ journal = NewQueue /\ callLines = NewQueue
    /\ marks = [events |-> "partial", toolCalls |-> "not_started"] /\ saved = marks

EvidenceNext ==
    \/ \E ok \in BOOLEAN : AppendsEvent(ok) \/ AppendsCall(ok) \/ Finalize(ok)
    \/ Emit \/ Archive \/ StartAttempt \/ ToolEvent \/ AttemptEnds \/ SettleAttempt
    \/ LeaveLoop \/ CloseRun \/ SettleRun

EvidenceSpec == EvidenceInit /\ [][EvidenceNext]_evidenceVars

EvidenceTypeOK ==
    /\ stage \in {"between", "trying", "finalizing", "flushing", "closing", "settling",
                  "ended", "thrown"}
    /\ tries \in 0..MaxTries /\ archived \in BOOLEAN
    /\ {journal.made, callLines.made} \subseteq 0..(MaxEvents + 1)
    /\ {marks, saved} \subseteq [events : {"partial", "complete"},
                                 toolCalls : {"not_started", "partial", "complete"}]

\* Wherever the process dies and whichever append failed, a file that run.json
\* calls complete has every line that was recorded, in the order of recording.
\* The files of an attempt that was moved away are excepted: run.json goes on
\* calling them complete until the retry starts, and for good if it never does.
EvidenceIsWhole ==
    LET Whole(q) == q.file = [i \in 1..q.made |-> i] IN
    /\ saved.events = "complete" => Whole(journal)
    /\ saved.toolCalls = "complete" /\ ~archived => Whole(callLines)

=============================================================================
