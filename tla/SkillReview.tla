------------------------------ MODULE SkillReview ------------------------------
(***************************************************************************)
(* One run of /skill-review (src/extensions/skills/improve-skill): the     *)
(* command creates run.json, opens terminal panes that start one capture   *)
(* process per reviewer and a consolidation process, and records what it   *)
(* could not start.  The processes share the run directory only: status    *)
(* files written once, and run.json changed under a lock directory.  A     *)
(* monitor in the session polls both and shows them in a widget.           *)
(*                                                                         *)
(* Abstractions.  A second command, whose monitor replaces the first, and  *)
(* a session that ends before the run exists are left out.                 *)
(***************************************************************************)
EXTENDS Naturals, FiniteSets

CONSTANTS Reviewers         \* Pi, Codex and Claude

ASSUME ReviewAssumption ==
  Reviewers # {} /\ Reviewers \cap {"nobody", "consolidator", "launcher"} = {}

VARIABLES handler,      \* of the command: checking, preparing, launching, rolling, done
          untried,      \* reviewers it has not tried to start
          missing,      \* reviewers not started, their failure still to be written
          captures,     \* the capture process of each reviewer
          consolidation,\* the consolidation process
          manifest,     \* run.json
          lockedBy,     \* holder of .run-json.lock, or NoHolder
          read,         \* run.json as the holder has read it
          statusFile,   \* <reviewer>.status.json
          statuses,     \* what the consolidation has read of them
          monitor,      \* of monitorReviewStatus
          seen,         \* what the monitor has read of a run that ended
          widget        \* what the session shows: none, incomplete, complete

runVars == <<untried, missing, captures, consolidation, manifest, lockedBy, read,
             statusFile, statuses>>
monitorVars == <<monitor, seen, widget>>
reviewVars == <<handler, runVars, monitorVars>>

NoHolder == "nobody"
Consolidator == "consolidator"
Launcher == "launcher"
NoResult == "none"
ReviewResults == {"complete", "failed", "timed_out"}

NewManifest == [status |-> "running", launchError |-> FALSE,
                reviewers |-> [r \in Reviewers |-> NoResult], consolidated |-> NoResult]

NoWidget == "none"
NothingSeen == [status |-> "none", recorded |-> {}]

ReviewInit ==
  /\ handler = "checking" /\ untried = Reviewers /\ missing = {}
  /\ captures = [r \in Reviewers |-> "none"] /\ consolidation = "none"
  /\ manifest = NewManifest /\ lockedBy = NoHolder /\ read = NewManifest
  /\ statusFile = [r \in Reviewers |-> NoResult]
  /\ statuses = [r \in Reviewers |-> NoResult]
  /\ monitor = "none" /\ seen = NothingSeen /\ widget = NoWidget

-----------------------------------------------------------------------------
(* updateRunManifest: take the lock and read, then write and release *)

\* Mutant: run.json is read without waiting for the lock.
LocksAnyway(p) ==
  /\ lockedBy' = p /\ read' = manifest

Locks(p) ==
  /\ lockedBy = NoHolder
  /\ lockedBy' = p /\ read' = manifest

Writes(record) ==
  /\ manifest' = record /\ lockedBy' = NoHolder /\ read' = NewManifest

-----------------------------------------------------------------------------
(* The command *)

\* Without a terminal, arguments, a repository, a skill, a prompt, Supacode or a
\* reviewer's executable, or only asked to show, nothing is started.
Refuse ==
  /\ handler = "checking" /\ handler' = "refused"
  /\ UNCHANGED <<runVars, monitorVars>>

\* The run directory, run.json and the prompts exist; the monitor starts.
CreateRun ==
  /\ handler = "checking" /\ handler' = "preparing" /\ monitor' = "on"
  /\ UNCHANGED <<runVars, seen, widget>>

\* The panes are created; a failure before the first launch starts nothing.
OpenPanes ==
  /\ handler = "preparing"
  /\ \/ handler' = "launching" /\ UNCHANGED missing
     \/ handler' = "rolling" /\ missing' = Reviewers
  /\ UNCHANGED <<untried, captures, consolidation, manifest, lockedBy,
                 read, statusFile, statuses>>

\* A reviewer is started in its pane.  The terminal's control command may also
\* time out although the pane runs: that reviewer counts as failed.
LaunchReviewer(r, begun, reported) ==
  /\ handler = "launching" /\ r \in untried /\ (reported => begun)
  /\ untried' = untried \ {r}
  /\ captures' = [captures EXCEPT ![r] = IF begun THEN "running" ELSE @]
  /\ statusFile' = IF reported THEN statusFile ELSE [statusFile EXCEPT ![r] = "failed"]
  /\ UNCHANGED <<handler, missing, consolidation, manifest, lockedBy, read, statuses>>

\* The command runner itself fails: the reviewers not tried are written off.
LaunchThrows ==
  /\ handler = "launching" /\ untried # {}
  /\ handler' = "rolling" /\ missing' = untried
  /\ UNCHANGED <<untried, captures, consolidation, manifest, lockedBy,
                 read, statusFile, statuses>>

LaunchConsolidation(begun, reported) ==
  /\ handler = "launching" /\ untried = {} /\ (reported => begun)
  /\ consolidation' = IF begun THEN "waiting" ELSE consolidation
  /\ handler' = IF reported THEN "done" ELSE "rolling"
  /\ UNCHANGED <<untried, missing, captures, manifest, lockedBy, read,
                 statusFile, statuses>>

WriteOff(r) ==
  /\ handler = "rolling" /\ r \in missing
  /\ missing' = missing \ {r} /\ statusFile' = [statusFile EXCEPT ![r] = "failed"]
  /\ UNCHANGED <<handler, untried, captures, consolidation, manifest,
                 lockedBy, read, statuses>>

\* recordRunLaunchFailure; a lock nobody releases makes it give up.
RecordsLaunchError ==
  /\ handler = "rolling" /\ missing = {}
  /\ Locks(Launcher) /\ handler' = "recording"
  /\ UNCHANGED <<untried, missing, captures, consolidation, manifest,
                 statusFile, statuses>>

RecordedLaunchError ==
  /\ handler = "recording" /\ handler' = "done"
  /\ Writes([read EXCEPT !.status = "partial", !.launchError = TRUE])
  /\ UNCHANGED <<untried, missing, captures, consolidation, statusFile, statuses>>

GivesUpRecording ==
  /\ handler = "rolling" /\ missing = {} /\ lockedBy # NoHolder
  /\ handler' = "done"
  /\ UNCHANGED <<untried, missing, captures, consolidation, manifest,
                 lockedBy, read, statusFile, statuses>>

-----------------------------------------------------------------------------
(* A capture process: runCaptured *)

ReviewerEnds(r, result) ==
  /\ captures[r] = "running" /\ result \in {"complete", "failed"}
  /\ captures' = [captures EXCEPT ![r] = "filed"]
  /\ statusFile' = [statusFile EXCEPT ![r] = result]
  /\ UNCHANGED <<handler, untried, missing, consolidation, manifest,
                 lockedBy, read, statuses>>

LockForReviewer(r) ==
  /\ captures[r] = "filed" /\ Locks(r)
  /\ captures' = [captures EXCEPT ![r] = "locked"]
  /\ UNCHANGED <<handler, untried, missing, consolidation, manifest,
                 statusFile, statuses>>

RecordReviewer(r) ==
  /\ captures[r] = "locked" /\ captures' = [captures EXCEPT ![r] = "ended"]
  /\ Writes([read EXCEPT !.reviewers[r] = statusFile[r]])
  /\ UNCHANGED <<handler, untried, missing, consolidation, statusFile, statuses>>

\* The pane is killed, with the lock if the process holds it, or the process
\* gives up after two hundred attempts at a lock.
CaptureDies(r) ==
  /\ captures[r] \in {"running", "filed", "locked"}
  /\ captures' = [captures EXCEPT ![r] = "dead"]
  /\ UNCHANGED <<handler, untried, missing, consolidation, manifest,
                 lockedBy, read, statusFile, statuses>>

-----------------------------------------------------------------------------
(* The consolidation process *)

ReadStatus(r) ==
  /\ consolidation = "waiting" /\ statuses[r] = NoResult /\ statusFile[r] # NoResult
  /\ statuses' = [statuses EXCEPT ![r] = statusFile[r]]
  /\ UNCHANGED <<handler, untried, missing, captures, consolidation,
                 manifest, lockedBy, read, statusFile>>

\* All statuses are there, or thirty minutes are over.
EndWait ==
  /\ consolidation = "waiting" /\ consolidation' = "gathered"
  /\ statuses' = [r \in Reviewers |-> IF statuses[r] = NoResult THEN "timed_out"
                                                               ELSE statuses[r]]
  /\ UNCHANGED <<handler, untried, missing, captures, manifest, lockedBy,
                 read, statusFile>>

Step(from, to) == consolidation = from /\ consolidation' = to

\* Each of the three updates of run.json: consolidating, the result of the
\* consolidation, the outcome of the run.
LockForRun ==
  /\ \/ Step("gathered", "marking") \/ Step("consolidated", "storing")
     \/ Step("unconsolidated", "storingFailure")
     \/ Step("stored", "closing") \/ Step("storedFailure", "closingFailure")
     \/ Step("broken", "breaking")
  /\ Locks(Consolidator)
  /\ UNCHANGED <<handler, untried, missing, captures, manifest,
                 statusFile, statuses>>

Earned(result) ==
  IF result = "complete" /\ \A r \in Reviewers : statuses[r] = "complete"
  THEN "complete" ELSE "partial"

Ends(result) == [read EXCEPT !.status = Earned(result), !.consolidated = result]

WriteRun ==
  /\ \/ Step("marking", "consolidating")
          /\ Writes([read EXCEPT !.status = "consolidating",
                                               !.reviewers = statuses])
     \/ Step("storing", "stored")
          /\ Writes([read EXCEPT !.consolidated = "complete"])
     \/ Step("storingFailure", "storedFailure")
          /\ Writes([read EXCEPT !.consolidated = "failed"])
     \/ Step("closing", "ended") /\ Writes(Ends("complete"))
     \/ Step("closingFailure", "ended") /\ Writes(Ends("failed"))
     \/ Step("breaking", "ended") /\ Writes(Ends("failed"))
  /\ UNCHANGED <<handler, untried, missing, captures, statusFile, statuses>>

Consolidates ==
  /\ \/ Step("consolidating", "consolidated") \/ Step("consolidating", "unconsolidated")
     \* Interrupted while waiting, a file it cannot read or write, or a lock it
     \* could not get: the run ends partial.
     \/ Step("waiting", "broken") \/ Step("consolidating", "broken")
     \/ \E step \in {"gathered", "consolidated", "unconsolidated", "stored", "storedFailure"} :
          lockedBy # NoHolder /\ Step(step, "broken")
     \* A second signal, or the lock stays taken: the process is gone.
     \/ consolidation \notin {"none", "ended", "dead"} /\ consolidation' = "dead"
  /\ UNCHANGED <<handler, untried, missing, captures, manifest, lockedBy,
                 read, statusFile, statuses>>

-----------------------------------------------------------------------------
(* The monitor *)

ReadProgress ==
  /\ monitor = "on" /\ monitor' = "reading"
  /\ seen' = IF manifest.status \in {"complete", "partial"}
             THEN [status |-> manifest.status,
                   recorded |-> {r \in Reviewers : manifest.reviewers[r] # NoResult}]
             ELSE NothingSeen
  /\ UNCHANGED <<handler, runVars, widget>>

\* Each review has a result in run.json, else in its own status file.
Terminal ==
  /\ seen.status \in {"complete", "partial"}
  /\ \A r \in Reviewers : r \in seen.recorded \/ statusFile[r] # NoResult

\* A terminal run is not polled again; one that cannot be read is.
ShowProgress(readable) ==
  /\ monitor = "reading"
  /\ widget' = IF readable /\ seen.status = "complete" THEN "complete" ELSE "incomplete"
  /\ monitor' = IF readable /\ Terminal THEN "finished" ELSE "on"
  /\ seen' = NothingSeen
  /\ UNCHANGED <<handler, runVars>>

EndSession ==
  /\ monitor \in {"on", "reading", "finished"} /\ widget' = NoWidget
  /\ monitor' = IF monitor = "reading" THEN "stale" ELSE "over"
  /\ seen' = NothingSeen
  /\ UNCHANGED <<handler, runVars>>

\* What a stopped monitor has read is not shown.
DropProgress ==
  /\ monitor = "stale" /\ monitor' = "over"
  /\ UNCHANGED <<handler, runVars, seen, widget>>

-----------------------------------------------------------------------------
RunNext ==
  \/ OpenPanes \/ LaunchThrows \/ RecordsLaunchError \/ RecordedLaunchError
  \/ GivesUpRecording \/ EndWait \/ LockForRun \/ WriteRun \/ Consolidates
  \/ \E begun, reported \in BOOLEAN :
       \/ LaunchConsolidation(begun, reported)
       \/ \E r \in Reviewers : LaunchReviewer(r, begun, reported)
  \/ \E r \in Reviewers :
       \/ WriteOff(r) \/ LockForReviewer(r) \/ RecordReviewer(r)
       \/ CaptureDies(r) \/ ReadStatus(r)
       \/ \E result \in ReviewResults : ReviewerEnds(r, result)

ReviewNext ==
  \/ RunNext /\ UNCHANGED monitorVars
  \/ Refuse \/ CreateRun \/ ReadProgress \/ EndSession \/ DropProgress
  \/ \E readable \in BOOLEAN : ShowProgress(readable)

ReviewSpec == ReviewInit /\ [][ReviewNext]_reviewVars

-----------------------------------------------------------------------------
ReviewTypeOK ==
  /\ handler \in {"checking", "refused", "preparing", "launching", "rolling", "recording", "done"}
  /\ missing \subseteq Reviewers /\ untried \subseteq Reviewers
  /\ captures \in [Reviewers -> {"none", "running", "filed", "locked", "ended", "dead"}]
  /\ manifest.status \in {"running", "consolidating", "complete", "partial"}
  /\ manifest.reviewers \in [Reviewers -> ReviewResults \cup {NoResult}]
  /\ lockedBy \in Reviewers \cup {NoHolder, Launcher, Consolidator}
  /\ statusFile \in [Reviewers -> {NoResult, "complete", "failed"}]
  /\ monitor \in {"none", "on", "reading", "finished", "stale", "over"}
  /\ widget \in {NoWidget, "incomplete", "complete"}

\* The consolidation has not marked the reviews yet.
NotMarked == consolidation \in {"none", "waiting", "gathered", "marking"}

\* What run.json says of a review is what its own process found or what the
\* consolidation took it for, which may be older: its wait may be over when the
\* review ends.  A run is "complete" only with every review and the
\* consolidation complete, and the session shows no more than that.
RunIsHonest ==
  /\ \A r \in Reviewers : captures[r] = "ended" =>
       /\ manifest.reviewers[r] # NoResult
       /\ \/ manifest.reviewers[r] = statusFile[r]
          \/ manifest.reviewers[r] = statuses[r] /\ ~NotMarked
  /\ manifest.status = "complete" =>
       /\ manifest.consolidated = "complete"
       /\ \A r \in Reviewers : manifest.reviewers[r] = "complete"
  /\ widget = "complete" =>
       manifest.status = "complete" \/ manifest.launchError
  /\ monitor \in {"stale", "over"} => widget = NoWidget

\* A step of one process changes no entry of another's, whatever it had read;
\* only the consolidation marks every review, with what it took it for.
EntriesHaveOwners ==
  /\ \A r \in Reviewers : manifest'.reviewers[r] # manifest.reviewers[r] =>
       \/ captures[r] = "locked" /\ captures'[r] = "ended"
       \/ /\ consolidation = "marking" /\ consolidation' = "consolidating"
          /\ manifest'.reviewers[r] = statuses[r] /\ statuses[r] # NoResult
  /\ manifest'.consolidated # manifest.consolidated => consolidation' # consolidation
  /\ manifest.launchError => manifest'.launchError

\* Several processes rewrite run.json as a whole (updateRunManifest): none puts
\* back the older entry of another it has read.  One replacement is meant: a
\* review that ends after the consolidation's wait keeps the "timed_out" the
\* consolidation marks it with (waitForReviewers, consolidate).
ReviewsAreKept == [][EntriesHaveOwners /\ RunIsHonest']_reviewVars
==============================================================================
