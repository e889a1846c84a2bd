----------------------------- MODULE UsageCapture -----------------------------
(***************************************************************************)
(* The live usage capture of one pi process                                *)
(* (src/shared/usage-accounting.ts, extensions/usage/index.ts): the        *)
(* session file grows by usage entries, every event and a two second timer *)
(* reconcile it into the shared ledger, writes run one after another       *)
(* behind a promise chain, and a failed write is tried again.  A session   *)
(* ends and the next one resumes the same file, forks a copy of it or      *)
(* starts empty.  A usage entry is its id; amounts are left out.           *)
(***************************************************************************)
EXTENDS Naturals, Sequences, FiniteSets, SequencesExt

CONSTANTS UsageEntries,     \* ids of usage entries
          UsageTags,        \* sets of attribution tags a session can have
          MaxFiles,         \* bound: session files
          MaxTasks          \* bound: reconciliations waiting in the chain

ASSUME UsageAssumption == MaxFiles \in Nat \ {0} /\ MaxTasks \in Nat \ {0}

VARIABLES phase,        \* of the session: none, starting, live, stopping
          file,         \* number of the current session file
          entries,      \* usage entries in each session file
          attribution,  \* persisted usage-session entry of each file
          usageTags,    \* tags of the in-memory usageSession
          capture,      \* the LiveUsageCapture, or NoCapture
          ahead,        \* tasks the shutdown handler still waits for
          ledger,       \* the records of the ledger file
          firstSeen     \* history: tags of the session when an entry was first queued

usageVars == <<phase, file, entries, attribution, usageTags, capture, ahead,
               ledger, firstSeen>>

NoCapture == [open |-> FALSE]
NoTags == "none"
Files == 1 .. MaxFiles

UsageInit ==
  /\ phase = "none" /\ file = 1 /\ usageTags = NoTags
  /\ entries = [f \in Files |-> {}]
  /\ attribution = [f \in Files |-> NoTags]
  /\ capture = NoCapture /\ ahead = 0 /\ ledger = <<>> /\ firstSeen = <<>>

-----------------------------------------------------------------------------
(* Sessions *)

\* The host writes an entry with usage to the current session file.
AppendUsage(id) ==
  /\ phase # "none" /\ id \notin UNION {entries[f] : f \in Files}
  /\ entries' = [entries EXCEPT ![file] = @ \cup {id}]
  /\ UNCHANGED <<phase, file, attribution, usageTags, capture, ahead, ledger, firstSeen>>

\* session_start up to its first await: the baseline is everything the file
\* holds already, copied or resumed.  The host stopped the previous session.
Begins(f, held, tags) ==
  /\ phase = "none"
  /\ phase' = "starting" /\ file' = f
  /\ entries' = [entries EXCEPT ![f] = held]
  /\ attribution' = [attribution EXCEPT ![f] = tags]
  /\ capture' = [open |-> FALSE, seen |-> held]
  /\ UNCHANGED <<usageTags, ahead, ledger, firstSeen>>

Resume == Begins(file, entries[file], attribution[file])
Fork == file < MaxFiles /\ Begins(file + 1, entries[file], attribution[file])
NewSession == file < MaxFiles /\ Begins(file + 1, {}, NoTags)

\* Mutant: writes that wait are prepared again with the tags of now.
ReconciledAfresh(cap, tags) ==
  LET waiting == entries[file] \ cap.seen
  IN [cap EXCEPT !.writes = [id \in waiting |-> tags],
                 !.tasks = IF waiting = {} THEN @
                           ELSE Append(@, [ids |-> waiting, landed |-> {}])]

\* What a reconciliation queues: every entry neither written nor waiting, with
\* the tags the session has now; and a task for everything waiting.
Reconciled(cap, tags) ==
  LET fresh == entries[file] \ (cap.seen \cup DOMAIN cap.writes)
      writes == [id \in DOMAIN cap.writes \cup fresh |->
                   IF id \in DOMAIN cap.writes THEN cap.writes[id] ELSE tags]
  IN [cap EXCEPT !.writes = writes,
                 !.tasks = IF writes = <<>> THEN @
                           ELSE Append(@, [ids |-> DOMAIN writes, landed |-> {}])]

FirstSeen(cap) ==
  firstSeen' = [id \in DOMAIN firstSeen \cup DOMAIN cap.writes |->
                  IF id \in DOMAIN firstSeen THEN firstSeen[id] ELSE usageTags']

\* initializeUsageSession and the first reconciliation: the tags persisted in
\* the branch, else those of the configuration and the environment.
Initialize(configured) ==
  LET tags == IF attribution[file] # NoTags THEN attribution[file] ELSE configured
      cap == Reconciled([open |-> TRUE, closed |-> FALSE, seen |-> capture.seen,
                         writes |-> <<>>, tasks |-> <<>>], tags)
  IN /\ phase = "starting" /\ phase' = "live"
     /\ usageTags' = tags
     /\ attribution' = [attribution EXCEPT ![file] = tags]
     /\ capture' = cap /\ FirstSeen(cap)
     /\ UNCHANGED <<file, entries, ahead, ledger>>

\* A timer tick, a turn end, a compaction, a command.
Reconcile ==
  /\ capture.open /\ ~capture.closed /\ Len(capture.tasks) < MaxTasks
  /\ usageTags' = usageTags
  /\ LET cap == Reconciled(capture, usageTags)
     IN capture' = cap /\ FirstSeen(cap)
  /\ UNCHANGED <<phase, file, entries, attribution, ahead, ledger>>

\* /usage tag, or session_tree moving to a branch with another attribution.
\* Both await a Reconcile first, which is a step of its own here.
UpdateTags(tags) ==
  /\ phase = "live" /\ tags # usageTags
  /\ usageTags' = tags
  /\ attribution' = [attribution EXCEPT ![file] = tags]
  /\ UNCHANGED <<phase, file, entries, capture, ahead, ledger, firstSeen>>

\* session_shutdown: a last reconciliation, awaited whatever its outcome.
BeginShutdown ==
  /\ phase = "live" /\ Len(capture.tasks) < MaxTasks
  /\ phase' = "stopping" /\ usageTags' = usageTags
  /\ LET cap == Reconciled(capture, usageTags)
     IN capture' = cap /\ FirstSeen(cap) /\ ahead' = Len(cap.tasks)
  /\ UNCHANGED <<file, entries, attribution, ledger>>

CloseCapture ==
  /\ phase = "stopping" /\ ahead = 0 /\ ~capture.closed
  /\ capture' = [capture EXCEPT !.closed = TRUE]
  /\ UNCHANGED <<phase, file, entries, attribution, usageTags, ahead, ledger, firstSeen>>

EndShutdown ==
  /\ phase = "stopping" /\ capture.closed /\ capture.tasks = <<>>
  /\ phase' = "none" /\ capture' = NoCapture
  /\ UNCHANGED <<file, entries, attribution, usageTags, ahead, ledger, firstSeen>>

-----------------------------------------------------------------------------
(* The promise chain: its first task runs *)

Running == capture.open /\ capture.tasks # <<>>

\* appendFile wrote the line; its continuation has not run.
SaveLands(id) ==
  /\ Running
  /\ LET task == Head(capture.tasks)
     IN /\ id \in task.ids \ capture.seen /\ task.landed = {}
        /\ capture' = [capture EXCEPT !.tasks[1].landed = {id}]
  /\ ledger' = Append(ledger, [file |-> file, id |-> id, tags |-> capture.writes[id]])
  /\ UNCHANGED <<phase, file, entries, attribution, usageTags, ahead, firstSeen>>

Saved ==
  /\ Running /\ Head(capture.tasks).landed # {}
  /\ LET done == Head(capture.tasks).landed
     IN capture' = [capture EXCEPT
          !.seen = @ \cup done,
          !.writes = [id \in DOMAIN @ \ done |-> @[id]],
          !.tasks[1].landed = {}]
  /\ UNCHANGED <<phase, file, entries, attribution, usageTags, ahead, ledger, firstSeen>>

\* A task ends when all it carries is written, or at its first failing write:
\* the others stay in "writes" for the next reconciliation.
TaskEnds ==
  /\ Running /\ Head(capture.tasks).landed = {}
  /\ capture' = [capture EXCEPT !.tasks = Tail(@)]
  /\ ahead' = IF ahead > 0 THEN ahead - 1 ELSE 0
  /\ UNCHANGED <<phase, file, entries, attribution, usageTags, ledger, firstSeen>>

\* /usage clear --yes, here or in another process.
ClearLedger ==
  /\ ledger # <<>> /\ ledger' = <<>>
  /\ UNCHANGED <<phase, file, entries, attribution, usageTags, capture, ahead, firstSeen>>

\* The process dies: the next one resumes or forks the file.
CrashPi ==
  /\ phase # "none"
  /\ phase' = "none" /\ capture' = NoCapture /\ ahead' = 0
  /\ UNCHANGED <<file, entries, attribution, usageTags, ledger, firstSeen>>

UsageNext ==
  \/ \E id \in UsageEntries : AppendUsage(id) \/ SaveLands(id)
  \/ \E tags \in UsageTags : Initialize(tags) \/ UpdateTags(tags)
  \/ Resume \/ Fork \/ NewSession \/ Reconcile
  \/ BeginShutdown \/ CloseCapture \/ EndShutdown
  \/ Saved \/ TaskEnds \/ ClearLedger \/ CrashPi

UsageSpec == UsageInit /\ [][UsageNext]_usageVars

-----------------------------------------------------------------------------
UsageTypeOK ==
  /\ phase \in {"none", "starting", "live", "stopping"} /\ file \in Files
  /\ entries \in [Files -> SUBSET UsageEntries]
  /\ attribution \in [Files -> UsageTags \cup {NoTags}]
  /\ usageTags \in UsageTags \cup {NoTags}
  /\ ahead \in 0 .. MaxTasks
  /\ ledger \in Seq([file : Files, id : UsageEntries, tags : UsageTags])

\* Every usage entry is counted at most once, whatever fails, resumes or is
\* copied by a fork, and with the tags its session had when the capture first
\* queued it: usage-accounting.ts baselines copied and resumed entries, and
\* "retain[s] the original attribution even if an append fails and tags later
\* change".
RecordedOnceAsFirstSeen ==
  /\ IsInjective([i \in DOMAIN ledger |-> ledger[i].id])
  /\ \A i \in DOMAIN ledger :
       ledger[i].id \in DOMAIN firstSeen /\ ledger[i].tags = firstSeen[ledger[i].id]
==============================================================================
