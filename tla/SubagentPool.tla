---------------------------- MODULE SubagentPool ----------------------------
(***************************************************************************)
(* One call of the subagent tool (extensions/orchestration/subagent): its  *)
(* tasks, the workers that take them, the child processes with their event *)
(* streams, the abort of the call, and the links it leaves in the session. *)
(*                                                                         *)
(* Abstractions.  The agent, model and prompt of a task are left out, and  *)
(* so is its text output.  A call the tool refuses starts no task.         *)
(***************************************************************************)
EXTENDS Naturals, FiniteSets, AgentCompletion

CONSTANTS
    MaxParallelTasks,   \* maxParallelTasks
    MaxConcurrency,     \* maxConcurrency
    Reasons,            \* the stop reasons a child gives
    MaxAttempts         \* bound: runs of the agent in one child process

ASSUME PoolAssumption ==
    /\ MaxParallelTasks \in Nat \ {0} /\ MaxConcurrency \in Nat \ {0}
    /\ MaxAttempts \in Nat /\ Reasons \subseteq StopReasons

VARIABLES
    call,       \* "none", "running", "returned" or "failed"
    tasks,      \* how many tasks the call has
    next,       \* the task taken next
    working,    \* worker -> its task, 0 once it has stopped
    runs,       \* task -> its run
    signalled,  \* the call's signal has been aborted
    linked      \* tasks whose child session is linked from the session

poolVars == <<call, tasks, next, working, runs, signalled, linked>>

Workers == 1..MaxConcurrency
TaskNumbers == 1..MaxParallelTasks

\* attempt counts the agent_start events; settledIn and stoppedIn, history,
\* are the attempts that settled and gave a final answer.
NoRun == [at |-> "waiting", aborted |-> FALSE, tracker |-> NewTracker,
          outcome |-> Missing, attempt |-> 0, settledIn |-> 0, stoppedIn |-> 0]

Busy == {w \in Workers : working[w] # 0}

ExecuteTasks(n) ==
    /\ call # "running" /\ Busy = {}
    /\ call' = "running" /\ tasks' = n
    /\ working' = [w \in Workers |-> IF w <= n THEN w ELSE 0]
    /\ next' = (IF n < MaxConcurrency THEN n ELSE MaxConcurrency) + 1
    /\ runs' = [t \in TaskNumbers |-> NoRun]
    /\ signalled' = FALSE /\ linked' = {}

RefuseTasks ==
    /\ call # "running" /\ Busy = {} /\ call' = "failed"
    /\ UNCHANGED <<tasks, next, working, runs, signalled, linked>>

\* mkdtemp, mkdir, writeFile, and the entry of a finished run, may reject: the
\* call then fails at once, while the other workers go on.
Throws(w) ==
    /\ working[w] # 0 /\ runs[working[w]].at \in {"waiting", "closed"}
    /\ working' = [working EXCEPT ![w] = 0]
    /\ call' = "failed"
    /\ UNCHANGED <<tasks, next, runs, signalled, linked>>

\* Mutant: a signal that was aborted before the child started is not seen.
SpawnUnchecked(w) ==
    /\ working[w] # 0 /\ runs[working[w]].at = "waiting"
    /\ runs' = [runs EXCEPT ![working[w]].at = "running"]
    /\ UNCHANGED <<call, tasks, next, working, signalled, linked>>

SpawnAgent(w) ==
    /\ working[w] # 0 /\ runs[working[w]].at = "waiting"
    /\ runs' = [runs EXCEPT ![working[w]].at = "running",
                            ![working[w]].aborted = signalled]
    /\ UNCHANGED <<call, tasks, next, working, signalled, linked>>

\* A line of the child's output; a child that was killed may still write some.
Line(w, event) ==
    LET t == working[w]
        attempt == runs[t].attempt + IF event.type = "agent_start" THEN 1 ELSE 0
        tracker == Observe(runs[t].tracker, event) IN
    /\ t # 0 /\ runs[t].at = "running" /\ attempt <= MaxAttempts
    /\ runs' = [runs EXCEPT
            ![t].tracker = tracker,
            ![t].attempt = attempt,
            ![t].settledIn = IF event.type = "agent_settled" THEN attempt ELSE @,
            ![t].stoppedIn = IF "reason" \notin DOMAIN event THEN @
                             ELSE IF event.reason = "stop" THEN attempt ELSE 0]
    /\ UNCHANGED <<call, tasks, next, working, signalled, linked>>

Close(w, code) ==
    LET t == working[w]
        exitCode == IF runs[t].aborted THEN 1 ELSE code IN
    /\ t # 0 /\ runs[t].at = "running"
    /\ runs' = [runs EXCEPT ![t] = [NoRun EXCEPT !.at = "closed",
            !.outcome = Outcome(runs[t].tracker, runs[t].aborted, exitCode)]]
    /\ UNCHANGED <<call, tasks, next, working, signalled, linked>>

\* The run's temporary files are gone and its link is written; the worker
\* takes the next task, and the last one to find none ends the call.
Finish(w) ==
    LET t == working[w] IN
    /\ t # 0 /\ runs[t].at = "closed"
    /\ linked' = linked \cup {t}
    /\ IF next <= tasks
       THEN working' = [working EXCEPT ![w] = next] /\ next' = next + 1
       ELSE working' = [working EXCEPT ![w] = 0] /\ UNCHANGED next
    /\ call' = IF call = "running" /\ next > tasks /\ Busy = {w} THEN "returned" ELSE call
    /\ UNCHANGED <<tasks, runs, signalled>>

Abort ==
    /\ Busy # {} /\ ~signalled /\ signalled' = TRUE
    /\ runs' = [t \in TaskNumbers |->
            IF runs[t].at = "running" THEN [runs[t] EXCEPT !.aborted = TRUE] ELSE runs[t]]
    /\ UNCHANGED <<call, tasks, next, working, linked>>

PoolInit ==
    /\ call = "none" /\ tasks = 0 /\ next = 1 /\ signalled = FALSE /\ linked = {}
    /\ working = [w \in Workers |-> 0]
    /\ runs = [t \in TaskNumbers |-> NoRun]

PoolNext ==
    \/ \E n \in TaskNumbers : ExecuteTasks(n)
    \/ RefuseTasks \/ Abort
    \/ \E w \in Workers :
        \/ Throws(w) \/ SpawnAgent(w) \/ Finish(w)
        \/ \E event \in Events(Reasons) : Line(w, event)
        \/ \E code \in {0, 1} : Close(w, code)

PoolSpec == PoolInit /\ [][PoolNext]_poolVars

(***************************************************************************)
(* Properties                                                              *)
(***************************************************************************)
PoolTypeOK ==
    /\ call \in {"none", "running", "returned", "failed"}
    /\ tasks \in 0..MaxParallelTasks /\ next \in 1..(MaxParallelTasks + 1)
    /\ working \in [Workers -> 0..MaxParallelTasks]
    /\ \A t \in TaskNumbers :
        /\ runs[t].at \in {"waiting", "running", "closed"}
        /\ runs[t].outcome \in Outcomes \cup {Missing}
    /\ linked \subseteq TaskNumbers

\* A subagent counts as completed only on its own evidence: its last attempt
\* gave a final answer and settled, and the call was not aborted before the
\* child closed, not even before it started.  A call that returns has such a
\* verdict, and a link, for every one of its tasks.
CompletedIsEarned ==
    [][/\ \A t \in TaskNumbers :
            runs[t].outcome = Missing /\ runs'[t].outcome = "completed" =>
                /\ runs[t].settledIn = runs[t].attempt
                /\ runs[t].stoppedIn = runs[t].attempt
                /\ ~signalled
       /\ call # "returned" /\ call' = "returned" =>
            \A t \in 1..tasks : runs[t].outcome # Missing /\ t \in linked']_poolVars

=============================================================================
