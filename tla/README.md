# pise-en-place: TLA+ models, model checking and proofs

`pise-en-place` is a set of extensions for the Pi coding agent. Its core is a
local *team* of Pi sessions: a broker process keeps a SQLite database of rooms,
members, threads, messages and deliveries; each session talks to it over a Unix
socket and either lets the human deliver peer messages by hand or is woken
automatically within a budget. Around that core sit a safety gate that asks the
human before hazardous tool calls, subagents, an automatic context compaction,
evaluation runs, a usage ledger, skill upkeep and terminal rendering.

This directory holds TLA+ modules for the parts that can go wrong in ways a
test hardly reaches, TLC configurations for small instances, and TLAPS proofs.
`PROJECT.json` is the index: components, runs, mutants, the map from
definitions to source lines, hazards, findings and theorems.

## Inventory

Paths are below `src/`; `coordination` stands for `src/coordination`.

| component | state | operations | hard behaviour | what makes it correct |
|---|---|---|---|---|
| Team store `coordination/store.ts` | participants, connections, threads, messages, one delivery per message and recipient | enroll, connect, disconnect, expire, leave, pause, send, review, retry, resolve, claim, queue, receipt, uncertain, reconcile, read | leases, replaced sockets, broker restarts, rebinding to another session; the human acting between any two steps of a delivery | nothing in flight outlives its connection; uncertain work is replayed only by a human; bounded queue; answers have replies; paging misses nothing but what a redirect put behind it |
| Activation ledger `coordination/automation-store.ts` | activations, the rolling budget | auto-reserve, auto-dispatch, auto-cancel, auto-reconcile, auto-finish, interrupt | late finishes, refunds, batches of which part was closed or recorded | at most one live activation per member, the budget, re-validation before insertion, settled means proven |
| Automatic delivery host `coordination/automation.ts` | timer, watchdog, busy, active, held, finishing, disposed | kick, pump, agentStarted, agentEnded, settled, finish, resume, dispose | readiness read before an `await` and used after it; the watchdog racing a start; lost responses | one insertion per dispatched activation; hold until a human resumes; wakes are not lost |
| Manual delivery `coordination/delivery.ts` | none of its own: the attempt and the session's entries | claim, queue, evidence, insert, receipt, reconcile, retry | a crash between insertion and receipt; an old command that goes on after a reload | nothing enters a session twice without a retry, receipt only with evidence on file |
| Broker and its startup `broker.ts`, `startup.ts`, `managed.ts`, `cli.ts` | the socket path, the gate's lock, idle timer, children | startBroker, startupGate, recoverSocket, ensureBroker, stop, cleanup | two starters, a stale socket, a starter or a broker that dies at any point, a shutdown meeting a start | one broker owns socket and database; only a refused endpoint is unlinked; starts that meet do not fail each other |
| Team client `coordination/client.ts` | pending calls, socket | call, frame, timeout, abort, close | a timeout whose answer arrives late or whose call is committed | a lost answer is never taken for a refusal |
| Coordination runtime `extensions/coordination/runtime.ts` | epoch, credential, client, connecting, retryAt | connect, refresh, heartbeat, join, restore, leave, detach, dispose | results of an earlier epoch arriving later | a stale result never changes the present binding; a connection that is shown is open |
| Coordination views `dashboard.ts`, `navigation.ts`, `tool-results.ts` | what the dashboard shows, the navigation cache | load, page, choose, act, observe | answers arriving after the room was left or joined again | what is offered belongs to the present room and view |
| Safety gate `extensions/safety/index.ts` | decision queue, explanation retries, the mode | withSafetyDecision, tool_call, explain, toggle | concurrent hazardous calls, aborts while queued, dialogs that throw | one prompt at a time; an aborted or failed decision blocks; the queue never stalls |
| Subagents `extensions/orchestration/subagent` and completion tracker | the pool's cursor, processes, event streams | mapConcurrent, run, abort, classify | failures, retries of an attempt and aborts in a bounded pool | completed only on a task's own evidence |
| Autocompact `extensions/productivity/autocompact` | generation, cycle, settings | agent_end, compact, session events | a summary that completes in a later generation | one compaction at a time, none repeated above the ceiling, none locked out |
| Interactive questions `interactive-questions.ts` | tab, selections, texts | keys of both forms | any order of choosing, typing, clearing and visiting | an answered form has an offered answer to every question |
| Todos `todos.ts` | list, next id, the branch | tool, command, rebuild | a command between a tool's change and its persisted result | a reload loses nothing but a command that overtook a tool's result |
| Skill evaluation `extensions/evals/skill-eval` | variants, attempt, deadline, dialogs, evidence files | runEvaluation, runVariant, stop, retry, finalize | a stop, failure or dialog at any point; appends that fail | a run vouches for no variant it should not; evidence called complete is whole |
| Usage ledger `extensions/usage` | capture, tags, the shared file | reconcile, save, tag, shutdown, resume, fork | failed appends, tags that change meanwhile, copied entries | every entry counted once, with the tags it was first seen with |
| Codex limits, fast mode | generation, shared request; selection, provider | /usage openai; /fast | a command that waits while session or model change | results belong to the session that asked |
| Skill blocking, upkeep and review | settings, manifest, run directory | /context, /skillz, /skill-review | several sessions and processes over the same files | a disable takes effect; only accepted versions are pinned; no process puts back another's older record |
| Evaluation config and reports, project commands, terminal rendering, macOS companion | little or none | commands, parsing, rendering | I/O | not modelled |

How they interact. A session's runtime owns one `TeamClient`; every client
call becomes one broker frame, and every frame one SQLite transaction of the
store. The store's changes come back as `changed` notifications that make the
runtime refresh, which kicks the automatic host. The host and the manual
delivery read the session's own entries as evidence and report to the store.
The human acts through the same broker (review, retry, resolve, pause) at any
moment, from another connection. The runtime starts the broker through
`ensureBroker`. The completion tracker is shared by the host, subagents and
evaluations. The other extensions share no state with the team or with each
other but the session they run in.

## Modules

| module | models | used with |
|---|---|---|
| `TeamStore` | `store.ts` and `automation-store.ts` for one room | `MCTeamStore`; `TeamStoreProofs`, `TeamStoreEvidence`, `TeamStoreLimits` |
| `WakeContract` | what automatic delivery promises, as an abstract specification | `WakeContractProofs` |
| `WakeHost` | `automation.ts` and what the runtime gives it, composed with `TeamStore`, implementing `WakeContract` | `WakeHostProofs`, `MCWakeHost` |
| `ManualDelivery` | `delivery.ts` under `withDelivery`, composed with `TeamStore` | `ManualDeliveryProofs`, `MCManualDelivery` |
| `BrokerStartup` | `startup.ts`, `managed.ts`, the start and end of `broker.ts` and `cli.ts` | `SessionProofs`, `MCSessionParts` |
| `SessionLink` | enrolment, connection and epochs of `runtime.ts` and `commands.ts` | `SessionProofs`, `MCSessionLink`, `MCSessionParts` |
| `TeamReading` | paging: `TeamStore.read`, `team_read`, the size limit of a result, redirects into the inbox | `SessionProofs`, `MCSessionParts` |
| `TeamNavigation` | the dashboard and the navigation cache | `SessionProofs`, `MCSessionParts` |
| `SafetyGate` | the permission prompts | `SessionProofs`, `MCSessionParts` |
| `QuestionForm` | the two question forms | `SessionProofs`, `MCSessionParts` |
| `AgentCompletion` | the completion tracker, as operators | `SubagentPool`, `EvalRun` |
| `SubagentPool` | one call of the subagent tool | `RecordProofs`, `MCSessionParts` |
| `AutoCompact` | compaction | `SessionProofs`, `MCSessionParts` |
| `Todos` | the branch-aware todo list | `SessionProofs`, `MCSessionParts` |
| `EvalRun` | variants, attempts, deadline and verdict of an evaluation | `RecordProofs`, `MCEvalRun`, `MCSessionParts` |
| `EvalEvidence` | the evidence files of an evaluation and what `run.json` says of them | `RecordProofs`, `MCSessionParts` |
| `UsageCapture` | the live usage capture | `RecordProofs`, `MCSessionParts` |
| `CodexLimits` | the subscription limits | `SessionProofs`, `MCSessionParts` |
| `FastMode` | priority on request | `SessionProofs`, `MCSessionParts` |
| `SkillReview` | one skill review over its processes | `RecordProofs`, `MCSessionParts` |
| `SkillBlocking` | disabled and filtered skills | `RecordProofs`, `MCSessionParts` |
| `SkillUpkeep` | updates of shared skills | `RecordProofs`, `MCSessionParts` |

`ManualDelivery` and `WakeHost` extend `TeamStore`: the broker's side of every
call in them is the very action the store's proofs are about. Each remaining
module is a component whose state no other component writes. In all of them the
code between two awaits is one action, and what an `await` is waiting for is a
record (`request`, `connectors`, `summaries`, `reads`, ...) that says what the
suspended code remembers, so that a stale memory is visible. Each module's
header names its abstractions.

### TeamStore: state and actions

`participants` is the members' table with its connection folded in: a
connection is named by the *generation* it was opened with. `actors` are the
worker actors of the sockets the broker still holds; an actor that is no longer
the current connection fails `Authorized`, as in `TeamStore.authorize`.
`threads`, `messages` and `deliveries` are those tables; `activations` and
`aged` are the ledger and the point the rolling window has reached.

The broker is one process and every operation one `BEGIN IMMEDIATE`
transaction, so every operation is one action, with what it does through its
helpers: `Sever` and `Unlinked` are what every end of a connection does
(interrupt activations, pause their member, turn in-flight deliveries
uncertain); `Store` is the whole of `send`; `Refund` is `AutomationStore.cancel`.
The human's operations (`Pause`, `PauseRoom`, `Leave`, `Answer`, `Retry`,
`Resolve`, `Cancel`, `Redirect`) have no guard on the actor: a human can act in
any state. `BrokerRestart` is a stop or a crash at any moment between two
transactions; SQLite makes a crash inside one a crash before it.

Abstractions:

- Clocks are replaced by the questions asked of them. `LeaseLapse` says a lease
  ran out; it may be noticed by the sweep (`Expire`), by the next connect or
  rejoin, or by an authorization. `WindowSlides` says the oldest activation left
  the hour.
- Attempt ids are not kept. A caller presents the attempt the row holds; a
  stale attempt id is one more refusal, so the model allows more.
  (`ManualDelivery` does keep them.)
- Message types that behave alike are one: `question` stands for questions,
  decision requests and actionable handoffs, `status` for the rest but replies.
- Left out because no operation here reads them: bodies, audit events,
  `acknowledged_at`, work summaries and blockers. Left out and noted: the
  64-member limit and the frame-size rollback of a reservation.

### WakeContract and WakeHost: state and actions

`WakeContract` has two variables: `ledger`, the states of the activations in
the order they were reserved, and `woken`, those whose text was handed to the
model. Its six actions say in what order a wake may be reserved, charged,
performed, refunded, doubted and settled.

`WakeHost` extends `TeamStore` with the session's side. `client` and
`transport` are the runtime's connection and the one the pump started with;
`held`, `timer`, `watchdog`, `active` are the fields of `AutomaticDelivery`;
`pump` and `finish` say at which `await` those two functions are, and stand for
`busy` and `finishing`. `pausedSeen` is `locallyPaused` together with the room
state of the last status. `recovery` is `deliveryBusy` with the point the
human's `/team reconcile` or `/team retry` has reached, and `command` the point
of `/team pause` or `/team resume`.

The code between two awaits is one action: `TimerFires` is the start of the
pump up to `auto-reserve`, `Reserved` what follows its answer, `EvidenceRead`
what follows the evidence, `TooLate` and `Insert` the last check with the
insertion in the same synchronous piece, `InsertThrows` with the catch block.
`FinishReads` and `FinishReturns` are the two halves of `finish`. A call is a
`request` sent, served by the broker as one action of `TeamStore` (`Serve`,
through `Handle`, which also has every refusal of `AutomationStore.dispatch`),
and an `answer` taken. When the connection is lost in between, the caller sees
an error and the call becomes an `orphan`, which the broker serves or forgets:
the host can never tell a lost request from a lost answer. Between any two
actions the socket may close at either end, the broker restart, the lease
lapse, the session be reloaded, the turn start or end, entries reach the
session file or not, and the human act.

`transcript` is what was inserted and `persisted` which of it reached the
session file: `findPersistedEntry` reads the file, and `sendMessage` proves
nothing. `retried` and `reviewed` are histories for the properties.

Abstractions:

- The reads of the entries of one batch are one step, in which some may fail
  (`FinishReads`) or all (`EvidenceFails`).
- The outcomes aborted, error and unknown act alike in host and store and are
  one. Prompts, interactive flows and pending messages make the session not
  ready just as a running turn does, and are covered by `session`.
- A status read and its arrival are one step. The status names this member and
  room only.
- At most one orphan is kept: a second call given up replaces the first, which
  is then never served.
- `RecoveryReads` waits while a permit is under way: both calls use one
  connection, whose answers come in order, and no permit is asked for while a
  recovery holds readiness back.
- A human's recovery reads the row and acts on it in one step; `/team deliver`
  is the subject of `ManualDelivery`.
- The member keeps its session; rebinding to another is examined in the store's
  `rebind` run.

The refinement maps `ledger` to the states in `activations` and `woken` to the
ids in `transcript`. `ContractHolds` states it.

### ManualDelivery: state and actions

`client` is the connection each Pi session's runtime holds, `commands` the
running commands with the `await` they are at, the connection they started on
and whether their runtime was reloaded since (`stale`). `attempt` is the attempt
id of the row, `copies` the entries inserted into a session and `onFile` those
of them its file holds; `Flush` moves one to the other, `Crash` loses the
difference. A call is sent by a command, served as an action of `TeamStore`
(`Handled`) and answered, or given up (`orphans`) and perhaps served later.
`Deliver`, `Recover` and `Confirmed` start the human's commands, `Reload` leaves
the running one behind with a stale epoch, so that two work on one session file.

### BrokerStartup, SessionLink and the parts of a session

`BrokerStartup` has one variable for the socket file (the process that bound
it), one for the gate, and per process and per starting session where they are;
`before` is the inode `recoverSocket` looked at first. Every process may crash
between any two steps. `disturbed` is a history: the starts that met a crash, a
stop or a timeout, which alone may fail.

`SessionLink` keeps the runtime's fields (`epoch`, `credential`, `client`,
`connecting`, `refreshing`) and, as records, what each suspended
`connectWorker`, `refresh`, join, restore and leave remembers. `connections` and
`homeOf` say which enrolment, epoch and session each connection and enrolment
was opened or granted for, and whether the socket is open. `aborted` is the
signal of `transportAbort`: `clearEnrollment` and `shutdown` abort it, which
destroys every socket of the epoch, and only `clearEnrollment` makes a new one.
`Beat` and `BeatEnds` are the timer's heartbeat, the one that finds a client
dead whose epoch is over.

`TeamReading` lets the room change between two pages as the store does: messages
are posted, rows leave the inbox, and `Redirected` puts an old message into it
at its old ordinal (`store.ts:439-449`). `late` remembers the redirects that
came when the reader's pages were past the message.

`SkillReview` reads and writes `run.json` as its processes do, each from its own
poll of it; `statuses` is what the consolidation took each review for when its
wait ended, which may be older than what the review then records.

Each of the remaining modules is one extension; the table of the run `parts`
says what is asked of it.

## Runs

| run | instance | question |
|---|---|---|
| `activation` | asker and worker, one session, two connections of the worker, one message, two activations, budget of one | Can an interruption, refund, late finish, retry or restart leave a stale claim, a second live activation, an overspent budget, or a member nobody looked at? |
| `rebind` | the worker bound to two sessions in turn | Can a delivery outlive its connection or be replayed silently? |
| `batch` | two messages in one activation, the human answering, cancelling, redirecting, resolving and pausing | Does the final check look again, is a settled run proven for all of its batch, does obsolete work leave the mailbox, and is obsolete work that a retry brings back never offered? |
| `mail` | two members asking and answering each other with three messages, queue of two | Is the queue bounded through redirects and retries, does every answer have a reply and every reply close its request, can replies ping-pong? |
| `promise` | host and broker, one request, one connection, two activations, all failures and all of the human's acts, one at a time | Do host and broker implement the contract? |
| `reconnect` | the same over two connections | Is anything inserted twice without a retry, or before the human has looked at a doubtful run, when calls of a lost connection arrive late? |
| `evidence` | two requests in one batch | Is everything the broker counts as recorded in the session file? |
| `progress` | one request, fairness | Does every activation end, and is waiting work taken? |
| `manual` | one message, two sessions of the member, two commands at a time, two claims and two insertions of it at most | Does a crash, a reload, a lost answer or a mailbox taken over by the other session make a delivery recorded that is not on file, inserted again without a retry, or left in flight with nobody to end it? |
| `parts` | the sum of seventeen instances, see below | Does each part of a session keep its promise? |
| `detach` | `SessionLink`, expected to fail | Is a session connected that says so? Not always after an offline detach: see Findings. |
| `findings` | `EvalRun`, expected to fail | Do findings stop later variants? Not after a timeout: see Findings. |

The run `parts` chooses in its initial state which part moves (`part`) and lets
that part alone take steps; the others keep an initial state. It is therefore
the union of seventeen state spaces and not their product, and each property
constrains exactly its own part. Its symmetry (`PairsAlike`) exchanges the two
values of every pair of constants at once, where neither definitions nor
properties tell them apart (starters, sessions, rooms, calls, tags, reviewers and
others): since one part moves, that halves each part.

| part | instance | property |
|---|---|---|
| startup | two sessions, three processes of which one serves an earlier version | `StartupIsSound`: a broker that listens owns the endpoint; starts that meet do not fail each other |
| link | two sessions, two concurrent connects, one refresh, two enrolments | `LinkIsOfSession`: only this epoch's work on this enrolment gives the runtime a connection, and one of this epoch is open |
| reading | three messages, one thread and the inbox, pages of at most two, a result limit that a page may exceed | `PagingMissesOnlyLate`: whatever is posted, settled, redirected, lost or refused between two pages, messages are seen in order and once, and only a request redirected to the reader behind its pages is missed |
| navigation | two rooms, two joins, two messages, a cache of one | `NavigationIsTrue`: nothing of an earlier room or view is offered |
| safety | two calls, two commands, two turns | `DecidedByOwnTurn`: a call whose turn was aborted never runs, and the queue never stalls |
| form | five forms: single, multiple, typed, empty and plain | `AnswersAreSound`: an answered form has an offered answer to each question |
| subagents | three tasks, two workers, two attempts each | `CompletedIsEarned`: completed only on a task's own evidence; every task has a verdict and a link |
| compaction | two awaited summaries, two generations | `CompactsOnce`: one compaction at a time, no loop, no lock-out |
| todos | three ids, branches of three | `ReloadKeepsList`: a rebuild restores the list, but for a command that overtook a tool's result and is the last change |
| evaluation | two variants, one retry, every policy on timeouts and dialogs | `VerdictIsDeserved`: a completed run vouches for no variant it should not |
| evidence | three events, two attempts | `EvidenceIsWhole`: what `run.json` calls complete is whole |
| usage | two entries, two tag sets, two session files, two tasks | `RecordedOnceAsFirstSeen`: each entry once, with its first tags |
| limits | two commands, three requests, two generations | `LimitsAreOfSession`: a session shows only what it asked for |
| fast | two fast models and a slow one, one waiting command | `PriorityIsWanted`: priority only where it was turned on |
| review | two reviewers, consolidation, monitor and command | `ReviewsAreKept`: only a review's own process and the consolidation's marking change its entry, whatever older copy was read; a complete run has every review complete |
| blocking | two sessions, one skill, every pair of settings files | `DisableTakesEffect`: an accepted disable guards and hides |
| upkeep | one updating session beside other writers, two versions | `ReportIsEarned`: only accepted updates are pinned, only pinned ones reported |

`TypesOK` is the type invariant of whichever part moves.

Bounds. `MaxMessages`, `MaxGeneration` and `MaxActivations` stop the counters
of `TeamStore`; in the other modules the constants commented `bound` do. The
interesting cases are reached inside them: a second activation after a refund or
an interruption of the first, a finish from a second connection for a run of the
first, a batch of which one message was closed, a full queue that a retry or a
redirect tries to enter, a second insertion after a retry, a connect of an old
epoch that ends beside one of the present, an append that fails with
others behind it, two tasks of the usage queue with different tags. Each property
is known to fail for a plausible defect of the code (the *mutants* of
`PROJECT.json`), which shows that the instance is large enough to tell the
difference.

State constraints (in `MCTeamStore`, `MCWakeHost` and `MCSessionParts`) give
roles and keep the runs small. In `QuietAsker` the asking member connects once,
stays and only asks, so that all connection events are the worker's; in
`StableMembers` connections do not end and one delivery at most is attempted, so
that the run is about messages. `Roles` and `Early` keep the asker connected and
have it ask first, and the human act one command at a time; `Steady` leaves
lapsing leases, closed threads and pauses to the run `promise`. What each leaves
out is the subject of another run. `MonitorMatters`, in `parts`, does not follow
a poll of a skill review that has not ended, which shows "incomplete" whatever
it read, nor what happens to a run after its session has ended: the monitor
changes nothing but the widget, and those runs go on beside a monitor that has
not polled. The constraints of `progress` only cut off steps no fairness is
assumed of, so that they hide no behaviour that gets stuck; that run uses no
symmetry. Sessions, threads, keys and commands are symmetric in the runs of
`TeamStore`, `WakeHost` and `ManualDelivery`; members only where no role is
given. The deadlock check is off in `parts`, `detach` and `findings`, whose
parts really end (a finished evaluation, a closed form); elsewhere a broker can
always restart.

## Findings

Both are disagreements between the code and a sentence of the repository, shown
by a run that is expected to fail.

- `detach`: `/team leave` looks for a connection before its dialog
  (`commands.ts:48`); the timer may open one while the dialog is open.
  `detachOffline` then aborts the signal (`runtime.ts:223`), which destroys that
  socket (`client.ts:101`), but leaves the dead client in `_client`, whose close
  handler sees another epoch and returns (`runtime.ts:106`). A `/team join` after
  it finds a client, so its `connectWorker` returns at once (`runtime.ts:95`) and
  it prints "Connected. Eligible inbox messages will be processed automatically
  at idle boundaries." (`extensions/coordination/commands.ts:39`) with no
  connection. The new timer's heartbeat fails on the dead client and drops it
  (`runtime.ts:146-148`), and the next tick connects; until then messages wait.
  The detach itself keeps what its dialog says: nothing reconnects.
- `findings`: `docs/skill-evaluation.md:124` says that disallowed-tool findings
  stop later variants. With `on_timeout: continue` a variant that timed out and
  has findings is passed over before they are looked at (`runner.ts:441-445`).

Other differences met while modelling, which no run is spent on. They are
modelled as the code has them, or left out where said:

- Skill evaluation: after a timed out attempt was moved away, `run.json` goes on
  calling its artifacts complete (`runner.ts:436`; excepted in
  `EvidenceIsWhole`). The deadline also runs while a dialog opened before
  acceptance is shown (`runner.ts:31`, `:197`). One failed append rejects every
  later one (`storage.ts:180`), and the flush of `runVariant` (`runner.ts:350`)
  then throws before the session is disposed of.
- Subagents: a worker that throws ends the call while the others run on
  (`subagent/index.ts:178`); left out.
- Todos: a user command between a tool's change and its persisted result is lost
  if the list is rebuilt before it changes again (`overtaken` in `Todos`); its
  snapshot is on the branch, below the older one of the tool.
- Paging: a request redirected to a member that has read past its ordinal is not
  on a later page (`late` in `TeamReading`); a new reading of the inbox finds it.
- Autocompact: a settings read that ends late overwrites a newer one, and two
  processes can lose each other's change of `autocompact.json` (the latter left
  out).
- Skill review: a review that completes after the consolidation's wait is marked
  "timed_out" over its own "complete" (`review-runner.mjs:216-222`, `:277`; the
  property says so); a launch may
  time out although its pane started; a lock directory of a dead process stays;
  a monitor may be started after shutdown (`improve-skill/index.ts:223`).
- Skill blocking: the answers of a project's dialog replace the rule another
  session wrote meanwhile, and sessions that cached the old rule keep it.
- Skill upkeep: the update chosen in the dialog is the one of the check before
  it (`update-agent-skills.ts:461-491`).
- Runtime: `shutdown` does not renew the signal, so that a runtime started again
  after it cannot connect; pi makes a new one for each session. `leave` clears
  the enrolment without looking at the epoch (`runtime.ts:236-238`); an
  interactive flow of an earlier epoch decrements the present counter
  (`runtime.ts:186`; left out).
- Commands: the enrolment may change between what a `/team review` dialog lists
  and what it confirms, and `resumeAutomatic` applies to the one there is then.
- Ledger: a late report may pause a member a human has resumed
  (`automation-store.ts:97`).
- Question form: two questions with one id share their state, which no check
  prevents; the model's questions have ids of their own.

## Fairness

`TeamStore`, `ManualDelivery` and the parts are checked for safety. In
`WakeHost`, `HostFairness` assumes what the event loops of two live processes
give: timers fire (`TimerFires`, `WatchdogFires`), promises resolve (the pump's
and finish's steps), the broker serves what it has received (`Serve`), a
connection that the broker no longer accepts is dropped at the next heartbeat
(`LosesConnection`) and the broker sees the socket close (`ClosesAbandoned`),
the sweep runs (`Expire`), the heartbeat's status arrives (`Refresh`), and a
turn ends. Nothing is assumed of the human, of a reconnection, of whether the
session starts a turn for what was inserted, or of whether entries reach the
session file: `ActivationsEnd` has to hold without them. `WaitingWorkIsTaken`
says under which lasting circumstances (`Favourable`) a wake must not be lost.

## Proofs

All theorems are about the specifications themselves, for every value of the
constants under the named assumptions of the modules. The bounds play no part
in the arguments. Of `WakeHost` they need only the steps (`HostSafe`), no
fairness.

The assumptions say what the code fixes or any caller gives. Limits are natural
numbers, the values that stand for nobody are no members of the sets, the set
of members is finite. `ManualAssumption` and `FirstConnectionAssumption`: there
is a session, a thread and a connection to speak of, and finitely many commands
run. `ReviewAssumption`: reviewers exist and are named unlike the other
writers of `run.json`. `FormsAssumption` is what the tool's schema demands: a
form has a question, marks only options it has, and a plain form is one question
that takes no typed answer.

### The store

`TeamStoreProofs`: `TypeCorrectness`, `InFlightOwnership`,
`LiveActivationOwnership`, `ClaimsFollowActivations`, from `Invariance`, which
shows that

    IInv == TypeOK /\ Members /\ EmptyRows /\ InFlightOwned
            /\ LiveActivationOwned /\ ClaimsHaveLiveActivation

is inductive. The conjuncts need each other. `InFlightOwned` for the rows an
`AutoDispatch` queues follows only because the activation is live, hence owned
by the present connection (`LiveActivationOwned`), and its rows are claimed
under it (`ClaimsHaveLiveActivation`). `Members` says that a member with a
connection has joined and has a session. `EmptyRows` says that messages not yet
sent have no rows, so that a claim is always of a message. One lemma per group
of actions: what severing preserves (shared by every way a connection ends),
what storing a message preserves, what a refund preserves, and one step per
action.

`TeamStoreEvidence`: `SettledRunsAreProven`, `NothingReplayedSilently` and
`RecordedByItsSession`. Every action keeps each row's evidence (`RowKept`) and
leaves no run settled that was not (`RunsKept`), except a finish, whose own
rows are looked at one by one, and a reservation, which adds a run. The
strengthening is `RowsOfRuns`: a row that names a run is a row of that run's
member and session. `RevalidatesBeforeInsertion` and `DoubtPausesMember` are
about steps: only a dispatch starts a run, and it looked again; a run is doubted
by the end of a connection, which pauses its member, or by its own finish.

`TeamStoreLimits`: `QueueNeverOverflows` and `BudgetIsKept`. Only `Store` and
`Redirect` take places of the queue, after a check of all they need; only
`AutoReserve` charges the budget, after its check. Every other action is quiet
(`NoFuller`, `NoCharge`): it takes no place that was free and charges nothing
that was not. `AnswersAreShown` and `ExchangesEnd` rest on `RInv`: a reply names
an earlier message of its thread (`RefersBack`) and messages not yet sent have
no rows. All steps but `Store` and `Redirect` leave messages and what is
answered alone (`RequestsKept`). A stored reply wakes its requester only if it
has just answered an open request, so that both sides of the count grow
together; a redirect hands one waking reply on and keeps no second one.
`RepliesClose` is part of it: what an agent has replied to is no longer open, and
a redirect, which opens a request anew, opens it for a member that has no row of
it and so has not replied. `ObsoleteStaysOut`: no step but a retry makes a closed
row pending, and a claim or a reservation takes wanted rows only, so that a
closed one that is pending stays or is cancelled; a refund of a closed row
cancels it.

### Delivery by hand

`ManualDeliveryProofs` first shows `DeliveryUsesStore`: every step is one of
`TeamStore`'s or leaves it alone, so that the theorems above hold of it, `IInv`
in particular. The inductive invariant `MInv` then ties what a suspended command
remembers to the store.

- `RecordingsAreOnFile`: a `receipt` or `reconcile` under way, or given up and
  perhaps served later, was sent on evidence on file (`CommandsIssued`), and a
  file only grows.
- `NoRepeatWithoutHuman`: the commands that may still insert a message on a
  claim they were granted, plus one if its row is pending, never outnumber what
  the human has allowed (`WithinAllowance`). A claim turns the pending row into
  one such command; a lost answer turns it into none.
- `AttemptsAreWatched`: an attempt in flight has a command at work on it unless
  its connection is gone or lapsed (`Watched`). What makes this inductive is what
  the last answer told a command (`Answers`): a report that was accepted ended
  the attempt, and one that was refused although the attempt is in flight was
  refused for the connection, which will be so for good. Connections are ordered
  in time (`Dated`).

### Automatic delivery

`WakeContractProofs`: `PromiseKept` and `DecidedForGood`, for any number of
activations. The inductive invariant is the promise with the types; every action
but `Reserve` decides only the last activation (`DecideLast`).

`WakeHostProofs` proves the refinement `ContractKept`, so that these promises
are those of host and broker, and the three properties of the runs. The
inductive invariant `HInv` follows the last activation through the host.

- `Stage`: at which call each point of the pump and of `finish` waits.
- `CarriesLatest`: from its reservation to its insertion the batch the pump
  carries is the last activation's, holds all of its rows and was not inserted;
  `Submitted`: from the insertion on, `active` is the last activation, and one
  that was not inserted will be reported as doubtful.
- `Link`, `OrphanSound`: a call that was given up is served only while the
  runtime has no newer connection, and then still concerns the last activation.
  This is where lost answers are dealt with: whatever was given up does, when it
  is served late, what the host by then expects at worst.
- `Ledger`: only the last activation is live; a doubtful one that nobody
  reviewed is the last, and its member is paused.
- `NoReturn`: what was inserted is not back in the mailbox without a retry.
- `Evidence`: recordings, and calls that may lead to one, rest on the file.

`RecordingsArePersisted` is a part of it. `RepeatsAreRetries` and
`WakesAreReviewed` look at the one action that inserts, in the state `HInv`
describes. For `ContractKept` each step is mapped: serving a call is a step of
the contract on the last activation or a stutter, `Insert` is `Wake`, and all
else stutters. `HostUsesStore` is the counterpart of `DeliveryUsesStore`.

What the store and the contract promise then holds of the host itself.
`HostKeepsStoreInvariants` and `HostKeepsStoreSteps`: the host starts in a state
the store's invariants hold in (`HostStartsEmpty`) and takes the store's steps,
and the lemmas of `TeamStoreEvidence` and `TeamStoreLimits` speak of single
steps. `HostKeepsPromise` carries `PromiseKept` and `DecidedForGood` back through
the refinement, to the activations and entries of the host, with one fact more
than `HInv` has: what is settled was woken (`SettledWoken`). `ManualKeepsStoreSteps`
does the same for delivery by hand; the limits of queue and budget are not in
it, since its mailbox starts as full as the constants say.

### The parts of a session

`SessionProofs`, what a session keeps in its own memory:

- `StartupSoundness`: a lock argument. From the first look at the socket file to
  the open database a process holds the gate, so what it found stays true
  (`StaleStaysStale`); the one change the gate does not exclude is the end of a
  serving broker, which disturbs whoever waits (`FailuresExcused`).
- `LinkSoundness`: every change of session or enrolment opens a new epoch, so an
  ask of the present epoch is of the present session (`AsksAreOfHome`); at most
  one connect is of the present epoch and the flag shows it (`OneConnects`); a
  run carries its enrolment and epoch to the connection it opens
  (`OpenedAsAsked`) and takes it only after comparing both. A held connection of
  the present epoch is open, because whatever closes it in its epoch drops it.
- `NavigationSoundness`: the cache is of the room the session is in
  (`CacheIsOfRoom`), and what the dashboard shows of one view (`OfOneView`),
  whichever steps rebuild it.
- `GateSoundness`: the queue holds each waiting call once and only the one at its
  head has a dialog.
- `FormSoundness`: what is selected was offered, an editor belongs to a question
  on the screen that takes typed answers, and a single choice never has two
  answers, counting the typed one.
- `TodosSoundness`: the branch with the results that still wait rebuilds the
  list in memory unless it was overtaken, and then it is on the branch; ids are
  below the next and given once.
- `CompactSoundness`, `FastSoundness`, `LimitsSoundness`: by the generation a
  summary, command or request was started in, of which the present one has at
  most one that the flag shows.
- `ReadingSoundness`: a page on its way holds, in order, the first of the rows
  above its cursor that were there when it was cut, and its next cursor is its
  last row; what has been shown is all that still matches below the cursor and was
  not redirected there late. That
  a row has as many places as there are rows before it is counted by taking the
  least row of which it would fail.

`RecordProofs`, what outlives a session:

- `EvalSoundness`: the variants before the present one went well enough to go
  on, and an attempt called completed was not cut short.
- `PoolSoundness`: the tracker's evidence is of the present attempt, and while a
  call runs each task is still to be taken, in a worker's hands, or closed and
  linked (`IsAccountedFor`).
- `EvidenceSoundness`: file and queue together hold the lines recorded, in order,
  as long as no append failed (`InOrder`), and only a drained queue is called
  complete.
- `UsageSoundness`: of the entries of its file, a capture has seen, or holds with
  their first tags, all that were ever queued; and it has seen all on record but
  the one that has just landed (`IsSound`). Both directions are needed: the first
  for the tags, the second for counting once.
- `ReviewSoundness`: who writes `run.json` holds its lock and has read what the
  file says, so that it writes back every entry but its own as it is; an ended
  review's entry is its own result or, once the run is marked, what the
  consolidation took it for, and what it took for complete stays so.
- `BlockSoundness`, `UpkeepSoundness`: what a suspended command is about to write
  was asked for, accepted or pinned, and that is not taken back.

`PartsTypes`, at the end of it, is about the sum that the run `parts` explores:
whichever part moves keeps its types. Where the invariants above do not say all
of it, each part has *bounds* (`LinkBounds`, `GateBounds`, `PoolBounds`, ...) that
hold with its invariant: what is counted stays within what the guards allow. Two
take an argument. A line of the usage ledger has tags of a session and not the
placeholder of a file without any, because what was first queued was queued by
an initialised capture (`UsageBounds`). The attempts of a variant pass the retries
by at most one, because a next one is chosen only after a look at them
(`EvalBounds`).

### What the proofs changed

A proof that failed pointed at the model in these places, now as in the code.
`Outcome` of the tracker and `Verdict` of an evaluation chose among overlapping
cases; they are the ordered tests of the source. `Todos` removed and completed
every item of an id; the code works on the first one it finds. The question
form's single choice took the least marked option of a set that could hold more
than the question has; the assumption and `Marked` now say what may be asked.
The rows of a page were filtered out of the messages with a recursive operator;
they are now a set, and a page says which of them it holds by their place.
`AutoCompact` and `SafetyGate` asked no more of `MaxGeneration` and `MaxTurns` than
to be natural numbers; with zero, the initial state was outside of the types.

### Only model-checked

- Liveness (`ActivationsEnd`, `WaitingWorkIsTaken`): the prover has no rules for
  fairness or ENABLED.

Every invariant and every action property of the runs is stated by a theorem.

## Plan

Written, in the order of importance the first plan gave: the store and ledger,
the host with its contract, manual delivery, startup, the runtime's link, the
gate, pool and compaction, then reading, usage, evaluation and the question
form, and besides them the views, todos, fast mode, limits and skill upkeep;
then a theorem for each of their safety properties, what the store and the
contract promise as theorems of the host and of delivery by hand, and the types
of the parts. Left, in this order:

1. Acknowledgements and work summaries in `TeamStore`, for the question whether
   they are of the recipient and of the present attempt.
2. The backfill of old sessions in the usage ledger, which meets the live capture
   of the same file.

## Not modelled

Pure parsing and validation (frames, shell grammar, JSON and strict configs),
rendering, reports that are arithmetic over files, commands that are one
sequence of calls to git, gh, acli or the file system, and the macOS companion,
which only reads. `PROJECT.json` gives the reason for each component and what is
left out of those that are modelled partly.
