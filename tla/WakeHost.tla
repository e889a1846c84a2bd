------------------------------ MODULE WakeHost ------------------------------
(***************************************************************************)
(* Automatic delivery to one member: the host of its session               *)
(* (AutomaticDelivery, src/coordination/automation.ts, with what           *)
(* CoordinationRuntime gives it) against the broker's store.  The code     *)
(* between two awaits is one action.  A call to the broker is three: the   *)
(* host sends a request, the broker serves it as one action of TeamStore,  *)
(* and the host takes the answer; the connection may be lost, the broker   *)
(* restarted, the session reloaded and the human may act between any two.  *)
(*                                                                         *)
(* Abstractions.  The session's text is the sequence of batches inserted   *)
(* into it.  The evidence reads of one batch are one step.  Outcomes other *)
(* than complete act alike and are one.  A status read and its arrival are *)
(* one step.                                                               *)
(***************************************************************************)
EXTENDS TeamStore

CONSTANTS
    Worker,   \* the member whose host is modelled
    Asker     \* the member that sends it requests

ASSUME RolesAssumption == Worker \in Participants /\ Asker \in Participants

\* The asker's connection at the start is within the bound.
ASSUME FirstConnectionAssumption == MaxGeneration > 0

VARIABLES
    client,      \* the connection the runtime holds, or Offline
    pausedSeen,  \* the member or the room paused, as the last status said
    session,     \* "idle" or "running" a turn
    recovery,    \* deliveryBusy: where a human's recovery of a message is
    command,     \* how far a human's /team pause or resume of the member is
    held,        \* AutomaticDelivery.held
    timer,       \* the batching timer is set
    watchdog,    \* the start timer is set
    pump,        \* where the pump awaits; "idle" when not busy
    transport,   \* the connection the pump works with
    batch,       \* the activation the pump holds
    active,      \* the activation that was submitted to the session
    finish,      \* where finish awaits, and the outcome it reports
    request,     \* the call the host awaits
    answer,      \* what came back: "none" while it awaits
    orphan,      \* a call given up by the host that the broker may yet serve
    transcript,  \* the batches inserted into the session, in order
    persisted,   \* the messages whose entries reached the session file
    retried,     \* history: messages the human retried since their insertion
    reviewed     \* history: doubtful activations the human has looked at

linkVars == <<client, pausedSeen>>
sessionVars == <<session, recovery, command>>
hostVars == <<held, timer, watchdog, pump, transport, batch, active, finish>>
callVars == <<request, answer>>
textVars == <<transcript, persisted>>
historyVars == <<retried, reviewed>>
wakeHostVars == <<vars, linkVars, sessionVars, hostVars, callVars, orphan,
                  textVars, historyVars>>

Offline == [participant |-> Worker, session |-> NoSession, generation |-> 0]
NoBatch == [id |-> 0, messages |-> {}]
NoRecovery == [at |-> "none", message |-> 0]
NoFinish == [at |-> "none", complete |-> FALSE]
NoRequest == [op |-> "none", by |-> Offline, id |-> 0, entries |-> {},
              complete |-> FALSE]

(***************************************************************************)
(* Readiness and the batching timer                                        *)
(***************************************************************************)

\* AutomaticDelivery.ready and the runtime's ready callback.
Ready ==
    /\ ~held /\ client # Offline /\ ~pausedSeen
    /\ session = "idle" /\ recovery = NoRecovery

Kickable == pump = "idle" /\ active = NoBatch /\ Ready

\* kick(), after whatever else the step changes.
Kick == timer' = (timer \/ Kickable')

TimerFires ==
    /\ timer /\ timer' = FALSE
    /\ IF Kickable
       THEN /\ pump' = "reserving" /\ transport' = client
            /\ request' = [NoRequest EXCEPT !.op = "auto-reserve", !.by = client]
            /\ answer' = "none"
       ELSE UNCHANGED <<pump, transport, callVars>>
    /\ UNCHANGED <<vars, linkVars, sessionVars, held, watchdog, batch, active,
                   finish, orphan, textVars, historyVars>>

(***************************************************************************)
(* Calls.  A connection the runtime no longer holds is closed, and a call  *)
(* on it fails at once.                                                    *)
(***************************************************************************)
Call(op, by, id, entries, complete) ==
    /\ request' = [op |-> op, by |-> by, id |-> id, entries |-> entries,
                   complete |-> complete]
    /\ answer' = IF by = client THEN "none" ELSE "error"

NoCall == request' = NoRequest /\ answer' = "none"

Awaiting == request # NoRequest /\ answer = "none"

\* What the broker does with request r and what it answers.
Handle(r, reply) ==
    \/ /\ r.op = "auto-reserve"
       /\ \/ AutoReserve(r.by) /\ reply = "ok"
          \/ ~Reservable(r.by) /\ reply = "nothing" /\ UNCHANGED vars
    \/ /\ r.op = "auto-cancel"
       /\ \/ AutoCancel(r.by, r.id) /\ reply = "ok"
          \/ /\ ~(OwnCurrent(r.by, r.id) /\ IsLive(r.id))
             /\ reply = IF OwnCurrent(r.by, r.id) THEN "ok" ELSE "error"
             /\ UNCHANGED vars
    \/ /\ r.op = "auto-dispatch"
       /\ \/ /\ AutoDispatch(r.by, r.id)
             /\ reply = IF activations'[r.id].state = "dispatched"
                        THEN "ok" ELSE "nothing"
          \/ /\ ~(OwnCurrent(r.by, r.id) /\ activations[r.id].state = "reserved")
             /\ reply = "error" /\ UNCHANGED vars
    \/ /\ r.op = "auto-reconcile"
       /\ \/ AutoReconcile(r.by, r.id, r.entries) /\ reply = "ok"
          \/ /\ \/ ~OwnCurrent(r.by, r.id) \/ activations[r.id].state # "reserved"
                \/ \E m \in r.entries : deliveries[m][Worker].activation # r.id
                                        \/ deliveries[m][Worker].state # "claimed"
             /\ reply = "error" /\ UNCHANGED vars
    \/ /\ r.op = "auto-finish"
       /\ \/ AutoFinish(r.by, r.id, r.complete, r.entries) /\ reply = "ok"
          \/ /\ Own(r.by, r.id) => activations[r.id].state \in {"cancelled", "settled"}
             /\ reply = IF Own(r.by, r.id) THEN "ok" ELSE "error"
             /\ UNCHANGED vars

\* A reservation is answered with the messages of its batch.
Serve ==
    /\ Awaiting /\ request.by \in actors
    /\ \E reply \in {"ok", "nothing", "error"} :
        Handle(request, reply) /\ answer' = reply
    /\ request' = IF request.op = "auto-reserve"
                  THEN [request EXCEPT !.id = Len(activations'),
                                       !.entries = Batch(Worker)]
                  ELSE request
    /\ UNCHANGED <<linkVars, sessionVars, hostVars, orphan, textVars, historyVars>>

ServeOrphan ==
    /\ orphan # NoRequest /\ orphan.by \in actors
    /\ \E reply \in {"ok", "nothing", "error"} : Handle(orphan, reply)
    /\ orphan' = NoRequest
    /\ UNCHANGED <<linkVars, sessionVars, hostVars, callVars, textVars, historyVars>>

(***************************************************************************)
(* The pump, after each await                                              *)
(***************************************************************************)
pumpKeeps == <<vars, linkVars, sessionVars, watchdog, active, finish, orphan,
              textVars, historyVars>>

EndPump == pump' = "idle" /\ batch' = NoBatch /\ transport' = Offline

\* cancel, from the pump ("cancelling") or from its catch block ("giving up").
CancelBatch(b, at) ==
    /\ Call("auto-cancel", transport, b.id, {}, FALSE)
    /\ pump' = at /\ batch' = b
    /\ UNCHANGED <<timer, transport>>

Reserved ==
    LET got == [id |-> request.id, messages |-> request.entries] IN
    /\ pump = "reserving" /\ answer # "none"
    /\ IF answer # "ok"
       THEN EndPump /\ NoCall /\ UNCHANGED timer
       ELSE IF Ready
       THEN pump' = "reading" /\ batch' = got /\ NoCall /\ UNCHANGED <<timer, transport>>
       ELSE CancelBatch(got, "cancelling")
    /\ UNCHANGED <<pumpKeeps, held>>

\* What an earlier insertion left in the session file is reconciled, never
\* inserted again.
EvidenceRead ==
    LET entries == batch.messages \cap persisted IN
    /\ pump = "reading"
    /\ \/ /\ entries # {}
          /\ Call("auto-reconcile", transport, batch.id, entries, FALSE)
          /\ pump' = "reconciling" /\ UNCHANGED <<batch, timer, transport>>
       \/ /\ entries = {} /\ Ready
          /\ Call("auto-dispatch", transport, batch.id, {}, FALSE)
          /\ pump' = "dispatching" /\ UNCHANGED <<batch, timer, transport>>
       \/ /\ entries = {} /\ ~Ready
          /\ CancelBatch(batch, "cancelling")
    /\ UNCHANGED <<pumpKeeps, held>>

EvidenceFails ==
    /\ pump = "reading"
    /\ held' = TRUE
    /\ CancelBatch(batch, "giving up")
    /\ UNCHANGED pumpKeeps

\* The answers after which nothing was inserted: a refused dispatch, a
\* reconciliation or a cancellation ends the pump, a failed call is cancelled
\* from the catch block, whose own failure is swallowed.
Abandoned ==
    /\ answer # "none"
    /\ \/ pump \in {"reconciling", "cancelling"} /\ answer = "ok"
       \/ pump = "dispatching" /\ answer = "nothing"
       \/ pump = "giving up"
    /\ EndPump /\ NoCall
    /\ UNCHANGED <<pumpKeeps, held>>
    /\ Kick

CallFailed ==
    /\ pump \in {"reconciling", "dispatching", "cancelling"} /\ answer = "error"
    /\ CancelBatch(batch, "giving up")
    /\ UNCHANGED <<pumpKeeps, held>>

\* Mutant: the permit's state is not looked at.
PermittedUnchecked == pump = "dispatching" /\ answer \in {"ok", "nothing"}

Permitted == pump = "dispatching" /\ answer = "ok"

TooLate ==
    /\ Permitted /\ ~Ready
    /\ CancelBatch(batch, "cancelling")
    /\ UNCHANGED <<pumpKeeps, held>>

Enter(b) ==
    /\ transcript' = Append(transcript, b)
    /\ retried' = retried \ b.messages

\* Mutant: no start timer is set.
InsertUnwatched ==
    /\ Permitted /\ Ready
    /\ Enter(batch)
    /\ active' = batch
    /\ EndPump /\ NoCall
    /\ UNCHANGED <<vars, linkVars, sessionVars, held, timer, watchdog, finish,
                   orphan, persisted, reviewed>>

\* The last readiness check and the insertion are one synchronous piece.
Insert ==
    /\ Permitted /\ Ready
    /\ Enter(batch)
    /\ active' = batch /\ watchdog' = TRUE
    /\ EndPump /\ NoCall
    /\ UNCHANGED <<vars, linkVars, sessionVars, held, timer, finish, orphan,
                   persisted, reviewed>>

\* Mutant: an insertion that throws is taken for one that never happened.
InsertThrowsRefunded ==
    /\ Permitted /\ Ready
    /\ Enter(batch) \/ UNCHANGED <<transcript, retried>>
    /\ CancelBatch(batch, "giving up")
    /\ UNCHANGED <<vars, linkVars, sessionVars, held, watchdog, active, finish,
                   orphan, persisted, reviewed>>

\* The insertion throws, before or after the session took the text.
InsertThrows ==
    /\ Permitted /\ Ready
    /\ Enter(batch) \/ UNCHANGED <<transcript, retried>>
    /\ active' = batch
    /\ finish' = [at |-> "reading", complete |-> FALSE] /\ held' = TRUE
    /\ pump' = "finishing" /\ NoCall
    /\ UNCHANGED <<vars, linkVars, sessionVars, timer, watchdog, transport, batch,
                   orphan, persisted, reviewed>>

(***************************************************************************)
(* The turn and its end                                                    *)
(***************************************************************************)
\* The start of finish(outcome), where an activation is submitted.
StartFinish(complete) ==
    /\ finish' = [at |-> "reading", complete |-> complete]
    /\ held' = (held \/ ~complete)
    /\ watchdog' = FALSE

Unfinished == active # NoBatch /\ finish = NoFinish

AgentStarts ==
    /\ session = "idle" /\ session' = "running"
    /\ watchdog' = (watchdog /\ active = NoBatch)
    /\ UNCHANGED <<vars, linkVars, recovery, command, held, timer, pump, transport,
                   batch, active, finish, callVars, orphan, textVars, historyVars>>

AgentSettles(complete) ==
    /\ session = "running" /\ session' = "idle"
    /\ UNCHANGED <<vars, linkVars, recovery, command, pump, transport, batch, active,
                   callVars, orphan, textVars, historyVars>>
    /\ IF Unfinished
       THEN StartFinish(complete) /\ UNCHANGED timer
       ELSE UNCHANGED <<held, watchdog, finish>> /\ Kick

WatchdogFires ==
    /\ watchdog
    /\ IF Unfinished THEN StartFinish(FALSE)
       ELSE watchdog' = FALSE /\ UNCHANGED <<held, finish>>
    /\ UNCHANGED <<vars, linkVars, sessionVars, timer, pump, transport, batch,
                   active, callVars, orphan, textVars, historyVars>>

\* Mutant: missing evidence does not spoil a complete run.
FinishReadsTrusting ==
    /\ finish.at = "reading"
    /\ \E found \in SUBSET (active.messages \cap persisted) :
        LET complete == finish.complete IN
        /\ UNCHANGED held
        /\ finish' = [at |-> "reporting", complete |-> complete]
        /\ request' = [op |-> "auto-finish", by |-> client, id |-> active.id,
                       entries |-> found, complete |-> complete]
        /\ answer' = IF client = Offline THEN "error" ELSE "none"
    /\ UNCHANGED <<vars, linkVars, sessionVars, timer, watchdog, pump, transport,
                   batch, active, orphan, textVars, historyVars>>

\* Mutant: the batch is reported as recorded without evidence.
FinishReadsNothing ==
    /\ finish.at = "reading"
    /\ LET found == active.messages
           complete == finish.complete IN
        /\ UNCHANGED held
        /\ finish' = [at |-> "reporting", complete |-> complete]
        /\ request' = [op |-> "auto-finish", by |-> client, id |-> active.id,
                       entries |-> found, complete |-> complete]
        /\ answer' = IF client = Offline THEN "error" ELSE "none"
    /\ UNCHANGED <<vars, linkVars, sessionVars, timer, watchdog, pump, transport,
                   batch, active, orphan, textVars, historyVars>>

\* The evidence read, some of which may fail, and the report.
FinishReads ==
    /\ finish.at = "reading"
    /\ \E found \in SUBSET (active.messages \cap persisted) :
        LET complete == finish.complete /\ found = active.messages IN
        /\ held' = (held \/ found # active.messages)
        /\ finish' = [at |-> "reporting", complete |-> complete]
        /\ request' = [op |-> "auto-finish", by |-> client, id |-> active.id,
                       entries |-> found, complete |-> complete]
        /\ answer' = IF client = Offline THEN "error" ELSE "none"
    /\ UNCHANGED <<vars, linkVars, sessionVars, timer, watchdog, pump, transport,
                   batch, active, orphan, textVars, historyVars>>

FinishReturns ==
    /\ finish.at = "reporting" /\ answer # "none"
    /\ held' = (held \/ answer = "error")
    /\ active' = NoBatch /\ finish' = NoFinish
    /\ IF pump = "finishing" THEN EndPump ELSE UNCHANGED <<pump, transport, batch>>
    /\ NoCall
    /\ UNCHANGED <<vars, linkVars, sessionVars, watchdog, orphan, textVars, historyVars>>
    /\ Kick

\* The session file receives an inserted batch; it may never do.
EntryPersisted ==
    /\ \E i \in DOMAIN transcript :
        /\ ~(transcript[i].messages \subseteq persisted)
        /\ persisted' = persisted \cup transcript[i].messages
    /\ UNCHANGED <<vars, linkVars, sessionVars, hostVars, callVars, orphan,
                   transcript, historyVars>>

(***************************************************************************)
(* Recovery of a message by the human: /team reconcile and /team retry     *)
(***************************************************************************)
recoveryKeeps == <<linkVars, session, command, hostVars, callVars, orphan, textVars,
                   reviewed>>

StartRecovery ==
    /\ recovery = NoRecovery /\ client # Offline
    /\ \E m \in DOMAIN messages : recovery' = [at |-> "reading", message |-> m]
    /\ UNCHANGED <<vars, recoveryKeeps, retried>>

\* The row is read on the runtime's connection, so an answer sent before on
\* it has been taken, and no permit is asked for during a recovery.  Evidence
\* in the session file ends the recovery; without it the human is asked.
RecoveryReads ==
    LET m == recovery.message IN
    /\ recovery.at = "reading" /\ pump # "dispatching"
    /\ client # Offline /\ Authorized(client)
    /\ IF m \in persisted /\ Attempted(client, m)
       THEN Reconcile(client, m) /\ recovery' = NoRecovery
       ELSE recovery' = [recovery EXCEPT !.at = "confirming"] /\ UNCHANGED vars
    /\ UNCHANGED <<recoveryKeeps, retried>>

RecoveryConfirmed ==
    LET m == recovery.message IN
    /\ recovery.at = "confirming" /\ Retry(m, Worker)
    /\ recovery' = NoRecovery /\ retried' = retried \cup {m}
    /\ UNCHANGED recoveryKeeps

\* Refused, declined or failed: nothing is replayed.
RecoveryEnds ==
    /\ recovery # NoRecovery /\ recovery' = NoRecovery
    /\ UNCHANGED <<vars, recoveryKeeps, retried>>

(***************************************************************************)
(* The connection, the session and the broker                              *)
(***************************************************************************)
Reconnect ==
    /\ client = Offline
    /\ Connect(Worker)
    /\ client' = [participant |-> Worker, session |-> participants[Worker].session,
                  generation |-> participants'[Worker].generation]
    /\ UNCHANGED <<pausedSeen, sessionVars, hostVars, callVars, orphan, textVars, historyVars>>

\* Mutant: a status does not start the timer.
RefreshQuietly ==
    /\ client # Offline /\ Authorized(client)
    /\ pausedSeen' = PausedFor(Worker)
    /\ UNCHANGED <<vars, client, sessionVars, hostVars, callVars, orphan,
                   textVars, historyVars>>

\* The periodic heartbeat and status, or a change the broker announced.
Refresh ==
    /\ client # Offline /\ Authorized(client)
    /\ pausedSeen' = PausedFor(Worker)
    /\ UNCHANGED <<vars, client, sessionVars, held, watchdog, pump, transport, batch,
                   active, finish, callVars, orphan, textVars, historyVars>>
    /\ Kick

\* A call outlives its caller while its socket is open at the broker.
GiveUpCalls ==
    orphan' = IF Awaiting /\ request.by \in actors THEN request ELSE orphan

\* A timeout, a refused heartbeat or a closed socket: the calls on the
\* connection fail, the answers under way included.
Drop ==
    /\ client # Offline /\ client' = Offline
    /\ IF request # NoRequest /\ request.by = client
       THEN GiveUpCalls /\ answer' = "error"
       ELSE UNCHANGED <<orphan, answer>>
    /\ UNCHANGED <<vars, pausedSeen, sessionVars, hostVars, request, textVars, historyVars>>

LosesConnection == Drop /\ ~Authorized(client)

SocketCloses(w) ==
    /\ w.participant = Worker /\ Disconnect(w)
    /\ orphan' = IF orphan.by = w THEN NoRequest ELSE orphan
    /\ UNCHANGED <<linkVars, sessionVars, hostVars, callVars, textVars, historyVars>>

ClosesAbandoned == \E w \in actors : w # client /\ SocketCloses(w)

BrokerStops ==
    /\ BrokerRestart
    /\ orphan' = NoRequest
    /\ UNCHANGED <<linkVars, sessionVars, hostVars, callVars, textVars, historyVars>>

LeaseEnds ==
    /\ LeaseLapse(Worker) \/ Expire
    /\ UNCHANGED <<linkVars, sessionVars, hostVars, callVars, orphan, textVars, historyVars>>

\* The session's extensions are reloaded: the host starts anew, with what the
\* session file and the broker hold.  The restore call does nothing to the
\* member's row that Reconnect does not do after it.
Reload ==
    /\ client' = Offline /\ pausedSeen' = FALSE
    /\ session' = "idle" /\ recovery' = NoRecovery /\ command' = "none"
    /\ held' = FALSE /\ timer' = FALSE /\ watchdog' = FALSE
    /\ EndPump /\ active' = NoBatch /\ finish' = NoFinish
    /\ GiveUpCalls /\ NoCall
    /\ UNCHANGED <<vars, textVars, historyVars>>

(***************************************************************************)
(* The human and the asking member                                         *)
(***************************************************************************)
Ask ==
    /\ \E w \in actors, t \in Threads, k \in Keys :
        w.participant = Asker /\ Send(w, {Worker}, "question", t, 0, k)
    /\ UNCHANGED <<linkVars, sessionVars, hostVars, callVars, orphan, textVars, historyVars>>

Close ==
    /\ \E t \in Threads : threads[t] = "open" /\ Resolve(t)
    /\ UNCHANGED <<linkVars, sessionVars, hostVars, callVars, orphan, textVars, historyVars>>

\* The runtime believes the human before the broker has heard of it; a status
\* in between makes it believe the broker again.
Command(paused) ==
    /\ command = "none" /\ client # Offline
    /\ pausedSeen' = paused
    /\ command' = IF paused THEN "pausing" ELSE "resuming"
    /\ UNCHANGED <<vars, client, session, recovery, hostVars, callVars, orphan, textVars,
                   historyVars>>

PauseLocal ==
    /\ command = "pausing" /\ command' = "none"
    /\ Pause(Worker, TRUE)
    /\ UNCHANGED <<linkVars, session, recovery, hostVars, callVars, orphan, textVars,
                   historyVars>>

ResumeLocal ==
    /\ command = "resuming" /\ command' = "resumed"
    /\ Pause(Worker, FALSE)
    /\ reviewed' = {a \in DOMAIN activations : activations[a].state = "uncertain"}
    /\ UNCHANGED <<linkVars, session, recovery, hostVars, callVars, orphan, textVars,
                   retried>>

\* The broker's answer reached the command.
ResumeAutomatic ==
    /\ command = "resumed" /\ command' = "none"
    /\ held' = FALSE
    /\ UNCHANGED <<vars, linkVars, session, recovery, watchdog, pump, transport, batch,
                   active, finish, callVars, orphan, textVars, historyVars>>
    /\ Kick

\* The command's call failed, before or after the broker took it.
CommandFails ==
    /\ command # "none" /\ command' = "none"
    /\ UNCHANGED <<vars, linkVars, session, recovery, hostVars, callVars, orphan, textVars,
                   historyVars>>

(***************************************************************************)
(* Specification.  The asker is connected, the worker has joined.          *)
(***************************************************************************)
HostInit ==
    \E home \in [Participants -> Sessions] :
        /\ \A p, q \in Participants : home[p] = home[q] => p = q
        /\ participants = [p \in Participants |->
                [joined |-> TRUE, paused |-> FALSE, session |-> home[p],
                 generation |-> IF p = Asker THEN 1 ELSE 0,
                 link |-> IF p = Asker THEN "live" ELSE "none"]]
        /\ actors = {[participant |-> Asker, session |-> home[Asker], generation |-> 1]}
        /\ roomPaused = FALSE /\ threads = [t \in Threads |-> "absent"]
        /\ messages = <<>> /\ activations = <<>> /\ aged = 0
        /\ deliveries = [m \in MsgIds |-> [p \in Participants |-> Absent]]
        /\ client = Offline /\ pausedSeen = FALSE
        /\ session = "idle" /\ recovery = NoRecovery /\ command = "none"
        /\ held = FALSE /\ timer = FALSE /\ watchdog = FALSE
        /\ pump = "idle" /\ transport = Offline /\ batch = NoBatch
        /\ active = NoBatch /\ finish = NoFinish
        /\ request = NoRequest /\ answer = "none" /\ orphan = NoRequest
        /\ transcript = <<>> /\ persisted = {} /\ retried = {} /\ reviewed = {}

\* What the event loops of the session and the broker keep running.
Host ==
    \/ TimerFires \/ Reserved \/ EvidenceRead \/ Abandoned \/ CallFailed
    \/ TooLate \/ Insert \/ WatchdogFires \/ FinishReads \/ FinishReturns

Environment ==
    \/ EvidenceFails \/ InsertThrows
    \/ AgentStarts \/ (\E complete \in BOOLEAN : AgentSettles(complete))
    \/ EntryPersisted
    \/ StartRecovery \/ RecoveryReads \/ RecoveryConfirmed \/ RecoveryEnds
    \/ Reconnect \/ Refresh \/ Drop \/ (\E w \in actors : SocketCloses(w))
    \/ BrokerStops \/ LeaseEnds \/ Reload
    \/ Ask \/ Close
    \/ (\E paused \in BOOLEAN : Command(paused)) \/ PauseLocal \/ ResumeLocal
    \/ ResumeAutomatic \/ CommandFails

HostNext == Host \/ Serve \/ ServeOrphan \/ Environment

HostSafe == HostInit /\ [][HostNext]_wakeHostVars

\* Timers fire, promises resolve, the broker serves what it has received, a
\* lost connection is noticed at both ends, the heartbeat keeps its period,
\* and a turn ends.  Nothing is assumed of the human, of the session's start
\* of a turn, or of the session file.
HostFairness ==
    /\ WF_wakeHostVars(TimerFires)
    /\ WF_wakeHostVars(Reserved \/ EvidenceRead \/ Abandoned \/ CallFailed
                         \/ TooLate \/ Insert)
    /\ WF_wakeHostVars(WatchdogFires)
    /\ WF_wakeHostVars(FinishReads \/ FinishReturns)
    /\ WF_wakeHostVars(Serve)
    /\ WF_wakeHostVars(LosesConnection)
    /\ WF_wakeHostVars(ClosesAbandoned)
    /\ WF_wakeHostVars(LeaseEnds /\ Expire)
    /\ WF_wakeHostVars(Refresh)
    /\ WF_wakeHostVars(\E complete \in BOOLEAN : AgentSettles(complete))

HostSpec == HostSafe /\ HostFairness

(***************************************************************************)
(* Properties                                                              *)
(***************************************************************************)
\* The broker counts a message as recorded only if its entry really is in the
\* session file, whatever answer was lost and whichever run reported it.
RecordedIsPersisted ==
    \A m \in MsgIds : deliveries[m][Worker].state = "recorded" => m \in persisted

\* A message enters the session a second time only after the human retried it:
\* no lost answer, failed insertion, refund or reload repeats it.
NoRepeatWithoutRetry ==
    [][\A m \in MsgIds :
        Len(transcript') > Len(transcript) /\ m \in transcript'[Len(transcript')].messages
        /\ (\E i \in DOMAIN transcript : m \in transcript[i].messages)
            => m \in retried]_wakeHostVars

\* After a run of doubtful outcome nothing else wakes the session before the
\* human resumed it, whoever noticed the doubt first, host or broker.
NoWakeBeforeReview ==
    [][Len(transcript') > Len(transcript) =>
        \A a \in DOMAIN activations :
            activations[a].state = "uncertain"
            /\ a < transcript'[Len(transcript')].id
                => a \in reviewed]_wakeHostVars

\* The host and the broker together keep the promise of WakeContract.
Contract == INSTANCE WakeContract WITH
    ledger <- [a \in DOMAIN activations |-> activations[a].state],
    woken  <- {transcript[i].id : i \in DOMAIN transcript}
ContractHolds == Contract!ContractSpec

\* Every activation ends, whatever is lost on the way: none blocks its member
\* for ever.
ActivationsEnd ==
    \A a \in 1..MaxActivations :
        (a \in DOMAIN activations /\ IsLive(a)) ~> (a \in DOMAIN activations /\ ~IsLive(a))

\* No wake is lost: while the member stays connected, unpaused and within its
\* budget and its session does nothing else, waiting work does not wait for ever.
Favourable ==
    /\ client # Offline /\ Authorized(client)
    /\ ~held /\ ~PausedFor(Worker)
    /\ session = "idle" \/ active # NoBatch
    /\ recovery = NoRecovery /\ command = "none"
    /\ RoomUsed < WakeLimit /\ Len(activations) < MaxActivations
WaitingWorkIsTaken ==
    <>[]Favourable => []<>(Candidates(Worker) = {})

=============================================================================
