------------------------------ MODULE TeamStore ------------------------------
(***************************************************************************)
(* The broker's durable state (src/coordination/store.ts and               *)
(* automation-store.ts) for one room: members, threads, messages, one      *)
(* delivery per message and recipient, and the ledger of automatic         *)
(* activations.  Every operation of the broker is one transaction, so      *)
(* every operation is one action.                                          *)
(*                                                                         *)
(* Abstractions.  A connection is named by the generation it was opened    *)
(* with: a generation is never reused, so connection_id and generation     *)
(* identify the same thing.  Clock readings are replaced by the two        *)
(* questions the code asks of them: has a lease lapsed (LeaseLapse), has   *)
(* an activation left the rolling window (WindowSlides).  A heartbeat      *)
(* keeps a live lease live, so it is the absence of LeaseLapse.  Attempt   *)
(* ids are abstracted: a caller presents the attempt the row holds.        *)
(* Bodies, audit events, acknowledgements and work notes steer nothing     *)
(* here and are left out.                                                  *)
(***************************************************************************)
EXTENDS Naturals, Sequences, FiniteSets

CONSTANTS
    Participants,    \* member names of the room
    Sessions,        \* Pi session identities a member can be bound to
    Threads,         \* thread ids
    Keys,            \* idempotency keys
    NoSession,       \* "no row yet" in a member, NULL in a delivery
    QueueLimit,      \* TeamStore.queueLimit
    WakeLimit,       \* ROOM_WAKE_LIMIT
    MaxBatch,        \* MAX_AUTO_BATCH
    MaxMessages,     \* bound: messages ever sent
    MaxGeneration,   \* bound: connections ever opened by one member
    MaxActivations   \* bound: activations ever reserved

ASSUME BoundsAssumption ==
    /\ QueueLimit \in Nat /\ WakeLimit \in Nat /\ MaxBatch \in Nat \ {0}
    /\ MaxMessages \in Nat /\ MaxGeneration \in Nat /\ MaxActivations \in Nat
ASSUME NoSessionAssumption == NoSession \notin Sessions
ASSUME FinitenessAssumption == IsFiniteSet(Participants)

VARIABLES
    participants,  \* member -> its row
    roomPaused,    \* rooms.paused
    actors,        \* worker actors of the sockets the broker holds open
    threads,       \* thread -> "absent", "open" or "resolved"
    messages,      \* the messages, in the order of their ordinals
    deliveries,    \* message ordinal -> recipient -> its row
    activations,   \* the activation ledger, in the order of created_at
    aged           \* how many of the oldest activations left the window

memberVars == <<participants, roomPaused, actors>>
mailVars   == <<threads, messages, deliveries>>
wakeVars   == <<activations, aged>>
vars == <<participants, roomPaused, actors, threads, messages, deliveries,
          activations, aged>>

(***************************************************************************)
(* Rows                                                                    *)
(***************************************************************************)
MsgIds == 1..MaxMessages

\* "question" stands for questions, decision requests and actionable
\* handoffs, "status" for proposals, statuses and informational handoffs.
MessageTypes == {"question", "reply", "status"}

Obligations == {"none", "open", "answered", "resolved", "cancelled", "redirected"}
ActiveObligations == {"open", "none"}
InFlightStates == {"claimed", "queued"}
UndeliveredStates == {"pending", "uncertain"} \cup InFlightStates
DeliveryStates == {"absent", "recorded", "cancelled"} \cup UndeliveredStates
LiveStates == {"reserved", "dispatched"}
ActivationStates == LiveStates \cup {"cancelled", "settled", "uncertain"}

ParticipantRow == [joined: BOOLEAN, paused: BOOLEAN,
                   session: Sessions \cup {NoSession},
                   generation: 0..MaxGeneration,
                   link: {"none", "live", "lapsed"}]
WorkerActor == [participant: Participants, session: Sessions,
                generation: 1..MaxGeneration]
Message == [sender: Participants, thread: Threads, type: MessageTypes,
            human: BOOLEAN, replyTo: 0..MaxMessages, key: Keys]
Delivery == [state: DeliveryStates, obligation: Obligations, wake: BOOLEAN,
             activation: 0..MaxActivations,
             session: Sessions \cup {NoSession}, generation: 0..MaxGeneration]
Activation == [participant: Participants, session: Sessions,
               generation: 1..MaxGeneration, state: ActivationStates]

Absent == [state |-> "absent", obligation |-> "none", wake |-> FALSE,
           activation |-> 0, session |-> NoSession, generation |-> 0]

Exists(p) == participants[p].session # NoSession
Present(m, p) == deliveries[m][p].state # "absent"
InFlight(d) == d.state \in InFlightStates
ThreadOpen(m) == threads[messages[m].thread] = "open"

\* TeamStore.connected: a connection whose lease has not lapsed.
Connected(p) == participants[p].link = "live"

\* TeamStore.authorize for a worker: the actor's own connection, still live.
Authorized(w) ==
    LET p == participants[w.participant] IN
    /\ w \in actors
    /\ p.joined /\ p.link = "live"
    /\ p.generation = w.generation
    /\ p.session = w.session

PausedFor(p) == participants[p].paused \/ roomPaused

\* Deliveries that occupy the bounded queue (checkCapacity).
Occupying ==
    {mp \in MsgIds \X Participants :
        LET d == deliveries[mp[1]][mp[2]] IN
        d.state \in UndeliveredStates \/ d.obligation = "open"}

\* Mutant: the check forgets the deliveries that are about to be added.
HasCapacityBefore(extra) == Cardinality(Occupying) <= QueueLimit

HasCapacity(extra) == Cardinality(Occupying) + extra <= QueueLimit

(***************************************************************************)
(* Losing the connection.  Every path that ends a connection interrupts    *)
(* the member's activations and turns its in-flight deliveries uncertain.  *)
(***************************************************************************)
IsLive(a) == activations[a].state \in LiveStates

HasLiveActivation(p) ==
    \E a \in DOMAIN activations : activations[a].participant = p /\ IsLive(a)

\* Mutant: only a dispatched activation is interrupted.
InterruptedIfDispatched(P) ==
    [a \in DOMAIN activations |->
        IF activations[a].participant \in P /\ activations[a].state = "dispatched"
        THEN [activations[a] EXCEPT !.state = "uncertain"]
        ELSE activations[a]]

InterruptedActivations(P) ==
    [a \in DOMAIN activations |->
        IF activations[a].participant \in P /\ IsLive(a)
        THEN [activations[a] EXCEPT !.state = "uncertain"]
        ELSE activations[a]]

\* Mutant: only what the recipient had accepted turns uncertain.
QueuedLeftUncertain(P) ==
    [m \in MsgIds |-> [p \in Participants |->
        IF p \in P /\ deliveries[m][p].state = "queued"
        THEN [deliveries[m][p] EXCEPT !.state = "uncertain"]
        ELSE deliveries[m][p]]]

DeliveriesLeftUncertain(P) ==
    [m \in MsgIds |-> [p \in Participants |->
        IF p \in P /\ InFlight(deliveries[m][p])
        THEN [deliveries[m][p] EXCEPT !.state = "uncertain"]
        ELSE deliveries[m][p]]]

\* Mutant: an interruption does not pause the member.
UnlinkedUnpaused(P) ==
    [p \in Participants |->
        IF p \in P THEN [participants[p] EXCEPT !.link = "none"] ELSE participants[p]]

\* The rows of members P without a connection, paused if interrupted.
Unlinked(P) ==
    [p \in Participants |->
        IF p \in P
        THEN [participants[p] EXCEPT !.link = "none",
                                     !.paused = @ \/ HasLiveActivation(p)]
        ELSE participants[p]]

Sever(P) ==
    /\ activations' = InterruptedActivations(P)
    /\ deliveries' = DeliveriesLeftUncertain(P)
    /\ UNCHANGED <<roomPaused, threads, messages, aged>>

(***************************************************************************)
(* Membership and connections                                              *)
(***************************************************************************)

\* enroll: a first join inserts the row; a rejoin (or a reload's restore,
\* which only accepts the same session of a joined member) rebinds it.
Join(p, s) ==
    /\ ~Exists(p)
    /\ participants' = [participants EXCEPT ![p].joined = TRUE, ![p].session = s]
    /\ UNCHANGED <<roomPaused, actors, mailVars, wakeVars>>

Rejoin(p, s) ==
    /\ Exists(p) /\ ~Connected(p)
    /\ participants' = [Unlinked({p}) EXCEPT ![p].joined = TRUE, ![p].session = s]
    /\ Sever({p})
    /\ UNCHANGED actors

\* Mutant: the connection is told the generation of the row before the update.
ConnectReturningOld(p) ==
    LET row == participants[p] IN
    /\ row.joined /\ ~Connected(p)
    /\ row.generation < MaxGeneration
    /\ participants' = [Unlinked({p}) EXCEPT ![p].generation = @ + 1, ![p].link = "live"]
    /\ actors' = actors \cup {[participant |-> p, session |-> row.session,
                               generation |-> row.generation]}
    /\ Sever({p})

Connect(p) ==
    LET row == participants[p]
        generation == row.generation + 1 IN
    /\ row.joined /\ ~Connected(p)
    /\ row.generation < MaxGeneration
    /\ participants' = [Unlinked({p}) EXCEPT ![p].generation = generation,
                                             ![p].link = "live"]
    /\ actors' = actors \cup {[participant |-> p, session |-> row.session,
                               generation |-> generation]}
    /\ Sever({p})

\* A socket closes.  Only the current connection's closing severs the member.
Disconnect(w) ==
    LET p == w.participant IN
    /\ w \in actors
    /\ actors' = actors \ {w}
    /\ IF participants[p].link # "none" /\ participants[p].generation = w.generation
       THEN participants' = Unlinked({p}) /\ Sever({p})
       ELSE UNCHANGED <<participants, roomPaused, mailVars, wakeVars>>

\* LEASE_MS pass without a heartbeat.
LeaseLapse(p) ==
    /\ participants[p].link = "live"
    /\ participants' = [participants EXCEPT ![p].link = "lapsed"]
    /\ UNCHANGED <<roomPaused, actors, mailVars, wakeVars>>

\* The broker's sweep: every lapsed connection at once.
Expire ==
    LET P == {p \in Participants : participants[p].link = "lapsed"} IN
    /\ P # {}
    /\ participants' = Unlinked(P)
    /\ Sever(P)
    /\ UNCHANGED actors

\* The broker stops or crashes and a new one opens the database.
BrokerRestart ==
    /\ participants' = Unlinked(Participants)
    /\ actors' = {}
    /\ Sever(Participants)

Leave(p) ==
    /\ Exists(p)
    /\ participants' = [Unlinked({p}) EXCEPT ![p].joined = FALSE]
    /\ Sever({p})
    /\ UNCHANGED actors

Pause(p, paused) ==
    /\ Exists(p)
    /\ participants' = [participants EXCEPT ![p].paused = paused]
    /\ UNCHANGED <<roomPaused, actors, mailVars, wakeVars>>

PauseRoom(paused) ==
    /\ roomPaused' = paused
    /\ UNCHANGED <<participants, actors, mailVars, wakeVars>>

(***************************************************************************)
(* Messages                                                                *)
(***************************************************************************)

\* A delivery row loses its open request to an answer.
Answered(d) ==
    IF d.obligation = "open"
    THEN [d EXCEPT !.obligation = "answered",
                   !.state = IF @ = "pending" THEN "cancelled" ELSE @]
    ELSE d

KeyUsed(sender, key) ==
    \E m \in DOMAIN messages : messages[m].sender = sender /\ messages[m].key = key

\* Only a recipient whose request is still its own may reply.
CurrentRecipient(m, p) ==
    /\ Present(m, p)
    /\ deliveries[m][p].state # "cancelled"
    /\ deliveries[m][p].obligation \in {"none", "open", "answered"}

\* Mutant: every reply wakes the requester.
EveryReplyWakes(msg) == msg.replyTo # 0 /\ msg.type = "reply"

\* The requester is woken only by a reply that finds an open request.
ReplyWakes(msg) ==
    /\ msg.replyTo # 0 /\ msg.type = "reply"
    /\ \E p \in Participants :
         /\ deliveries[msg.replyTo][p].obligation = "open"
         /\ msg.human \/ p = msg.sender

NewDelivery(msg, p) ==
    LET obligation == IF msg.type = "question" THEN "open" ELSE "none" IN
    [Absent EXCEPT !.state = "pending", !.obligation = obligation,
        !.wake = /\ msg.human \/ p # msg.sender
                 /\ \/ obligation = "open"
                    \/ ReplyWakes(msg) /\ p = messages[msg.replyTo].sender]

\* send: capacity, thread and reply checks, then the rows.  The caller says
\* whose request a stored reply answers.
Store(msg, recipients, answered) ==
    LET m == Len(messages) + 1
        q == msg.replyTo IN
    /\ m <= MaxMessages
    /\ ~KeyUsed(msg.sender, msg.key)
    /\ recipients # {} /\ \A p \in recipients : Exists(p)
    /\ HasCapacity(Cardinality(recipients))
    /\ msg.type = "reply" => q # 0
    /\ threads[msg.thread] # "resolved"
    /\ q # 0 => /\ messages[q].thread = msg.thread
                /\ msg.human \/ CurrentRecipient(q, msg.sender)
                /\ messages[q].sender \in recipients
    /\ threads' = [threads EXCEPT ![msg.thread] = "open"]
    /\ messages' = Append(messages, msg)
    /\ deliveries' =
        [n \in MsgIds |-> [p \in Participants |->
            IF n = m /\ p \in recipients THEN NewDelivery(msg, p)
            ELSE IF n = q /\ p \in answered THEN Answered(deliveries[n][p])
            ELSE deliveries[n][p]]]
    /\ UNCHANGED <<memberVars, wakeVars>>

\* Mutant: whatever refers to a request answers it.
SendAnsweringAny(w, recipients, type, thread, q, key) ==
    /\ Authorized(w)
    /\ Store([sender |-> w.participant, thread |-> thread, type |-> type,
              human |-> FALSE, replyTo |-> q, key |-> key],
             recipients, IF q # 0 THEN {w.participant} ELSE {})

Send(w, recipients, type, thread, q, key) ==
    /\ Authorized(w)
    /\ Store([sender |-> w.participant, thread |-> thread, type |-> type,
              human |-> FALSE, replyTo |-> q, key |-> key],
             recipients, IF type = "reply" THEN {w.participant} ELSE {})

\* review "answer": the human answers request q on p's behalf; the reply is
\* stored under the requester's name and reaches the requester and p.
Answer(q, p, key) ==
    LET requester == messages[q].sender IN
    /\ deliveries[q][p].obligation = "open"
    /\ Store([sender |-> requester, thread |-> messages[q].thread,
              type |-> "reply", human |-> TRUE, replyTo |-> q, key |-> key],
             {requester, p}, {p})

SetDelivery(m, p, d) ==
    /\ deliveries' = [deliveries EXCEPT ![m][p] = d]
    /\ UNCHANGED <<memberVars, threads, messages, wakeVars>>

(***************************************************************************)
(* Human control of deliveries                                             *)
(***************************************************************************)
\* Mutant: a retried delivery keeps the id of the run that lost it.
RetryKeepingActivation(m, p) ==
    /\ deliveries[m][p].state = "uncertain"
    /\ SetDelivery(m, p, [deliveries[m][p] EXCEPT !.state = "pending"])

Retry(m, p) ==
    /\ deliveries[m][p].state = "uncertain"
    /\ SetDelivery(m, p, [deliveries[m][p] EXCEPT !.state = "pending",
                                                  !.activation = 0])

Resolve(t) ==
    /\ threads[t] # "absent"
    /\ threads' = [threads EXCEPT ![t] = "resolved"]
    /\ deliveries' =
        [m \in MsgIds |-> [p \in Participants |->
            IF m \in DOMAIN messages /\ messages[m].thread = t
            THEN [deliveries[m][p] EXCEPT
                    !.obligation = IF @ = "open" THEN "resolved" ELSE @,
                    !.state = IF @ = "pending" THEN "cancelled" ELSE @]
            ELSE deliveries[m][p]]]
    /\ UNCHANGED <<memberVars, messages, wakeVars>>

\* What cancelling and redirecting share: the row must be settled.
Withdraw(m, p, obligation) ==
    [deliveries[m][p] EXCEPT !.obligation = obligation,
                             !.state = IF @ = "recorded" THEN @ ELSE "cancelled"]

Cancel(m, p) ==
    LET d == deliveries[m][p] IN
    /\ Present(m, p) /\ ~InFlight(d)
    /\ d.obligation \in ActiveObligations
    /\ SetDelivery(m, p, Withdraw(m, p, IF d.obligation = "none" THEN "none"
                                        ELSE "cancelled"))

Redirect(m, p, next) ==
    LET d == deliveries[m][p] IN
    /\ Present(m, p) /\ ~InFlight(d)
    /\ d.obligation \in ActiveObligations
    /\ ThreadOpen(m)
    /\ next # p /\ participants[next].joined /\ ~Present(m, next)
    /\ HasCapacity(1)
    /\ deliveries' =
        [deliveries EXCEPT
            ![m] = [@ EXCEPT
                ![p] = Withdraw(m, p, "redirected"),
                ![next] = [Absent EXCEPT !.state = "pending",
                                         !.obligation = d.obligation,
                                         !.wake = d.wake]]]
    /\ UNCHANGED <<memberVars, threads, messages, wakeVars>>

(***************************************************************************)
(* Manual delivery                                                         *)
(***************************************************************************)
\* Mutant: an uncertain delivery is silently attempted again.
ClaimUncertainToo(w, m) ==
    LET p == w.participant
        d == deliveries[m][p] IN
    /\ Authorized(w) /\ ~PausedFor(p)
    /\ d.state \in {"pending", "uncertain"} /\ d.obligation \in ActiveObligations
    /\ ThreadOpen(m)
    /\ SetDelivery(m, p, [d EXCEPT !.state = "claimed", !.session = w.session,
                                   !.generation = w.generation])

Claim(w, m) ==
    LET p == w.participant
        d == deliveries[m][p] IN
    /\ Authorized(w) /\ ~PausedFor(p)
    /\ d.state = "pending" /\ d.obligation \in ActiveObligations
    /\ ThreadOpen(m)
    /\ SetDelivery(m, p, [d EXCEPT !.state = "claimed", !.session = w.session,
                                   !.generation = w.generation])

\* receipt(): the attempt must belong to the caller's session and, except for
\* a reconciliation, to its connection.
Attempted(w, m) ==
    /\ Authorized(w)
    /\ deliveries[m][w.participant].session = w.session
    /\ deliveries[m][w.participant].state \in {"claimed", "queued", "uncertain"}
CurrentAttempt(w, m) ==
    /\ Attempted(w, m)
    /\ deliveries[m][w.participant].generation = w.generation

MoveTo(w, m, state) ==
    SetDelivery(m, w.participant,
                [deliveries[m][w.participant] EXCEPT !.state = state])

Queue(w, m) ==
    /\ CurrentAttempt(w, m) /\ deliveries[m][w.participant].state # "uncertain"
    /\ MoveTo(w, m, "queued")
Receipt(w, m)   == CurrentAttempt(w, m) /\ MoveTo(w, m, "recorded")
Uncertain(w, m) == CurrentAttempt(w, m) /\ MoveTo(w, m, "uncertain")
Reconcile(w, m) == Attempted(w, m) /\ MoveTo(w, m, "recorded")

(***************************************************************************)
(* Automatic activations                                                   *)
(***************************************************************************)
RoomUsed ==
    Cardinality({a \in DOMAIN activations :
                    a > aged /\ activations[a].state # "cancelled"})

Candidates(p) ==
    {m \in DOMAIN messages :
        LET d == deliveries[m][p] IN
        /\ d.state = "pending" /\ d.activation = 0 /\ d.wake
        /\ d.obligation \in ActiveObligations
        /\ ThreadOpen(m)}

\* The oldest MAX_AUTO_BATCH candidates.
Batch(p) ==
    {m \in Candidates(p) : Cardinality({n \in Candidates(p) : n < m}) < MaxBatch}

Reservable(w) ==
    LET p == w.participant IN
    /\ Authorized(w) /\ ~PausedFor(p)
    /\ RoomUsed < WakeLimit
    /\ ~HasLiveActivation(p)
    /\ Batch(p) # {} /\ Len(activations) < MaxActivations

AutoReserve(w) ==
    LET p == w.participant
        a == Len(activations) + 1
        batch == Batch(p) IN
    /\ Reservable(w)
    /\ activations' = Append(activations,
            [participant |-> p, session |-> w.session,
             generation |-> w.generation, state |-> "reserved"])
    /\ deliveries' =
        [m \in MsgIds |-> [r \in Participants |->
            IF m \in batch /\ r = p
            THEN [deliveries[m][r] EXCEPT
                    !.state = "claimed", !.activation = a,
                    !.session = w.session, !.generation = w.generation]
            ELSE deliveries[m][r]]]
    /\ UNCHANGED <<memberVars, threads, messages, aged>>

\* An activation is looked up by member and session.
Own(w, a) ==
    /\ Authorized(w)
    /\ activations[a].participant = w.participant
    /\ activations[a].session = w.session

\* Every operation but auto-finish also demands the connection's generation.
OwnCurrent(w, a) == Own(w, a) /\ activations[a].generation = w.generation

\* Mutant: a refund takes back every row of the activation.
RefundEverything(ds, a) ==
    /\ activations' = [activations EXCEPT ![a].state = "cancelled"]
    /\ deliveries' =
        [m \in MsgIds |-> [p \in Participants |->
            IF ds[m][p].activation = a
            THEN [ds[m][p] EXCEPT !.state = "pending", !.activation = 0,
                                  !.session = NoSession, !.generation = 0]
            ELSE ds[m][p]]]
    /\ UNCHANGED <<memberVars, threads, messages, aged>>

\* Mutant: a refund does not look at what was closed meanwhile.
RefundUnchecked(ds, a) ==
    /\ activations' = [activations EXCEPT ![a].state = "cancelled"]
    /\ deliveries' =
        [m \in MsgIds |-> [p \in Participants |->
            IF ds[m][p].activation = a /\ InFlight(ds[m][p])
            THEN [ds[m][p] EXCEPT !.state = "pending", !.activation = 0,
                                  !.session = NoSession, !.generation = 0]
            ELSE ds[m][p]]]
    /\ UNCHANGED <<memberVars, threads, messages, aged>>

\* AutomationStore.cancel: what was never inserted goes back to the mailbox,
\* unless it was closed meanwhile.  ds are the rows the caller has updated.
Refund(ds, a) ==
    /\ activations' = [activations EXCEPT ![a].state = "cancelled"]
    /\ deliveries' =
        [m \in MsgIds |-> [p \in Participants |->
            LET d == ds[m][p] IN
            IF d.activation = a /\ InFlight(d)
            THEN [d EXCEPT !.state = IF /\ d.obligation \in ActiveObligations
                                        /\ ThreadOpen(m)
                                     THEN "pending" ELSE "cancelled",
                           !.activation = 0, !.session = NoSession,
                           !.generation = 0]
            ELSE d]]
    /\ UNCHANGED <<memberVars, threads, messages, aged>>

AutoCancel(w, a) ==
    /\ OwnCurrent(w, a) /\ IsLive(a)
    /\ Refund(deliveries, a)

\* Mutant: the final check forgets that a request can be answered meanwhile.
ObsoleteUnlessAnswered(a) ==
    \E m \in DOMAIN messages, p \in Participants :
        /\ deliveries[m][p].activation = a
        /\ \/ deliveries[m][p].state # "claimed"
           \/ ~ThreadOpen(m)

\* The final check before insertion: paused, no longer claimed, or closed.
Obsolete(a) ==
    \E m \in DOMAIN messages, p \in Participants :
        /\ deliveries[m][p].activation = a
        /\ \/ deliveries[m][p].state # "claimed"
           \/ deliveries[m][p].obligation \notin ActiveObligations
           \/ ~ThreadOpen(m)

AutoDispatch(w, a) ==
    /\ OwnCurrent(w, a) /\ activations[a].state = "reserved"
    /\ IF PausedFor(w.participant) \/ Obsolete(a)
       THEN Refund(deliveries, a)
       ELSE /\ activations' = [activations EXCEPT ![a].state = "dispatched"]
            /\ deliveries' =
                [m \in MsgIds |-> [p \in Participants |->
                    IF deliveries[m][p].activation = a
                    THEN [deliveries[m][p] EXCEPT !.state = "queued"]
                    ELSE deliveries[m][p]]]
            /\ UNCHANGED <<memberVars, threads, messages, aged>>

\* The rows after evidence that the messages E of activation a are recorded.
RecordedBy(a, E) ==
    [m \in MsgIds |-> [p \in Participants |->
        IF m \in E /\ deliveries[m][p].activation = a
        THEN [deliveries[m][p] EXCEPT !.state = "recorded"]
        ELSE deliveries[m][p]]]

AutoReconcile(w, a, E) ==
    /\ OwnCurrent(w, a) /\ activations[a].state = "reserved"
    /\ E # {} /\ Cardinality(E) <= MaxBatch
    /\ \A m \in E : /\ deliveries[m][w.participant].activation = a
                    /\ deliveries[m][w.participant].state = "claimed"
    /\ Refund(RecordedBy(a, E), a)

\* Mutant: a run that was cancelled and refunded can still be finished.
AutoFinishCancelled(w, a, complete, E) ==
    /\ Own(w, a) /\ activations[a].state # "settled"
    /\ deliveries' = RecordedBy(a, E)
    /\ activations' = [activations EXCEPT ![a].state =
                        IF complete THEN "settled" ELSE "uncertain"]
    /\ participants' = [participants EXCEPT ![w.participant].paused = @ \/ ~complete]
    /\ UNCHANGED <<roomPaused, actors, threads, messages, aged>>

\* Accepted from a later connection of the same session, and for an
\* activation that was interrupted meanwhile.
AutoFinish(w, a, complete, E) ==
    LET recorded == RecordedBy(a, E)
        final == [m \in MsgIds |-> [p \in Participants |->
                    IF recorded[m][p].activation = a /\ InFlight(recorded[m][p])
                    THEN [recorded[m][p] EXCEPT !.state = "uncertain"]
                    ELSE recorded[m][p]]]
        missing == \E m \in MsgIds, p \in Participants :
                    final[m][p].activation = a /\ final[m][p].state # "recorded" IN
    /\ Own(w, a) /\ activations[a].state \notin {"cancelled", "settled"}
    /\ Cardinality(E) <= MaxBatch
    /\ deliveries' = final
    /\ activations' = [activations EXCEPT ![a].state =
                        IF missing \/ ~complete THEN "uncertain" ELSE "settled"]
    /\ participants' = [participants EXCEPT ![w.participant].paused = @ \/ ~complete]
    /\ UNCHANGED <<roomPaused, actors, threads, messages, aged>>

\* The oldest activation's created_at leaves the rolling WAKE_WINDOW_MS.
WindowSlides ==
    /\ aged < Len(activations)
    /\ aged' = aged + 1
    /\ UNCHANGED <<memberVars, mailVars, activations>>

(***************************************************************************)
(* Specification                                                           *)
(***************************************************************************)
Init ==
    /\ participants = [p \in Participants |->
            [joined |-> FALSE, paused |-> FALSE, session |-> NoSession,
             generation |-> 0, link |-> "none"]]
    /\ roomPaused = FALSE
    /\ actors = {}
    /\ threads = [t \in Threads |-> "absent"]
    /\ messages = <<>>
    /\ deliveries = [m \in MsgIds |-> [p \in Participants |-> Absent]]
    /\ activations = <<>>
    /\ aged = 0

Membership ==
    \/ \E p \in Participants :
        \/ \E s \in Sessions : Join(p, s) \/ Rejoin(p, s)
        \/ Connect(p)
        \/ LeaseLapse(p)
        \/ Leave(p)
        \/ \E b \in BOOLEAN : Pause(p, b)
    \/ \E w \in actors : Disconnect(w)
    \/ \E b \in BOOLEAN : PauseRoom(b)
    \/ Expire
    \/ BrokerRestart

Mail ==
    \/ \E w \in actors, R \in SUBSET Participants, type \in MessageTypes,
          t \in Threads, q \in 0..Len(messages), k \in Keys :
            Send(w, R, type, t, q, k)
    \/ \E m \in DOMAIN messages, p \in Participants :
        \/ \E k \in Keys : Answer(m, p, k)
        \/ Retry(m, p)
        \/ Cancel(m, p)
        \/ \E next \in Participants : Redirect(m, p, next)
    \/ \E t \in Threads : Resolve(t)
    \/ \E w \in actors, m \in DOMAIN messages :
        Claim(w, m) \/ Queue(w, m) \/ Receipt(w, m) \/ Uncertain(w, m) \/ Reconcile(w, m)

Automation ==
    \/ \E w \in actors :
        \/ AutoReserve(w)
        \/ \E a \in DOMAIN activations :
            \/ AutoCancel(w, a)
            \/ AutoDispatch(w, a)
            \/ \E E \in SUBSET DOMAIN messages :
                \/ AutoReconcile(w, a, E)
                \/ \E complete \in BOOLEAN : AutoFinish(w, a, complete, E)
    \/ WindowSlides

Next == Membership \/ Mail \/ Automation

Spec == Init /\ [][Next]_vars

(***************************************************************************)
(* Properties                                                              *)
(***************************************************************************)
TypeOK ==
    /\ participants \in [Participants -> ParticipantRow]
    /\ roomPaused \in BOOLEAN
    /\ actors \subseteq WorkerActor
    /\ threads \in [Threads -> {"absent", "open", "resolved"}]
    /\ messages \in Seq(Message) /\ Len(messages) <= MaxMessages
    /\ deliveries \in [MsgIds -> [Participants -> Delivery]]
    /\ activations \in Seq(Activation) /\ Len(activations) <= MaxActivations
    /\ aged \in 0..Len(activations)

\* A delivery in flight belongs to its recipient's present connection: however
\* a connection ends (close, lease, rejoin, leave, restart), nothing stays
\* claimed or queued for a connection that can no longer report on it.
InFlightOwned ==
    \A m \in MsgIds, p \in Participants :
        InFlight(deliveries[m][p]) =>
            /\ participants[p].link # "none" /\ participants[p].joined
            /\ deliveries[m][p].generation = participants[p].generation
            /\ deliveries[m][p].session = participants[p].session

\* A member has at most one reserved or dispatched activation, and it belongs
\* to the member's present connection: an old run can never be finished by
\* mistake while a new one wakes the model.
LiveActivationOwned ==
    \A a \in DOMAIN activations : IsLive(a) =>
        LET act == activations[a]
            row == participants[act.participant] IN
        /\ row.link # "none" /\ row.joined
        /\ act.generation = row.generation
        /\ act.session = row.session
        /\ \A b \in DOMAIN activations :
              IsLive(b) /\ activations[b].participant = act.participant => b = a

\* An automatic claim never outlives its activation, and a pending delivery
\* never keeps the id of one (it could then never be reserved again).
ClaimsHaveLiveActivation ==
    \A m \in MsgIds, p \in Participants :
        LET d == deliveries[m][p] IN
        /\ d.state = "pending" => d.activation = 0
        /\ InFlight(d) /\ d.activation # 0 =>
             /\ d.activation \in DOMAIN activations
             /\ IsLive(d.activation)
             /\ activations[d.activation].participant = p

\* A settled run has proof of recording for every message that still counts
\* as its own.
SettledIsProven ==
    \A a \in DOMAIN activations : activations[a].state = "settled" =>
        \A m \in MsgIds, p \in Participants :
            deliveries[m][p].activation = a => deliveries[m][p].state = "recorded"

\* The room never has more charged activations in the window than
\* ROOM_WAKE_LIMIT, whatever is refunded, interrupted or finished late.
BudgetNeverExceeded == RoomUsed <= WakeLimit

\* Accepted work never exceeds the bounded queue: no retry, refund, redirect
\* or late report brings a delivery back into a full queue.
QueueBounded == Cardinality(Occupying) <= QueueLimit

\* Every answered request has a reply to show for it, written by the
\* recipient or by the human for that recipient.
AnswersShown ==
    \A q \in DOMAIN messages, p \in Participants :
        deliveries[q][p].obligation = "answered" =>
            \E m \in DOMAIN messages :
                /\ messages[m].replyTo = q /\ messages[m].type = "reply"
                /\ IF messages[m].human THEN Present(m, p)
                   ELSE messages[m].sender = p

\* A member's reply was asked of it, and leaves nothing open.
RepliesClose ==
    \A m \in DOMAIN messages :
        messages[m].type = "reply" /\ ~messages[m].human =>
            LET d == deliveries[messages[m].replyTo][messages[m].sender] IN
            d.state # "absent" /\ d.obligation # "open"

\* Whoever answers first, the human or the recipient, closes the request with
\* the reply that is stored, and no redirect or resolution parts the two: what
\* is answered has a reply to show, and what is replied to is not open.
AnsweredHasReply == AnswersShown /\ RepliesClose

\* Replies cannot keep two agents waking each other: the replies to a message
\* that may wake its sender never outnumber the requests they answered.
WakingReplies(q) ==
    {mp \in (DOMAIN messages) \X Participants :
        /\ messages[mp[1]].replyTo = q /\ messages[mp[1]].type = "reply"
        /\ deliveries[mp[1]][mp[2]].wake
        /\ deliveries[mp[1]][mp[2]].obligation # "redirected"}
RepliesDoNotPingPong ==
    \A q \in DOMAIN messages :
        Cardinality(WakingReplies(q)) <=
            Cardinality({p \in Participants : deliveries[q][p].obligation = "answered"})

\* Uncertain work returns to the mailbox only by a human retry, and what is
\* recorded is never offered again.
NoSilentReplay ==
    [][\A m \in MsgIds, p \in Participants :
        /\ deliveries[m][p].state = "recorded" => deliveries'[m][p].state = "recorded"
        /\ deliveries[m][p].state = "uncertain" /\ deliveries'[m][p].state \in
             {"pending", "claimed", "queued"} => Retry(m, p)]_vars

\* The last check before insertion: a run is dispatched only while its member
\* is not paused and every message of the batch is still wanted, whatever
\* happened since the reservation.
DispatchRevalidates ==
    [][\A a \in DOMAIN activations :
        activations[a].state = "reserved" /\ activations'[a].state = "dispatched" =>
            /\ ~PausedFor(activations[a].participant)
            /\ \A m \in MsgIds, p \in Participants :
                 deliveries[m][p].activation = a =>
                    /\ deliveries[m][p].obligation \in ActiveObligations
                    /\ ThreadOpen(m) /\ deliveries'[m][p].state = "queued"]_vars

\* A live activation that becomes uncertain leaves its member paused, so that
\* nothing wakes it again before a human has looked; the one exception is a
\* report of a complete run with a recording missing, which the store trusts
\* the host to have downgraded.
InterruptionPauses ==
    [][\A a \in DOMAIN activations :
        IsLive(a) /\ activations'[a].state = "uncertain" =>
            \/ participants'[activations[a].participant].paused
            \/ \E w \in actors, E \in SUBSET DOMAIN messages :
                 AutoFinish(w, a, TRUE, E)]_vars

\* A delivery is recorded only by the session it was attempted in: another
\* session bound to the same member has no evidence to give.
EvidenceFromAttemptSession ==
    [][\A m \in MsgIds, p \in Participants :
        deliveries[m][p].state # "recorded" /\ deliveries'[m][p].state = "recorded" =>
            deliveries[m][p].session = participants[p].session]_vars

\* Work that an answer, a resolution or a cancellation made obsolete is swept
\* from the mailbox in the same step, whatever state a refund, an interruption
\* or a redirect left it in.  Only a human retry brings obsolete work back, and
\* what it brings back is never offered: it waits until it is cancelled.
WantedPending(m, p) ==
    deliveries[m][p].state = "pending" =>
        deliveries[m][p].obligation \in ActiveObligations /\ ThreadOpen(m)
ObsoletePendingOnlyByRetry ==
    [][\A m \in DOMAIN messages, p \in Participants :
        IF WantedPending(m, p) THEN WantedPending(m, p)' \/ Retry(m, p)
        ELSE deliveries'[m][p].state \in {"pending", "cancelled"}]_vars

=============================================================================
