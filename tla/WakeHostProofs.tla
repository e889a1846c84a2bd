---------------------------- MODULE WakeHostProofs ----------------------------
(***************************************************************************)
(* TLAPS proofs about WakeHost, the host of automatic delivery and its     *)
(* broker: every step is a step of the store, what the broker counts as    *)
(* recorded is in the session file, nothing is repeated without a retry,   *)
(* nothing wakes the session after a doubtful run before the human has     *)
(* looked, and host and broker together keep WakeContract.  So all that is *)
(* proved of the store's steps, and the contract's promise, hold here too. *)
(*                                                                         *)
(* The argument follows the last activation.  While the host carries a     *)
(* batch, waits for an answer or has a turn to report, or a call it gave   *)
(* up may still be served, what it carries is the last activation of the   *)
(* ledger: a reservation needs the pump to be free, and a call given up    *)
(* can be served only until the next connection.  So a refund concerns a   *)
(* batch that was not inserted, a report one that was or that is reported  *)
(* as doubtful, and older activations do not change any more.              *)
(***************************************************************************)
EXTENDS WakeHost, TeamStoreEvidence, TeamStoreLimits

(***************************************************************************)
(* The invariant                                                           *)
(***************************************************************************)
ConnectionRows == [participant : {Worker}, session : Sessions \cup {NoSession},
                   generation : 0..MaxGeneration]
Batches == [id : Nat, messages : SUBSET MsgIds]
Requests ==
    [op : {"none", "auto-reserve", "auto-cancel", "auto-dispatch", "auto-reconcile",
           "auto-finish"},
     by : ConnectionRows, id : Nat, entries : SUBSET MsgIds, complete : BOOLEAN]

HostType ==
    /\ client \in ConnectionRows /\ transport \in ConnectionRows
    /\ recovery \in [at : {"none", "reading", "confirming"}, message : 0..MaxMessages]
    /\ recovery.at # "none" => recovery.message \in DOMAIN messages
    /\ pump \in {"idle", "reserving", "reading", "reconciling", "dispatching",
                 "cancelling", "giving up", "finishing"}
    /\ batch \in Batches /\ active \in Batches
    /\ finish \in [at : {"none", "reading", "reporting"}, complete : BOOLEAN]
    /\ request \in Requests /\ orphan \in Requests
    /\ answer \in {"none", "ok", "nothing", "error"}
    /\ transcript \in Seq(Batches) /\ persisted \subseteq MsgIds
    /\ retried \subseteq MsgIds

\* The row of the worker, its rows, and the last activation.
Member == participants[Worker]
Row(m) == deliveries[m][Worker]
Latest == Len(activations)
StateOf(a) == activations[a].state

Woken == {transcript[i].id : i \in DOMAIN transcript}
Inserted == UNION {transcript[i].messages : i \in DOMAIN transcript}

\* The connection the runtime holds is the last one the broker opened; an
\* answer other than a failure came on it, and a call that was given up can be
\* served only while there is none.
Link ==
    /\ client # Offline => client.generation = Member.generation
    /\ request # NoRequest /\ answer # "error" => client # Offline /\ request.by = client
    /\ orphan # NoRequest =>
        /\ orphan.by.generation <= Member.generation
        /\ orphan.by.generation = Member.generation => client = Offline

\* What the pump and finish await.
Stage ==
    /\ pump = "reserving" => request.op = "auto-reserve"
    /\ pump = "reconciling" => request.op = "auto-reconcile"
    /\ pump = "dispatching" => request.op = "auto-dispatch"
    /\ pump \in {"cancelling", "giving up"} => request.op = "auto-cancel"
    /\ pump = "reading" => request = NoRequest
    /\ pump \in {"idle", "finishing"} /\ finish.at # "reporting" => request = NoRequest
    /\ finish.at = "reporting" => request.op = "auto-finish"
    /\ request.op = "none" => request = NoRequest
    /\ pump \notin {"idle", "finishing"} => transport # Offline
    /\ pump \in {"reconciling", "dispatching", "cancelling", "giving up"} =>
        request.id = batch.id
    /\ finish.at = "reporting" =>
        /\ request.id = active.id
        /\ request.complete => finish.complete /\ active.messages \subseteq request.entries
    /\ active # NoBatch => pump \in {"idle", "finishing"}
    /\ finish # NoFinish => active # NoBatch
    /\ pump = "finishing" => finish # NoFinish
    /\ finish.at = "none" => finish = NoFinish

\* The pump carries a batch it has reserved and not inserted.
Carrying == pump \in {"reading", "reconciling", "dispatching", "cancelling", "giving up"}
ReservedAnswered == pump = "reserving" /\ answer = "ok"

\* Activation a with messages M is the last, and was not inserted.
Fresh(a, M) ==
    /\ a = Latest /\ a # 0 /\ a \notin Woken
    /\ M \subseteq DOMAIN messages /\ M \cap Inserted \subseteq retried
    /\ \A m \in MsgIds : Row(m).activation = a => m \in M
    /\ StateOf(a) = "reserved" =>
        \A m \in M : Row(m).activation = a /\ Row(m).state \in {"claimed", "recorded"}

\* What was inserted may be anywhere but in the mailbox, and is in flight only
\* by an activation that was woken.
PastMailbox(d) == d.state \in {"queued", "uncertain", "recorded", "cancelled"}

CarriesLatest ==
    /\ Carrying => Fresh(batch.id, batch.messages)
    /\ ReservedAnswered => Fresh(request.id, request.entries)
    /\ pump = "dispatching" =>
        /\ recovery.at # "confirming"
        /\ answer = "ok" =>
            /\ StateOf(batch.id) \in {"dispatched", "uncertain"}
            /\ \A m \in batch.messages :
                /\ PastMailbox(Row(m))
                /\ Row(m).state = "queued" => Row(m).activation = batch.id

\* The turn the host waits for is of the last activation, and unless it was
\* inserted its outcome will be reported as doubtful.
Submitted ==
    active # NoBatch =>
        /\ active.id = Latest /\ active.id # 0
        /\ StateOf(active.id) \notin {"reserved", "cancelled"}
        /\ active.id \in Woken \/ (finish # NoFinish /\ ~finish.complete)
        /\ \A m \in MsgIds : Row(m).activation = active.id => m \in active.messages

\* A call that was given up and may be served concerns the last activation.
Sound(r) ==
    /\ r.op \in {"auto-cancel", "auto-dispatch", "auto-reconcile"} =>
        r.id = Latest /\ r.id # 0 /\ r.id \notin Woken
    /\ r.op = "auto-finish" =>
        /\ r.id = Latest /\ r.id # 0 /\ StateOf(r.id) \notin {"reserved", "cancelled"}
        /\ r.complete =>
            /\ r.id \in Woken
            /\ \A m \in MsgIds : Row(m).activation = r.id => m \in r.entries
    /\ r.op = "auto-reserve" => pump \in {"idle", "reserving"}
    /\ r.op # "auto-finish" => active = NoBatch

OrphanSound ==
    orphan # NoRequest /\ orphan.by.generation = Member.generation => Sound(orphan)

\* The ledger is the worker's: only its last activation is live, only it can
\* be doubtful and not reviewed, and then its member is paused.
Ledger ==
    /\ \A a \in DOMAIN activations :
        /\ activations[a].participant = Worker
        /\ IsLive(a) => a = Latest
        /\ StateOf(a) = "uncertain" => a \in reviewed \/ (a = Latest /\ Member.paused)
    /\ \A a \in Woken : a \in DOMAIN activations /\ StateOf(a) \notin {"reserved", "cancelled"}

\* What was inserted and not retried does not return to the mailbox.
NoReturn ==
    /\ Inserted \subseteq DOMAIN messages /\ persisted \subseteq Inserted
    /\ \A m \in Inserted \ retried :
        /\ PastMailbox(Row(m))
        /\ Row(m).state = "queued" => Row(m).activation \in Woken

\* Recordings, and what may lead to one, rest on the session file.
Evidence ==
    /\ RecordedIsPersisted
    /\ request.op \in {"auto-reconcile", "auto-finish"} => request.entries \subseteq persisted
    /\ orphan.op \in {"auto-reconcile", "auto-finish"} => orphan.entries \subseteq persisted

HInv == /\ EInv /\ HostType /\ Link /\ Stage /\ CarriesLatest /\ Submitted
        /\ OrphanSound /\ Ledger /\ NoReturn /\ Evidence

(***************************************************************************)
(* Every step of the host and its broker is a step of the store            *)
(***************************************************************************)
\* What is served belongs to the caller, or changes nothing.
LEMMA HandledIsAutomation ==
    ASSUME HInv, NEW r \in Requests, NEW reply, Handle(r, reply), r.by \in actors,
           r.id \in DOMAIN activations \/ r.op = "auto-reserve",
           r.entries \subseteq DOMAIN messages \/ r.op \notin {"auto-reconcile", "auto-finish"}
    PROVE  Automation \/ UNCHANGED vars
<1>1. \/ UNCHANGED vars
      \/ AutoReserve(r.by)
      \/ /\ r.id \in DOMAIN activations
         /\ \/ AutoCancel(r.by, r.id) \/ AutoDispatch(r.by, r.id)
            \/ /\ r.entries \in SUBSET DOMAIN messages
               /\ \/ AutoReconcile(r.by, r.id, r.entries)
                  \/ AutoFinish(r.by, r.id, r.complete, r.entries)
  BY DEF Handle
<1>2. r.complete \in BOOLEAN
  BY DEF Requests
<1> QED BY <1>1, <1>2 DEF Automation

\* A call of a connection that is no longer the member's is refused.
LEMMA DeadIsRefused ==
    ASSUME NEW r \in Requests, NEW reply, Handle(r, reply),
           r.by.generation # Member.generation
    PROVE  UNCHANGED vars
<1>1. r.by.participant = Worker
  BY DEF Requests, ConnectionRows
<1>2. ~Authorized(r.by)
  BY <1>1 DEF Authorized, Member
<1> QED BY <1>2 DEF Handle, AutoReserve, Reservable, AutoCancel, AutoDispatch, AutoReconcile,
              AutoFinish, OwnCurrent, Own

\* What the host awaits is in order.
LEMMA AwaitedSound ==
    ASSUME HInv, Awaiting
    PROVE  Sound(request) /\ request.by = client /\ client # Offline
<1> USE DEF HInv
<1>1. request # NoRequest /\ answer = "none" /\ request.op # "none"
  BY DEF Awaiting, Stage
<1>2. request.by = client /\ client # Offline
  BY <1>1 DEF Link
<1>3. CASE request.op = "auto-reserve"
  <2>1. pump = "reserving" /\ active = NoBatch
    BY <1>1, <1>3 DEF Stage, HostType
  <2> QED BY <1>2, <1>3, <2>1 DEF Sound
<1>4. CASE request.op \in {"auto-cancel", "auto-dispatch", "auto-reconcile"}
  <2>1. Carrying /\ request.id = batch.id /\ active = NoBatch
    BY <1>1, <1>4 DEF Carrying, Stage, HostType
  <2>2. request.id = Latest /\ request.id # 0 /\ request.id \notin Woken
    BY <2>1 DEF CarriesLatest, Fresh
  <2> QED BY <1>2, <1>4, <2>1, <2>2 DEF Sound
<1>5. CASE request.op = "auto-finish"
  <2>1. /\ finish.at = "reporting" /\ active # NoBatch /\ request.id = active.id
        /\ request.complete => finish.complete /\ active.messages \subseteq request.entries
    <3>1. pump \in {"idle", "finishing"}
      BY <1>1, <1>5 DEF Stage, HostType
    <3>2. finish.at = "reporting"
      BY <1>1, <3>1 DEF Stage
    <3>3. finish # NoFinish
      BY <3>2 DEF NoFinish
    <3> QED BY <3>2, <3>3 DEF Stage
  <2> QED BY <1>2, <1>5, <2>1 DEF Submitted, Sound
<1> QED BY <1>1, <1>2, <1>3, <1>4, <1>5 DEF HostType, Requests

\* A served call of the member concerns a run and messages of the ledger.
LEMMA SoundIsKnown ==
    ASSUME HInv, NEW r \in Requests, Sound(r), r.op # "none",
           r.op \in {"auto-reconcile", "auto-finish"} => r.entries \subseteq persisted
    PROVE  /\ r.op # "auto-reserve" => r.id = Latest /\ r.id \in DOMAIN activations
           /\ r.op \in {"auto-reconcile", "auto-finish"} => r.entries \subseteq DOMAIN messages
<1>1. Latest \in Nat /\ DOMAIN activations = 1..Latest
  BY DEF HInv, EInv, IInv, TypeOK, Latest
<1>2. r.op # "auto-reserve" => r.id = Latest /\ r.id # 0
  BY DEF Sound, Requests
<1>3. persisted \subseteq DOMAIN messages
  BY DEF HInv, NoReturn
<1> QED BY <1>1, <1>2, <1>3

\* Whatever is served, the store makes one of its own steps.
LEMMA ServedIsStore ==
    ASSUME HInv, NEW r \in Requests, NEW reply, Handle(r, reply), r.by \in actors,
           r.op # "none", r.by.generation = Member.generation => Sound(r),
           r.op \in {"auto-reconcile", "auto-finish"} => r.entries \subseteq persisted
    PROVE  Automation \/ UNCHANGED vars
BY DeadIsRefused, SoundIsKnown, HandledIsAutomation

\* The steps that leave the broker alone.
HostOnly ==
    \/ TimerFires \/ Reserved \/ EvidenceRead \/ EvidenceFails \/ Abandoned \/ CallFailed
    \/ TooLate \/ Insert \/ InsertThrows
    \/ AgentStarts \/ (\E complete \in BOOLEAN : AgentSettles(complete))
    \/ WatchdogFires \/ FinishReads \/ FinishReturns \/ EntryPersisted
    \/ StartRecovery \/ RecoveryEnds \/ Refresh \/ Drop \/ Reload
    \/ (\E paused \in BOOLEAN : Command(paused)) \/ ResumeAutomatic \/ CommandFails

\* The host's own steps touch none of the broker's state.
LEMMA HostOnlyKeepsStore == HostOnly => UNCHANGED vars
<1>1. ASSUME TimerFires \/ Insert \/ InsertThrows \/ AgentStarts \/ WatchdogFires
      PROVE  UNCHANGED vars
  BY <1>1 DEF TimerFires, Insert, InsertThrows, AgentStarts, WatchdogFires
<1>2. ASSUME Reserved \/ EvidenceRead \/ EvidenceFails \/ Abandoned \/ CallFailed \/ TooLate
      PROVE  UNCHANGED vars
  BY <1>2 DEF Reserved, EvidenceRead, EvidenceFails, Abandoned, CallFailed, TooLate, pumpKeeps
<1>3. ASSUME \/ \E complete \in BOOLEAN : AgentSettles(complete)
             \/ FinishReads \/ FinishReturns \/ EntryPersisted
      PROVE  UNCHANGED vars
  BY <1>3 DEF AgentSettles, FinishReads, FinishReturns, EntryPersisted
<1>4. ASSUME StartRecovery \/ RecoveryEnds \/ Refresh \/ Drop \/ Reload
      PROVE  UNCHANGED vars
  BY <1>4 DEF StartRecovery, RecoveryEnds, Refresh, Drop, Reload
<1>5. ASSUME (\E paused \in BOOLEAN : Command(paused)) \/ ResumeAutomatic \/ CommandFails
      PROVE  UNCHANGED vars
  BY <1>5 DEF Command, ResumeAutomatic, CommandFails
<1> QED BY <1>1, <1>2, <1>3, <1>4, <1>5 DEF HostOnly

\* The steps of connections, members and the human that change the broker.
BrokerSide ==
    \/ RecoveryReads \/ RecoveryConfirmed
    \/ Reconnect \/ (\E w \in actors : SocketCloses(w)) \/ BrokerStops \/ LeaseEnds
    \/ Ask \/ Close \/ PauseLocal \/ ResumeLocal

\* A step is the host's own, the broker's side, or a call that is served.
LEMMA HostNextSplits == HostNext => HostOnly \/ BrokerSide \/ Serve \/ ServeOrphan
BY DEF HostNext, Host, Environment, HostOnly, BrokerSide

\* Connections, members and the human move the store by its operations.
LEMMA BrokerSideIsStore ==
    ASSUME HInv, BrokerSide PROVE Next \/ UNCHANGED vars
<1> USE RolesAssumption
<1>1. ASSUME RecoveryReads PROVE Next \/ UNCHANGED vars
  <2>1. persisted \subseteq DOMAIN messages
    BY DEF HInv, NoReturn
  <2> QED BY <1>1, <2>1 DEF RecoveryReads, Authorized, Next, Mail
<1>2. ASSUME RecoveryConfirmed PROVE Next
  <2>1. recovery.message \in DOMAIN messages
    BY <1>2 DEF RecoveryConfirmed, HInv, HostType
  <2> QED BY <1>2, <2>1 DEF RecoveryConfirmed, Next, Mail
<1>3. ASSUME Reconnect \/ (\E w \in actors : SocketCloses(w)) \/ BrokerStops \/ LeaseEnds
      PROVE  Next
  BY <1>3 DEF Reconnect, SocketCloses, BrokerStops, LeaseEnds, Next, Membership
<1>4. ASSUME Ask PROVE Next
  <2>1. {Worker} \in SUBSET Participants /\ "question" \in MessageTypes
    BY DEF MessageTypes
  <2>2. 0 \in 0..Len(messages)
    BY DEF HInv, EInv, IInv, TypeOK
  <2> QED BY <1>4, <2>1, <2>2 DEF Ask, Next, Mail
<1>5. ASSUME Close PROVE Next
  BY <1>5 DEF Close, Next, Mail
<1>6. ASSUME PauseLocal \/ ResumeLocal PROVE Next
  BY <1>6 DEF PauseLocal, ResumeLocal, Next, Membership
<1> QED BY <1>1, <1>2, <1>3, <1>4, <1>5, <1>6 DEF BrokerSide

\* Every step of the host and its broker is a step of the store, or leaves it
\* alone.
LEMMA HostIsStore ==
    ASSUME HInv, [HostNext]_wakeHostVars PROVE [Next]_vars
<1>1. ASSUME Serve PROVE [Next]_vars
  <2>1. Awaiting /\ request.by \in actors /\ \E reply : Handle(request, reply)
    BY <1>1 DEF Serve
  <2>2. request \in Requests /\ request.op # "none"
    BY <2>1 DEF HInv, HostType, Stage, Awaiting
  <2> QED BY <2>1, <2>2, AwaitedSound, ServedIsStore DEF HInv, Evidence, Next
<1>2. ASSUME ServeOrphan PROVE [Next]_vars
  <2>1. orphan # NoRequest /\ orphan.by \in actors /\ \E reply : Handle(orphan, reply)
    BY <1>2 DEF ServeOrphan
  <2>2. orphan \in Requests /\ orphan.op # "none"
    BY <2>1 DEF HInv, HostType, Handle
  <2> QED BY <2>1, <2>2, ServedIsStore DEF HInv, Evidence, OrphanSound, Next
<1>3. UNCHANGED wakeHostVars => UNCHANGED vars
  BY DEF wakeHostVars
<1> QED BY <1>1, <1>2, <1>3, HostNextSplits, HostOnlyKeepsStore, BrokerSideIsStore

(***************************************************************************)
(* Types                                                                   *)
(***************************************************************************)
\* The values that stand for nothing have their types.
LEMMA Constants ==
    /\ Offline \in ConnectionRows /\ NoBatch \in Batches /\ NoRequest \in Requests
    /\ NoFinish \in [at : {"none", "reading", "reporting"}, complete : BOOLEAN]
    /\ NoRecovery \in [at : {"none", "reading", "confirming"}, message : 0..MaxMessages]
    /\ NoRequest.op = "none" /\ NoFinish.at = "none" /\ NoRecovery.at = "none"
    /\ Offline.generation = 0 /\ NoRequest.by = Offline /\ NoBatch.id = 0
BY BoundsAssumption DEF Offline, ConnectionRows, NoBatch, Batches, NoRequest, Requests,
   NoFinish, NoRecovery

\* The reservation the timer asks for.
LEMMA ReservationTyped ==
    ASSUME NEW w \in ConnectionRows, NEW r,
           r = [NoRequest EXCEPT !.op = "auto-reserve", !.by = w]
    PROVE  r \in Requests /\ r.op = "auto-reserve" /\ r.by = w
BY DEF NoRequest, Requests

\* What finish remembers is of its type, whichever outcome it was given.
LEMMA FinishTypedAs ==
    ASSUME NEW at \in {"reading", "reporting"}, NEW c \in BOOLEAN
    PROVE  [at |-> at, complete |-> c] \in
                [at : {"none", "reading", "reporting"}, complete : BOOLEAN]
OBVIOUS

\* A call the host starts is a request of its connection.
LEMMA CallTyped ==
    ASSUME NEW op \in {"auto-cancel", "auto-dispatch", "auto-reconcile"},
           NEW by \in ConnectionRows, NEW id \in Nat, NEW entries \in SUBSET MsgIds,
           Call(op, by, id, entries, FALSE)
    PROVE  /\ request' \in Requests /\ answer' \in {"none", "error"}
           /\ request'.op = op /\ request'.by = by /\ request'.id = id
           /\ request'.entries = entries /\ request' # NoRequest
           /\ answer' # "error" => by = client
BY Constants DEF Call, Requests

\* The pump's steps keep the types.
LEMMA PumpTyped ==
    ASSUME HInv,
           \/ TimerFires \/ Reserved \/ EvidenceRead \/ EvidenceFails \/ Abandoned
           \/ CallFailed \/ TooLate
    PROVE  HostType'
<1> USE Constants
<1>1. HostType
  BY DEF HInv
<1>2. /\ UNCHANGED <<messages, client, recovery, active, finish, orphan, transcript>>
      /\ UNCHANGED <<persisted, retried>>
  BY DEF TimerFires, Reserved, EvidenceRead, EvidenceFails, Abandoned, CallFailed, TooLate,
     pumpKeeps, vars, linkVars, sessionVars, textVars, historyVars
<1> DEFINE Typed == /\ transport' \in ConnectionRows /\ batch' \in Batches
                    /\ request' \in Requests
                    /\ answer' \in {"none", "ok", "nothing", "error"}
                    /\ pump' \in {"idle", "reserving", "reading", "reconciling", "dispatching",
                                  "cancelling", "giving up", "finishing"}
<1>3. ASSUME NEW b \in Batches, NEW at \in {"cancelling", "giving up"}, CancelBatch(b, at)
      PROVE  Typed
  <2>1. transport \in ConnectionRows /\ b.id \in Nat /\ {} \in SUBSET MsgIds
    BY <1>1 DEF HostType, Batches
  <2>2. request' \in Requests /\ answer' \in {"none", "error"}
    BY <1>3, <2>1, CallTyped DEF CancelBatch
  <2> QED BY <1>1, <1>3, <2>2 DEF CancelBatch, HostType
<1>4. ASSUME EndPump, NoCall PROVE Typed
  BY <1>4 DEF EndPump, NoCall
<1>5. ASSUME TimerFires PROVE Typed
  <2>1. CASE Kickable
    <3>1. request' \in Requests
      <4>1. request' = [NoRequest EXCEPT !.op = "auto-reserve", !.by = client]
        BY <1>5, <2>1 DEF TimerFires
      <4>2. client \in ConnectionRows
        BY <1>1 DEF HostType
      <4> QED BY <4>1, <4>2, ReservationTyped
    <3> QED BY <1>1, <1>5, <2>1, <3>1 DEF TimerFires, HostType
  <2>2. CASE ~Kickable
    BY <1>1, <1>5, <2>2 DEF TimerFires, HostType, callVars
  <2> QED BY <2>1, <2>2
<1>6. ASSUME Reserved PROVE Typed
  <2>1. [id |-> request.id, messages |-> request.entries] \in Batches
    BY <1>1 DEF HostType, Requests, Batches
  <2>2. CASE pump' = "reading"
    BY <1>1, <1>6, <2>1, <2>2, <1>3, <1>4 DEF Reserved, HostType, NoCall
  <2> QED BY <1>3, <1>4, <1>6, <2>1, <2>2 DEF Reserved
<1>7. ASSUME EvidenceRead PROVE Typed
  <2>1. /\ batch \in Batches /\ batch.id \in Nat /\ transport \in ConnectionRows
        /\ batch.messages \cap persisted \in SUBSET MsgIds /\ {} \in SUBSET MsgIds
    BY <1>1 DEF HostType, Batches
  <2>2. CASE \E at \in {"cancelling"} : CancelBatch(batch, at)
    BY <1>3, <2>1, <2>2
  <2>3. CASE /\ Call("auto-reconcile", transport, batch.id, batch.messages \cap persisted, FALSE)
             /\ pump' = "reconciling" /\ UNCHANGED <<batch, transport>>
    BY <2>1, <2>3, CallTyped
  <2>4. CASE /\ Call("auto-dispatch", transport, batch.id, {}, FALSE)
             /\ pump' = "dispatching" /\ UNCHANGED <<batch, transport>>
    BY <2>1, <2>4, CallTyped
  <2> QED BY <1>7, <2>2, <2>3, <2>4 DEF EvidenceRead
<1>8. ASSUME EvidenceFails \/ CallFailed \/ TooLate PROVE Typed
  BY <1>1, <1>3, <1>8 DEF EvidenceFails, CallFailed, TooLate, HostType
<1>9. ASSUME Abandoned PROVE Typed
  BY <1>4, <1>9 DEF Abandoned
<1>10. Typed
  BY <1>5, <1>6, <1>7, <1>8, <1>9
<1> HIDE DEF Typed
<1> QED BY <1>1, <1>2, <1>10 DEF HostType, Typed

\* The insertion keeps the types.
LEMMA InsertTyped ==
    ASSUME HInv, Insert \/ InsertThrows
    PROVE  HostType'
<1> USE Constants
<1>1. HostType
  BY DEF HInv
<1>2. /\ batch \in Batches /\ transcript \in Seq(Batches) /\ retried \subseteq MsgIds
  BY <1>1 DEF HostType
<1>3. transcript' \in Seq(Batches) /\ retried' \subseteq MsgIds
  BY <1>2 DEF Insert, InsertThrows, Enter
<1>4. UNCHANGED <<messages, client, recovery, orphan, persisted>> /\ active' = batch
  BY DEF Insert, InsertThrows, vars, linkVars, sessionVars
<1>5. /\ transport' \in ConnectionRows /\ batch' \in Batches /\ request' \in Requests
      /\ pump' \in {"idle", "finishing"} /\ answer' = "none"
  BY <1>1 DEF Insert, InsertThrows, EndPump, NoCall, HostType
<1>6. finish' \in [at : {"none", "reading", "reporting"}, complete : BOOLEAN]
  <2>1. CASE Insert
    BY <1>1, <2>1 DEF Insert, HostType
  <2>2. CASE InsertThrows
    BY <2>2, FinishTypedAs DEF InsertThrows
  <2> QED BY <2>1, <2>2
<1> QED BY <1>1, <1>2, <1>3, <1>4, <1>5, <1>6 DEF HostType

\* The session's turns and finish keep the types.
LEMMA TurnTyped ==
    ASSUME HInv,
           \/ AgentStarts \/ (\E complete \in BOOLEAN : AgentSettles(complete))
           \/ WatchdogFires \/ FinishReads \/ FinishReturns
    PROVE  HostType'
<1> USE Constants
<1>1. HostType
  BY DEF HInv
<1>2. /\ UNCHANGED <<messages, client, recovery, orphan, transcript>>
      /\ UNCHANGED <<persisted, retried>>
  BY DEF AgentStarts, AgentSettles, WatchdogFires, FinishReads, FinishReturns, vars, linkVars,
     sessionVars, textVars, historyVars
<1> DEFINE Finishes == [at : {"none", "reading", "reporting"}, complete : BOOLEAN]
<1>3. ASSUME AgentStarts \/ (\E complete \in BOOLEAN : AgentSettles(complete)) \/ WatchdogFires
      PROVE  finish' \in Finishes /\ UNCHANGED <<pump, transport, batch, active, callVars>>
  <2>1. UNCHANGED <<pump, transport, batch, active, callVars>>
    BY <1>3 DEF AgentStarts, AgentSettles, WatchdogFires
  <2>2. ASSUME NEW c \in BOOLEAN, StartFinish(c) PROVE finish' \in Finishes
    BY <2>2, FinishTypedAs DEF StartFinish
  <2>3. finish' = finish \/ \E c \in BOOLEAN : StartFinish(c)
    BY <1>3 DEF AgentStarts, AgentSettles, WatchdogFires
  <2>4. finish \in Finishes
    BY <1>1 DEF HostType
  <2> QED BY <2>1, <2>2, <2>3, <2>4
<1>4. ASSUME FinishReads PROVE HostType'
  <2>1. PICK found \in SUBSET (active.messages \cap persisted), c \in BOOLEAN :
            /\ finish' = [at |-> "reporting", complete |-> c]
            /\ request' = [op |-> "auto-finish", by |-> client, id |-> active.id,
                           entries |-> found, complete |-> c]
    BY <1>4 DEF FinishReads
  <2>2. found \in SUBSET MsgIds /\ active.id \in Nat /\ client \in ConnectionRows
    BY <1>1 DEF HostType, Batches
  <2>3. request' \in Requests
    BY <2>1, <2>2 DEF Requests
  <2>4. finish' \in Finishes
    BY <2>1, FinishTypedAs
  <2>5. UNCHANGED <<pump, transport, batch, active>> /\ answer' \in {"none", "error"}
    BY <1>4 DEF FinishReads
  <2> HIDE DEF Finishes
  <2> QED BY <1>1, <1>2, <2>3, <2>4, <2>5 DEF HostType, Finishes
<1>5. ASSUME FinishReturns PROVE HostType'
  <2>1. /\ request' = NoRequest /\ answer' = "none" /\ active' = NoBatch
        /\ finish' = NoFinish
        /\ pump' \in {pump, "idle"} /\ transport' \in {transport, Offline}
        /\ batch' \in {batch, NoBatch}
    BY <1>5 DEF FinishReturns, EndPump, NoCall
  <2> QED BY <1>1, <1>2, <2>1 DEF HostType
<1>6. CASE AgentStarts \/ (\E complete \in BOOLEAN : AgentSettles(complete)) \/ WatchdogFires
  <2> HIDE DEF Finishes
  <2> QED BY <1>1, <1>2, <1>3, <1>6 DEF HostType, Finishes, callVars
<1> QED BY <1>4, <1>5, <1>6

\* Loss of the connection, reloads and commands keep the types.
LEMMA OtherHostTyped ==
    ASSUME HInv,
           \/ EntryPersisted \/ StartRecovery \/ RecoveryEnds \/ Refresh \/ Drop \/ Reload
           \/ (\E paused \in BOOLEAN : Command(paused)) \/ ResumeAutomatic \/ CommandFails
    PROVE  HostType'
<1> USE Constants
<1>1. HostType
  BY DEF HInv
<1>2. UNCHANGED <<messages, transcript, retried>>
  BY DEF EntryPersisted, StartRecovery, RecoveryEnds, Refresh, Drop, Reload, Command,
     ResumeAutomatic, CommandFails, vars, textVars, historyVars, recoveryKeeps
<1>3. ASSUME Reload PROVE HostType'
  <2>1. /\ client' = Offline /\ recovery' = NoRecovery /\ pump' = "idle" /\ batch' = NoBatch
        /\ transport' = Offline /\ active' = NoBatch /\ finish' = NoFinish
        /\ request' = NoRequest /\ answer' = "none" /\ orphan' \in {request, orphan}
        /\ persisted' = persisted
    BY <1>3 DEF Reload, EndPump, NoCall, GiveUpCalls, textVars
  <2> QED BY <1>1, <1>2, <2>1 DEF HostType
<1>4. ASSUME Drop PROVE HostType'
  <2>1. /\ client' = Offline /\ orphan' \in {request, orphan} /\ answer' \in {"error", answer}
        /\ UNCHANGED <<recovery, hostVars, request, persisted>>
    BY <1>4 DEF Drop, GiveUpCalls, sessionVars, textVars
  <2> QED BY <1>1, <1>2, <2>1 DEF HostType, hostVars
<1>5. ASSUME EntryPersisted PROVE HostType'
  <2>1. PICK i \in DOMAIN transcript : persisted' = persisted \cup transcript[i].messages
    BY <1>5 DEF EntryPersisted
  <2>2. transcript[i] \in Batches
    <3>1. transcript \in Seq(Batches)
      BY <1>1 DEF HostType
    <3> QED BY <3>1
  <2>3. persisted' \subseteq MsgIds
    BY <1>1, <2>1, <2>2 DEF HostType, Batches
  <2> QED BY <1>1, <1>2, <1>5, <2>3 DEF EntryPersisted, HostType, linkVars, sessionVars,
             hostVars, callVars
<1>6. ASSUME StartRecovery PROVE HostType'
  <2>1. PICK m \in DOMAIN messages : recovery' = [at |-> "reading", message |-> m]
    BY <1>6 DEF StartRecovery
  <2>2. m \in 0..MaxMessages
    BY MessageIds DEF MsgIds, HInv, EInv, IInv
  <2> QED BY <1>1, <1>2, <1>6, <2>1, <2>2 DEF StartRecovery, HostType, recoveryKeeps, linkVars,
             hostVars, callVars, textVars
<1>7. ASSUME RecoveryEnds PROVE HostType'
  BY <1>1, <1>2, <1>7 DEF RecoveryEnds, HostType, recoveryKeeps, linkVars, hostVars, callVars,
     textVars
<1>8. ASSUME \/ Refresh \/ (\E paused \in BOOLEAN : Command(paused)) \/ ResumeAutomatic
             \/ CommandFails
      PROVE  HostType'
  <2>1. /\ UNCHANGED <<client, recovery, pump, transport, batch, active, finish, request>>
        /\ UNCHANGED <<answer, orphan, persisted>>
    BY <1>8 DEF Refresh, Command, ResumeAutomatic, CommandFails, sessionVars, callVars,
       textVars, linkVars, hostVars
  <2> QED BY <1>1, <1>2, <2>1 DEF HostType
<1> QED BY <1>3, <1>4, <1>5, <1>6, <1>7, <1>8

\* What is sent stays sent.
LEMMA AskGrows ==
    ASSUME HInv, Ask
    PROVE  /\ messages' \in Seq(Message) /\ Len(messages') = Len(messages) + 1
           /\ DOMAIN messages \subseteq DOMAIN messages'
<1>1. messages \in Seq(Message)
  BY DEF HInv, EInv, IInv, TypeOK
<1>2. PICK w \in actors, t \in Threads, k \in Keys :
        w.participant = Asker /\ Send(w, {Worker}, "question", t, 0, k)
  BY DEF Ask
<1> DEFINE msg == [sender |-> w.participant, thread |-> t, type |-> "question",
                   human |-> FALSE, replyTo |-> 0, key |-> k]
<1>3. messages' = Append(messages, msg)
  BY <1>2 DEF Send, Store
<1>4. msg \in Message
  <2>1. w.participant \in Participants /\ 0 \in 0..MaxMessages
    BY <1>2, RolesAssumption, BoundsAssumption
  <2> QED BY <2>1 DEF Message, MessageTypes
<1> HIDE DEF msg
<1> QED BY <1>1, <1>3, <1>4

\* The broker's side takes no message away, and only a question adds one.
LEMMA BrokerSideGrows ==
    ASSUME HInv, BrokerSide
    PROVE  /\ DOMAIN messages \subseteq DOMAIN messages'
           /\ Ask \/ UNCHANGED messages
<1>1. ASSUME RecoveryReads \/ RecoveryConfirmed PROVE UNCHANGED messages
  BY <1>1 DEF RecoveryReads, RecoveryConfirmed, Reconcile, MoveTo, SetDelivery, Retry, vars
<1>2. ASSUME Reconnect \/ (\E w \in actors : SocketCloses(w)) \/ BrokerStops \/ LeaseEnds
      PROVE  UNCHANGED messages
  BY <1>2 DEF Reconnect, SocketCloses, BrokerStops, LeaseEnds, Connect, Disconnect,
     BrokerRestart, LeaseLapse, Expire, Sever, mailVars
<1>3. ASSUME Close \/ PauseLocal \/ ResumeLocal PROVE UNCHANGED messages
  BY <1>3 DEF Close, Resolve, PauseLocal, ResumeLocal, Pause, mailVars
<1> QED BY <1>1, <1>2, <1>3, AskGrows DEF BrokerSide

\* What the steps of the broker's side leave alone at the host.
BrokerSideFrame ==
    /\ UNCHANGED <<hostVars, callVars, textVars>>
    /\ orphan' \in {orphan, NoRequest}
    /\ client' = client \/ Reconnect

\* The broker's side leaves pump, calls and session text alone.
LEMMA BrokerSideFramed == BrokerSide => BrokerSideFrame
<1>1. ASSUME RecoveryReads \/ RecoveryConfirmed PROVE BrokerSideFrame
  BY <1>1 DEF RecoveryReads, RecoveryConfirmed, recoveryKeeps, linkVars, BrokerSideFrame
<1>2. ASSUME Reconnect \/ (\E w \in actors : SocketCloses(w)) \/ BrokerStops \/ LeaseEnds
      PROVE  BrokerSideFrame
  BY <1>2 DEF Reconnect, SocketCloses, BrokerStops, LeaseEnds, linkVars, BrokerSideFrame
<1>3. ASSUME Ask \/ Close \/ PauseLocal \/ ResumeLocal PROVE BrokerSideFrame
  BY <1>3 DEF Ask, Close, PauseLocal, ResumeLocal, linkVars, BrokerSideFrame
<1> QED BY <1>1, <1>2, <1>3 DEF BrokerSide

\* The broker's side keeps the types.
LEMMA BrokerSideTyped == ASSUME HInv, EInv', BrokerSide PROVE HostType'
<1> USE Constants
<1>1. HostType
  BY DEF HInv
<1>2. /\ UNCHANGED <<transport, pump, batch, active, finish, request, answer>>
      /\ UNCHANGED <<transcript, persisted>> /\ orphan' \in {orphan, NoRequest}
  BY BrokerSideFramed DEF BrokerSideFrame, hostVars, callVars, textVars
<1>3. DOMAIN messages \subseteq DOMAIN messages' /\ DOMAIN messages \subseteq MsgIds
  BY BrokerSideGrows, MessageIds DEF HInv, EInv, IInv
<1>4. client' \in ConnectionRows
  <2>1. CASE client' = client
    BY <1>1, <2>1 DEF HostType
  <2>2. CASE Reconnect
    <3>1. participants[Worker] \in ParticipantRow /\ participants'[Worker] \in ParticipantRow
      BY RolesAssumption DEF HInv, EInv, IInv, TypeOK
    <3> QED BY <2>2, <3>1 DEF Reconnect, ConnectionRows, ParticipantRow
  <2> QED BY <2>1, <2>2, BrokerSideFramed DEF BrokerSideFrame
<1>5. /\ recovery' \in [at : {"none", "reading", "confirming"}, message : 0..MaxMessages]
      /\ recovery'.at # "none" => recovery.at # "none" /\ recovery'.message = recovery.message
  <2>1. CASE recovery' \in {recovery, NoRecovery}
    BY <1>1, <2>1 DEF HostType
  <2>2. CASE RecoveryReads
    BY <1>1, <2>2 DEF HostType, RecoveryReads
  <2>3. recovery' \in {recovery, NoRecovery} \/ RecoveryReads
    BY DEF BrokerSide, RecoveryReads, RecoveryConfirmed, Reconnect, SocketCloses, BrokerStops,
       LeaseEnds, Ask, Close, PauseLocal, ResumeLocal, sessionVars
  <2> QED BY <2>1, <2>2, <2>3
<1>6. retried' \subseteq MsgIds
  <2>1. retried' = retried \/ RecoveryConfirmed
    BY DEF BrokerSide, RecoveryReads, RecoveryConfirmed, Reconnect, SocketCloses, BrokerStops,
       LeaseEnds, Ask, Close, PauseLocal, ResumeLocal, historyVars
  <2>2. CASE RecoveryConfirmed
    <3>1. retried' = retried \cup {recovery.message} /\ recovery.message \in MsgIds
      BY <1>1, <1>3, <2>2 DEF RecoveryConfirmed, HostType
    <3> QED BY <1>1, <3>1 DEF HostType
  <2> QED BY <1>1, <2>1, <2>2 DEF HostType
<1>7. recovery'.at # "none" => recovery'.message \in DOMAIN messages'
  BY <1>1, <1>3, <1>5 DEF HostType
<1> QED BY <1>1, <1>2, <1>4, <1>5, <1>6, <1>7 DEF HostType

(***************************************************************************)
(* The host's own steps.  The broker stands still, so all that is said of  *)
(* the ledger and of rows stays true; what the host carries is passed on   *)
(* from one await to the next.                                             *)
(***************************************************************************)
SameStore == UNCHANGED <<vars, reviewed>>
SameText == UNCHANGED <<transcript, persisted, retried>>

\* While broker and session text stand still, so does what is said of them.
LEMMA StandingStill ==
    ASSUME HInv, SameStore, SameText
    PROVE  Ledger' /\ NoReturn' /\ RecordedIsPersisted'
<1> USE DEF HInv, SameStore, SameText, vars, Member, Row, Latest, StateOf, Woken, Inserted
<1>1. Ledger'
  BY DEF Ledger, IsLive
<1>2. NoReturn'
  BY DEF NoReturn, PastMailbox
<1>3. RecordedIsPersisted'
  BY DEF Evidence, RecordedIsPersisted
<1> QED BY <1>1, <1>2, <1>3

\* While broker and session text stand still, what is fresh stays fresh.
LEMMA FreshStays ==
    ASSUME SameStore, SameText, NEW a, NEW M, Fresh(a, M)
    PROVE  Fresh(a, M)'
BY DEF SameStore, SameText, vars, Row, Latest, StateOf, Woken, Inserted, Fresh

\* What the pump has and awaits stays while neither changes.
LEMMA CarriedStays ==
    ASSUME HInv, SameStore, SameText, UNCHANGED <<pump, batch, request, answer>>,
           recovery'.at = "confirming" => recovery.at = "confirming" \/ pump # "dispatching"
    PROVE  CarriesLatest'
<1>1. Carrying' => Fresh(batch.id, batch.messages)'
  BY FreshStays DEF HInv, CarriesLatest, Carrying
<1>2. ReservedAnswered' => Fresh(request.id, request.entries)'
  BY FreshStays DEF HInv, CarriesLatest, ReservedAnswered
<1>3. pump' = "dispatching" =>
        /\ recovery'.at # "confirming"
        /\ answer' = "ok" =>
            /\ StateOf(batch.id)' \in {"dispatched", "uncertain"}
            /\ \A m \in batch.messages' :
                /\ PastMailbox(Row(m))'
                /\ Row(m)'.state = "queued" => Row(m)'.activation = batch.id'
  BY DEF HInv, CarriesLatest, SameStore, vars, StateOf, Row, PastMailbox
<1> QED BY <1>1, <1>2, <1>3 DEF CarriesLatest

\* Nothing but the call and the pump changes when a batch is passed on.
PumpFrame ==
    /\ SameStore /\ SameText
    /\ UNCHANGED <<client, active, finish, orphan>>

\* The pump's own steps keep all that is said of broker and session.
LEMMA PumpFrameKeeps ==
    ASSUME HInv, PumpFrame
    PROVE  /\ Submitted'
           /\ (pump' \notin {"idle", "reserving"} => orphan.op # "auto-reserve" \/ client # Offline)
              => OrphanSound'
<1> USE DEF HInv, PumpFrame, SameStore, SameText, vars, Member, Row, Latest, StateOf, Woken
<1>1. Submitted'
  BY DEF Submitted
<1>2. ASSUME pump' \notin {"idle", "reserving"} => orphan.op # "auto-reserve" \/ client # Offline,
             orphan # NoRequest, orphan.by.generation = Member.generation
      PROVE  Sound(orphan)'
  <2>1. Sound(orphan) /\ client = Offline
    BY <1>2 DEF OrphanSound, Link
  <2> QED BY <1>2, <2>1 DEF Sound, HostType
<1> QED BY <1>1, <1>2 DEF OrphanSound

\* The host asks for a batch to be cancelled.
LEMMA CancelKeeps ==
    ASSUME HInv, PumpFrame, HostType', NEW b \in Batches,
           NEW at \in {"cancelling", "giving up"}, CancelBatch(b, at),
           Fresh(b.id, b.messages), pump \notin {"idle", "finishing"},
           client = Offline => Carrying
    PROVE  HInv'
<1> USE DEF HInv, PumpFrame
<1>1. /\ request' \in Requests /\ answer' \in {"none", "error"} /\ request' # NoRequest
      /\ request'.op = "auto-cancel" /\ request'.by = transport /\ request'.id = b.id
      /\ answer' # "error" => transport = client
  <2>1. transport \in ConnectionRows /\ b.id \in Nat /\ {} \in SUBSET MsgIds
    BY DEF HostType, Batches
  <2>2. Call("auto-cancel", transport, b.id, {}, FALSE)
    BY DEF CancelBatch
  <2> HIDE DEF HInv, PumpFrame
  <2> QED BY <2>1, <2>2, CallTyped
<1>2. /\ pump' = at /\ batch' = b /\ transport' = transport
      /\ transport # Offline /\ active = NoBatch /\ finish = NoFinish
  BY DEF CancelBatch, Stage, HostType
<1>3. Link'
  BY <1>1, <1>2 DEF Link, SameStore, vars, Member
<1>4. Stage'
  BY <1>1, <1>2, Constants DEF Stage
<1>5. CarriesLatest'
  <2>1. Fresh(b.id, b.messages)'
    BY FreshStays
  <2>2. ~ReservedAnswered' /\ pump' # "dispatching"
    BY <1>2 DEF ReservedAnswered
  <2> QED BY <1>2, <2>1, <2>2 DEF CarriesLatest
<1>6. Submitted' /\ OrphanSound'
  <2>1. ASSUME client = Offline, orphan # NoRequest, orphan.by.generation = Member.generation
        PROVE  orphan.op # "auto-reserve"
    BY <2>1 DEF Carrying, OrphanSound, Sound
  <2>2. CASE orphan = NoRequest \/ orphan.by.generation # Member.generation
    BY <2>2, PumpFrameKeeps DEF OrphanSound, SameStore, vars, Member
  <2> QED BY <2>1, <2>2, PumpFrameKeeps
<1>7. Evidence'
  BY <1>1, StandingStill DEF Evidence, SameText
<1>8. EInv'
  BY StepKeepsEvidence DEF SameStore
<1> QED BY <1>3, <1>4, <1>5, <1>6, <1>7, <1>8, StandingStill

\* The pump ends without an insertion.
LEMMA EndKeeps ==
    ASSUME HInv, PumpFrame, HostType', EndPump, NoCall, pump \notin {"idle", "finishing"}
    PROVE  HInv'
<1> USE DEF HInv, PumpFrame
<1>1. /\ pump' = "idle" /\ request' = NoRequest /\ answer' = "none"
      /\ active = NoBatch /\ finish = NoFinish
  BY DEF EndPump, NoCall, Stage, HostType
<1>2. Link'
  BY <1>1 DEF Link, SameStore, vars, Member
<1>3. Stage'
  BY <1>1, Constants DEF Stage
<1>4. CarriesLatest'
  BY <1>1 DEF CarriesLatest, Carrying, ReservedAnswered
<1>5. Submitted' /\ OrphanSound'
  BY <1>1, PumpFrameKeeps
<1>6. Evidence'
  BY <1>1, Constants, StandingStill DEF Evidence, SameText
<1>7. EInv'
  BY StepKeepsEvidence DEF SameStore
<1> QED BY <1>2, <1>3, <1>4, <1>5, <1>6, <1>7, StandingStill

\* Each step of the pump short of the insertion is of that frame.
LEMMA PumpFramed ==
    ASSUME \/ TimerFires \/ Reserved \/ EvidenceRead \/ EvidenceFails \/ Abandoned
           \/ CallFailed \/ TooLate
    PROVE  PumpFrame
BY DEF TimerFires, Reserved, EvidenceRead, EvidenceFails, Abandoned, CallFailed, TooLate,
   pumpKeeps, linkVars, textVars, historyVars, PumpFrame, SameStore, SameText

\* The host asks the broker on behalf of the batch it carries.
LEMMA AskKeeps ==
    ASSUME HInv, PumpFrame, HostType', pump = "reading",
           NEW op \in {"auto-reconcile", "auto-dispatch"}, NEW entries \in SUBSET persisted,
           Call(op, transport, batch.id, entries, FALSE),
           pump' = IF op = "auto-reconcile" THEN "reconciling" ELSE "dispatching",
           op = "auto-dispatch" => recovery = NoRecovery,
           UNCHANGED <<batch, transport, recovery>>
    PROVE  HInv'
<1> USE DEF HInv, PumpFrame
<1>1. /\ request' \in Requests /\ answer' \in {"none", "error"} /\ request' # NoRequest
      /\ request'.op = op /\ request'.by = transport /\ request'.id = batch.id
      /\ request'.entries = entries
      /\ answer' # "error" => transport = client
  <2>1. /\ transport \in ConnectionRows /\ batch.id \in Nat /\ entries \in SUBSET MsgIds
    BY DEF HostType, Batches
  <2>2. CASE op = "auto-reconcile"
    BY <2>1, <2>2, CallTyped
  <2>3. CASE op = "auto-dispatch"
    BY <2>1, <2>3, CallTyped
  <2> QED BY <2>2, <2>3
<1>2. transport # Offline /\ active = NoBatch /\ finish = NoFinish
  BY DEF Stage, HostType
<1>3. Link'
  BY <1>1, <1>2 DEF Link, SameStore, vars, Member
<1>4. Stage'
  BY <1>1, <1>2, Constants DEF Stage
<1>5. CarriesLatest'
  <2>1. Fresh(batch.id, batch.messages)
    BY DEF CarriesLatest, Carrying
  <2>2. Fresh(batch.id, batch.messages)'
    BY <2>1, FreshStays
  <2>3. ~ReservedAnswered' /\ answer' # "ok"
    BY <1>1 DEF ReservedAnswered
  <2>4. pump' = "dispatching" => recovery'.at # "confirming"
    BY Constants
  <2> QED BY <2>2, <2>3, <2>4 DEF CarriesLatest
<1>6. Submitted' /\ OrphanSound'
  <2>1. ASSUME client = Offline, orphan # NoRequest, orphan.by.generation = Member.generation
        PROVE  orphan.op # "auto-reserve"
    BY <2>1 DEF OrphanSound, Sound
  <2>2. CASE orphan = NoRequest \/ orphan.by.generation # Member.generation
    BY <2>2, PumpFrameKeeps DEF OrphanSound, SameStore, vars, Member
  <2> QED BY <2>1, <2>2, PumpFrameKeeps
<1>7. Evidence'
  BY <1>1, StandingStill DEF Evidence, SameText
<1>8. EInv'
  BY StepKeepsEvidence DEF SameStore
<1> QED BY <1>3, <1>4, <1>5, <1>6, <1>7, <1>8, StandingStill

\* The timer fires and the host asks for a reservation.
LEMMA TimerKeeps == ASSUME HInv, TimerFires PROVE HInv'
<1>1. PumpFrame /\ HostType'
  BY PumpFramed, PumpTyped
<1>2. EInv' /\ Ledger' /\ NoReturn' /\ RecordedIsPersisted' /\ UNCHANGED <<batch, recovery>>
  BY <1>1, StepKeepsEvidence, StandingStill DEF HInv, PumpFrame, SameStore, TimerFires, sessionVars
<1>3. CASE Kickable
  <2>1. /\ request' = [NoRequest EXCEPT !.op = "auto-reserve", !.by = client]
        /\ pump = "idle" /\ pump' = "reserving" /\ transport' = client /\ answer' = "none"
        /\ active = NoBatch /\ client # Offline
    BY <1>3 DEF TimerFires, Kickable, Ready
  <2>2. /\ request' \in Requests /\ request'.op = "auto-reserve" /\ request'.by = client
    BY <2>1, ReservationTyped DEF HInv, HostType
  <2>3. Link'
    BY <1>1, <2>1, <2>2 DEF HInv, Link, PumpFrame, SameStore, vars, Member
  <2>4. Stage'
    BY <1>1, <2>1, <2>2, Constants DEF HInv, Stage, PumpFrame
  <2>5. CarriesLatest'
    <3>1. ~Carrying' /\ ~ReservedAnswered' /\ pump' # "dispatching"
      BY <2>1 DEF Carrying, ReservedAnswered
    <3> QED BY <3>1 DEF CarriesLatest
  <2>6. Submitted' /\ OrphanSound'
    BY <1>1, <2>1, PumpFrameKeeps
  <2>7. Evidence'
    BY <1>1, <1>2, <2>2 DEF HInv, Evidence, PumpFrame, SameText
  <2> QED BY <1>1, <1>2, <2>3, <2>4, <2>5, <2>6, <2>7 DEF HInv
<1>4. CASE ~Kickable
  <2>1. UNCHANGED <<pump, transport, request, answer>>
    BY <1>4 DEF TimerFires, callVars
  <2>2. Link' /\ Stage'
    BY <1>1, <1>2, <2>1 DEF HInv, Link, Stage, PumpFrame, SameStore, vars, Member
  <2>3. CarriesLatest'
    BY <1>1, <1>2, <2>1, CarriedStays DEF PumpFrame
  <2>4. Submitted' /\ OrphanSound'
    BY <1>1, <2>1 DEF HInv, OrphanSound, Sound, Submitted, PumpFrame,
       SameStore, SameText, vars, Row, Latest, StateOf, Woken, Member
  <2>5. Evidence'
    BY <1>1, <1>2, <2>1 DEF HInv, Evidence, PumpFrame, SameText
  <2> QED BY <1>1, <1>2, <2>2, <2>3, <2>4, <2>5 DEF HInv
<1> QED BY <1>3, <1>4

\* A reservation has been answered.
LEMMA ReservedKeeps == ASSUME HInv, Reserved PROVE HInv'
<1>0. PICK got \in Batches : got = [id |-> request.id, messages |-> request.entries]
  BY DEF HInv, HostType, Requests, Batches
<1>1. PumpFrame /\ HostType' /\ pump = "reserving"
  BY PumpFramed, PumpTyped DEF Reserved
<1>2. EInv' /\ Ledger' /\ NoReturn' /\ RecordedIsPersisted'
  BY <1>1, StepKeepsEvidence, StandingStill DEF HInv, PumpFrame, SameStore
<1>3. CASE EndPump /\ NoCall
  BY <1>1, <1>3, EndKeeps
<1>4. ASSUME answer = "ok" PROVE Fresh(got.id, got.messages) /\ client # Offline
  <2>1. Fresh(request.id, request.entries)
    BY <1>1, <1>4 DEF HInv, CarriesLatest, ReservedAnswered
  <2>2. request # NoRequest
    BY <1>1, Constants DEF HInv, Stage
  <2> QED BY <1>0, <1>4, <2>1, <2>2 DEF HInv, Link
<1>5. CASE answer = "ok" /\ CancelBatch(got, "cancelling")
  BY <1>1, <1>4, <1>5, CancelKeeps
<1>6. CASE answer = "ok" /\ pump' = "reading" /\ batch' = got /\ NoCall /\ UNCHANGED transport
  <2>1. /\ request' = NoRequest /\ answer' = "none" /\ client # Offline
        /\ transport # Offline /\ active = NoBatch /\ finish = NoFinish
    BY <1>1, <1>4, <1>6 DEF NoCall, HInv, Stage, HostType
  <2>2. Link'
    BY <1>1, <2>1 DEF HInv, Link, PumpFrame, SameStore, vars, Member
  <2>3. Stage'
    BY <1>1, <1>6, <2>1, Constants DEF HInv, Stage, PumpFrame
  <2>4. CarriesLatest'
    <3>1. Fresh(got.id, got.messages)'
      BY <1>1, <1>4, <1>6, FreshStays DEF PumpFrame
    <3> QED BY <1>6, <3>1 DEF CarriesLatest, ReservedAnswered
  <2>5. Submitted' /\ OrphanSound'
    BY <1>1, <2>1, PumpFrameKeeps
  <2>6. Evidence'
    BY <1>1, <1>2, <2>1, Constants DEF HInv, Evidence, PumpFrame, SameText
  <2> QED BY <1>1, <1>2, <2>2, <2>3, <2>4, <2>5, <2>6 DEF HInv
<1> QED BY <1>0, <1>3, <1>5, <1>6 DEF Reserved

\* The steps of the pump that pass on a batch or end with it.
LEMMA PumpKeeps ==
    ASSUME HInv,
           \/ TimerFires \/ Reserved \/ EvidenceRead \/ EvidenceFails \/ Abandoned
           \/ CallFailed \/ TooLate
    PROVE  HInv'
<1>1. PumpFrame /\ HostType'
  BY PumpFramed, PumpTyped
<1>2. batch \in Batches /\ (Carrying => Fresh(batch.id, batch.messages))
  BY DEF HInv, HostType, CarriesLatest
<1>3. ASSUME EvidenceFails \/ CallFailed \/ TooLate PROVE HInv'
  BY <1>1, <1>2, <1>3, CancelKeeps DEF EvidenceFails, CallFailed, TooLate, Permitted, Carrying
<1>4. ASSUME Abandoned PROVE HInv'
  BY <1>1, <1>4, EndKeeps DEF Abandoned
<1>5. ASSUME EvidenceRead PROVE HInv'
  <2>1. pump = "reading" /\ Carrying /\ UNCHANGED recovery
    BY <1>5 DEF EvidenceRead, Carrying, pumpKeeps, sessionVars
  <2>2. batch.messages \cap persisted \in SUBSET persisted /\ {} \in SUBSET persisted
    OBVIOUS
  <2>3. CASE CancelBatch(batch, "cancelling")
    BY <1>1, <1>2, <2>1, <2>3, CancelKeeps
  <2>4. CASE /\ Call("auto-reconcile", transport, batch.id, batch.messages \cap persisted, FALSE)
             /\ pump' = "reconciling" /\ UNCHANGED <<batch, transport>>
    BY <1>1, <2>1, <2>2, <2>4, AskKeeps
  <2>5. CASE /\ Ready /\ Call("auto-dispatch", transport, batch.id, {}, FALSE)
             /\ pump' = "dispatching" /\ UNCHANGED <<batch, transport>>
    BY <1>1, <2>1, <2>2, <2>5, AskKeeps DEF Ready
  <2> QED BY <1>5, <2>3, <2>4, <2>5 DEF EvidenceRead
<1> QED BY <1>3, <1>4, <1>5, TimerKeeps, ReservedKeeps

(***************************************************************************)
(* The insertion                                                           *)
(***************************************************************************)
\* What is inserted counts as woken, and its messages as inserted.
LEMMA EnterAdds ==
    ASSUME transcript \in Seq(Batches), NEW b \in Batches, Enter(b)
    PROVE  /\ Woken' = Woken \cup {b.id}
           /\ Inserted' = Inserted \cup b.messages
           /\ retried' = retried \ b.messages
<1>1. /\ Len(transcript) \in Nat /\ DOMAIN transcript = 1..Len(transcript)
      /\ DOMAIN transcript' = 1..(Len(transcript) + 1)
      /\ \A i \in 1..Len(transcript) : transcript'[i] = transcript[i]
      /\ transcript'[Len(transcript) + 1] = b
  BY DEF Enter
<1>2. DOMAIN transcript' = DOMAIN transcript \cup {Len(transcript) + 1}
  BY <1>1
<1>3. /\ \A i \in DOMAIN transcript : transcript'[i] = transcript[i]
      /\ transcript'[Len(transcript) + 1] = b
  BY <1>1
<1>4. \A x : x \in Woken' <=> x \in Woken \/ x = b.id
  BY <1>2, <1>3 DEF Woken
<1>5. \A x : x \in Inserted' <=> x \in Inserted \/ x \in b.messages
  <2>1. \A x : x \in Inserted' <=> \E i \in DOMAIN transcript' : x \in transcript'[i].messages
    BY DEF Inserted
  <2>2. \A x : x \in Inserted <=> \E i \in DOMAIN transcript : x \in transcript[i].messages
    BY DEF Inserted
  <2> QED BY <1>2, <1>3, <2>1, <2>2
<1> QED BY <1>4, <1>5 DEF Enter

\* The batch that is inserted is the last activation's, permitted and not yet
\* woken, and none of its messages is repeated without a retry.
LEMMA PermittedBatch ==
    ASSUME HInv, Permitted, Ready
    PROVE  /\ batch \in Batches /\ client # Offline /\ transport # Offline
           /\ Fresh(batch.id, batch.messages)
           /\ StateOf(batch.id) \in {"dispatched", "uncertain"}
           /\ \A m \in batch.messages :
                /\ PastMailbox(Row(m))
                /\ Row(m).state = "queued" => Row(m).activation = batch.id
           /\ active = NoBatch /\ finish = NoFinish
           /\ batch.id \in DOMAIN activations
<1>1. pump = "dispatching" /\ answer = "ok" /\ Carrying
  BY DEF Permitted, Carrying
<1>2. Fresh(batch.id, batch.messages)
  BY <1>1 DEF HInv, CarriesLatest
<1>3. batch.id \in DOMAIN activations
  <2>1. DOMAIN activations = 1..Latest /\ Latest \in Nat
    BY DEF HInv, EInv, IInv, TypeOK, Latest
  <2> QED BY <1>2, <2>1 DEF Fresh
<1> QED BY <1>1, <1>2, <1>3 DEF HInv, CarriesLatest, HostType, Ready, Stage

\* What the two insertions share; entered says whether the session took it.
LEMMA SubmitKeeps ==
    ASSUME HInv, HostType', SameStore, Permitted, Ready,
           NEW entered \in BOOLEAN, entered => Enter(batch),
           ~entered => UNCHANGED <<transcript, retried>>,
           UNCHANGED <<client, orphan, persisted>>,
           request' = NoRequest, answer' = "none", active' = batch,
           \/ pump' = "idle" /\ finish' = NoFinish /\ entered
           \/ pump' = "finishing" /\ finish' = [at |-> "reading", complete |-> FALSE]
    PROVE  HInv'
<1>1. /\ batch \in Batches /\ client # Offline /\ transport # Offline
      /\ Fresh(batch.id, batch.messages)
      /\ StateOf(batch.id) \in {"dispatched", "uncertain"}
      /\ \A m \in batch.messages :
            /\ PastMailbox(Row(m))
            /\ Row(m).state = "queued" => Row(m).activation = batch.id
      /\ batch.id \in DOMAIN activations
  BY PermittedBatch
<1>2. /\ Woken' = IF entered THEN Woken \cup {batch.id} ELSE Woken
      /\ Inserted' = IF entered THEN Inserted \cup batch.messages ELSE Inserted
      /\ retried' = IF entered THEN retried \ batch.messages ELSE retried
  <2>1. CASE entered
    <3>1. transcript \in Seq(Batches)
      BY DEF HInv, HostType
    <3> QED BY <1>1, <2>1, <3>1, EnterAdds
  <2>2. CASE ~entered
    BY <2>2 DEF Woken, Inserted
  <2> QED BY <2>1, <2>2
<1>3. EInv' /\ vars' = vars
  BY StepKeepsEvidence DEF HInv, SameStore
<1>4. Link'
  BY <1>1, <1>3 DEF HInv, Link, vars, Member
<1>5. Stage'
  <2>1. batch # NoBatch /\ batch.id # 0
    BY <1>1, Constants DEF Fresh
  <2>2. /\ finish'.at \in {"none", "reading"} /\ pump' \in {"idle", "finishing"}
        /\ finish'.at = "none" => finish' = NoFinish
        /\ pump' = "finishing" => finish' # NoFinish
    BY DEF NoFinish
  <2>3. request' = NoRequest /\ active' # NoBatch
    BY <2>1
  <2> QED BY <2>2, <2>3 DEF Stage
<1>6. CarriesLatest'
  BY DEF CarriesLatest, Carrying, ReservedAnswered
<1>7. Submitted'
  <2>1. /\ batch.id = Latest /\ batch.id # 0
        /\ \A m \in MsgIds : Row(m).activation = batch.id => m \in batch.messages
    BY <1>1 DEF Fresh
  <2>2. \/ entered
        \/ finish' # NoFinish /\ ~finish'.complete
    BY DEF NoFinish
  <2>3. batch.id \in Woken' \/ (finish' # NoFinish /\ ~finish'.complete)
    BY <1>2, <2>2
  <2> QED BY <1>1, <1>3, <2>1, <2>3 DEF Submitted, vars, Latest, StateOf, Row
<1>8. OrphanSound'
  BY <1>1, <1>3 DEF HInv, Link, OrphanSound, vars, Member
<1>9. Ledger'
  <2>1. \A a \in DOMAIN activations :
            /\ activations[a].participant = Worker
            /\ IsLive(a) => a = Latest
            /\ StateOf(a) = "uncertain" => a \in reviewed \/ (a = Latest /\ Member.paused)
    BY DEF HInv, Ledger
  <2>2. \A a \in Woken' : a \in DOMAIN activations /\ StateOf(a) \notin {"reserved", "cancelled"}
    BY <1>1, <1>2 DEF HInv, Ledger
  <2> QED BY <1>3, <2>1, <2>2 DEF Ledger, SameStore, vars, IsLive, Latest, StateOf, Member
<1>10. NoReturn'
  <2>1. batch.messages \subseteq DOMAIN messages
    BY <1>1 DEF Fresh
  <2>2. Inserted' \subseteq DOMAIN messages /\ persisted \subseteq Inserted'
    BY <1>2, <2>1 DEF HInv, NoReturn
  <2>3. ASSUME NEW m \in Inserted' \ retried'
        PROVE  /\ PastMailbox(Row(m))
               /\ Row(m).state = "queued" => Row(m).activation \in Woken'
    <3>1. CASE entered /\ m \in batch.messages
      BY <1>1, <1>2, <3>1
    <3>2. CASE ~(entered /\ m \in batch.messages)
      <4>1. m \in Inserted \ retried
        BY <1>2, <2>3, <3>2
      <4> QED BY <1>2, <4>1 DEF HInv, NoReturn
    <3> QED BY <3>1, <3>2
  <2> QED BY <1>3, <2>2, <2>3 DEF NoReturn, PastMailbox, Row, vars
<1>11. Evidence'
  BY <1>3, Constants DEF HInv, Evidence, RecordedIsPersisted, vars
<1> QED BY <1>3, <1>4, <1>5, <1>6, <1>7, <1>8, <1>9, <1>10, <1>11 DEF HInv

\* Inserted or thrown, the batch becomes the turn the host waits for.
LEMMA InsertKeeps == ASSUME HInv, Insert \/ InsertThrows PROVE HInv'
<1>1. HostType'
  BY InsertTyped
<1>2. ASSUME Insert PROVE HInv'
  <2>1. /\ SameStore /\ Permitted /\ Ready /\ Enter(batch)
        /\ UNCHANGED <<client, orphan, persisted, finish>>
        /\ request' = NoRequest /\ answer' = "none" /\ active' = batch /\ pump' = "idle"
    BY <1>2 DEF Insert, EndPump, NoCall, linkVars, SameStore
  <2>2. finish' = NoFinish
    BY <2>1, PermittedBatch
  <2>3. TRUE \in BOOLEAN
    OBVIOUS
  <2> QED BY <1>1, <2>1, <2>2, <2>3, SubmitKeeps
<1>3. ASSUME InsertThrows PROVE HInv'
  <2>1. /\ SameStore /\ Permitted /\ Ready
        /\ UNCHANGED <<client, orphan, persisted>>
        /\ request' = NoRequest /\ answer' = "none" /\ active' = batch /\ pump' = "finishing"
        /\ finish' = [at |-> "reading", complete |-> FALSE]
    BY <1>3 DEF InsertThrows, NoCall, linkVars, SameStore
  <2>2. CASE Enter(batch)
    BY <1>1, <2>1, <2>2, SubmitKeeps
  <2>3. CASE UNCHANGED <<transcript, retried>>
    BY <1>1, <2>1, <2>3, SubmitKeeps
  <2> QED BY <1>3, <2>2, <2>3 DEF InsertThrows
<1> QED BY <1>2, <1>3

(***************************************************************************)
(* The turn and its end                                                    *)
(***************************************************************************)
\* What a turn leaves alone.
TurnFrame == SameStore /\ SameText /\ UNCHANGED <<client, orphan>>

\* Turns of the session keep all that is said of broker and text.
LEMMA TurnFrameKeeps ==
    ASSUME HInv, TurnFrame, active # NoBatch => active' \in {active, NoBatch}, active = NoBatch => active' = NoBatch,
           pump' \in {pump, "idle"}
    PROVE  EInv' /\ Ledger' /\ NoReturn' /\ RecordedIsPersisted' /\ OrphanSound'
<1> USE DEF TurnFrame
<1>1. EInv' /\ Ledger' /\ NoReturn' /\ RecordedIsPersisted'
  BY StepKeepsEvidence, StandingStill DEF HInv, SameStore
<1>2. ASSUME orphan # NoRequest, orphan.by.generation = Member.generation
      PROVE  Sound(orphan)'
  <2>1. Sound(orphan)
    BY <1>2 DEF HInv, OrphanSound
  <2> QED BY <2>1 DEF Sound, SameStore, SameText, vars, Row, Latest, StateOf, Woken
<1> QED BY <1>1, <1>2 DEF OrphanSound, SameStore, vars, Member

\* A turn starts, or ends, or has not started in time.
LEMMA TurnKeeps ==
    ASSUME HInv,
           AgentStarts \/ (\E complete \in BOOLEAN : AgentSettles(complete)) \/ WatchdogFires
    PROVE  HInv'
<1>1. /\ TurnFrame /\ HostType' /\ UNCHANGED <<pump, transport, batch, active, request, answer>>
      /\ UNCHANGED recovery
  BY TurnTyped DEF AgentStarts, AgentSettles, WatchdogFires, callVars, sessionVars, linkVars,
     textVars, historyVars, TurnFrame, SameStore, SameText
<1>2. EInv' /\ Ledger' /\ NoReturn' /\ RecordedIsPersisted' /\ OrphanSound'
  BY <1>1, TurnFrameKeeps
<1>3. Link' /\ CarriesLatest' /\ Evidence'
  <2>1. Link'
    BY <1>1 DEF HInv, Link, TurnFrame, SameStore, vars, Member
  <2>2. CarriesLatest'
    BY <1>1, CarriedStays DEF TurnFrame
  <2>3. Evidence'
    BY <1>1, <1>2 DEF HInv, Evidence, TurnFrame, SameText
  <2> QED BY <2>1, <2>2, <2>3
<1>4. CASE finish' = finish
  BY <1>1, <1>2, <1>3, <1>4 DEF HInv, Stage, Submitted, TurnFrame, SameStore, SameText, vars,
     Row, Latest, StateOf, Woken
<1>5. ASSUME NEW c \in BOOLEAN, Unfinished, finish' = [at |-> "reading", complete |-> c]
      PROVE  Stage' /\ Submitted'
  <2>1. active # NoBatch /\ finish = NoFinish /\ pump = "idle" /\ request = NoRequest
    BY <1>5, Constants DEF Unfinished, HInv, Stage
  <2>2. finish'.at = "reading" /\ finish' # NoFinish
    BY <1>5 DEF NoFinish
  <2>3. Stage'
    BY <1>1, <2>1, <2>2, Constants DEF HInv, Stage
  <2>4. Submitted'
    BY <1>1, <2>1 DEF HInv, Submitted, TurnFrame, SameStore, SameText, vars, Row, Latest, StateOf,
       Woken
  <2> QED BY <2>3, <2>4
<1>6. \/ finish' = finish
      \/ Unfinished /\ \E c \in BOOLEAN : finish' = [at |-> "reading", complete |-> c]
  BY DEF AgentStarts, AgentSettles, WatchdogFires, StartFinish
<1> QED BY <1>1, <1>2, <1>3, <1>4, <1>5, <1>6 DEF HInv

\* The host reports on the turn.
LEMMA FinishReadsKeeps == ASSUME HInv, FinishReads PROVE HInv'
<1>1. /\ TurnFrame /\ HostType' /\ UNCHANGED <<pump, transport, batch, active, recovery>>
      /\ finish.at = "reading" /\ active # NoBatch /\ pump \in {"idle", "finishing"}
  <2>1. finish.at = "reading" => finish # NoFinish
    BY Constants
  <2> QED BY <2>1, TurnTyped DEF FinishReads, sessionVars, linkVars,
             textVars, historyVars, TurnFrame, SameStore, SameText, HInv, Stage
<1>2. EInv' /\ Ledger' /\ NoReturn' /\ RecordedIsPersisted' /\ OrphanSound'
  BY <1>1, TurnFrameKeeps
<1>3. PICK found \in SUBSET (active.messages \cap persisted), c \in BOOLEAN :
            /\ c => finish.complete /\ found = active.messages
            /\ finish' = [at |-> "reporting", complete |-> c]
            /\ request' = [op |-> "auto-finish", by |-> client, id |-> active.id,
                           entries |-> found, complete |-> c]
            /\ answer' = IF client = Offline THEN "error" ELSE "none"
  BY DEF FinishReads, HInv, HostType
<1>4. /\ finish'.at = "reporting" /\ (finish'.complete => c) /\ finish' # NoFinish
      /\ request'.op = "auto-finish" /\ request'.by = client /\ request'.id = active.id
      /\ request'.entries = found /\ request' # NoRequest
  BY <1>3 DEF NoFinish, NoRequest
<1>5. request'.complete => c
  BY <1>3
<1>6. finish'.complete = c
  BY <1>3
<1>7. Link'
  BY <1>1, <1>3, <1>4 DEF HInv, Link, TurnFrame, SameStore, vars, Member
<1>8. Stage'
  BY <1>1, <1>3, <1>4, <1>5, <1>6, Constants DEF HInv, Stage
<1>9. CarriesLatest'
  BY <1>1 DEF CarriesLatest, Carrying, ReservedAnswered
<1>10. Submitted'
  <2>1. active.id \in Woken \/ ~finish.complete
    BY <1>1 DEF HInv, Submitted
  <2>2. active.id \in Woken \/ (finish' # NoFinish /\ ~finish'.complete)
    BY <1>3, <1>4, <2>1
  <2> QED BY <1>1, <2>2 DEF HInv, Submitted, TurnFrame, SameStore, SameText, vars, Row, Latest,
             StateOf, Woken
<1>11. Evidence'
  BY <1>1, <1>2, <1>3, <1>4 DEF HInv, Evidence, TurnFrame, SameText
<1> QED BY <1>1, <1>2, <1>7, <1>8, <1>9, <1>10, <1>11 DEF HInv

\* The report was answered.
LEMMA FinishReturnsKeeps == ASSUME HInv, FinishReturns PROVE HInv'
<1>1. /\ TurnFrame /\ HostType' /\ request' = NoRequest /\ answer' = "none"
      /\ active' = NoBatch /\ finish' = NoFinish /\ pump' = "idle"
  <2>1. pump \in {"idle", "finishing"}
    BY Constants DEF FinishReturns, HInv, Stage
  <2> QED BY <2>1, TurnTyped DEF FinishReturns, EndPump, NoCall, linkVars,
             textVars, historyVars, TurnFrame, SameStore, SameText
<1>2. EInv' /\ Ledger' /\ NoReturn' /\ RecordedIsPersisted' /\ OrphanSound'
  BY <1>1, TurnFrameKeeps
<1>3. Link' /\ Stage'
  BY <1>1, Constants DEF HInv, Link, Stage, TurnFrame, SameStore, vars, Member
<1>4. CarriesLatest' /\ Submitted'
  BY <1>1 DEF CarriesLatest, Carrying, ReservedAnswered, Submitted
<1>5. Evidence'
  BY <1>1, <1>2, Constants DEF HInv, Evidence, TurnFrame, SameText
<1> QED BY <1>1, <1>2, <1>3, <1>4, <1>5 DEF HInv

(***************************************************************************)
(* The session file, commands, and the loss of a connection                *)
(***************************************************************************)
\* Steps that the calls of the host do not notice.
LEMMA UnnoticedKeeps ==
    ASSUME HInv,
           \/ StartRecovery \/ RecoveryEnds \/ Refresh
           \/ (\E paused \in BOOLEAN : Command(paused)) \/ ResumeAutomatic \/ CommandFails
    PROVE  HInv'
<1>1. /\ TurnFrame /\ UNCHANGED <<pump, transport, batch, active, finish, request, answer>>
      /\ recovery'.at = "confirming" => recovery.at = "confirming"
  <2>1. CASE StartRecovery
    BY <2>1 DEF StartRecovery, recoveryKeeps, linkVars, hostVars, callVars, textVars, TurnFrame,
       SameStore, SameText
  <2>2. CASE RecoveryEnds
    BY <2>2, Constants DEF RecoveryEnds, recoveryKeeps, linkVars, hostVars, callVars, textVars,
       TurnFrame, SameStore, SameText
  <2>3. CASE \/ Refresh \/ (\E paused \in BOOLEAN : Command(paused)) \/ ResumeAutomatic
             \/ CommandFails
    BY <2>3 DEF Refresh, Command, ResumeAutomatic, CommandFails, sessionVars, linkVars, hostVars,
       callVars, textVars, historyVars, TurnFrame, SameStore, SameText
  <2> QED BY <2>1, <2>2, <2>3
<1>2. HostType'
  BY OtherHostTyped
<1>3. EInv' /\ Ledger' /\ NoReturn' /\ RecordedIsPersisted' /\ OrphanSound'
  BY <1>1, TurnFrameKeeps
<1>4. Link' /\ Stage'
  BY <1>1 DEF HInv, Link, Stage, TurnFrame, SameStore, vars, Member
<1>5. CarriesLatest'
  BY <1>1, CarriedStays DEF TurnFrame
<1>6. Submitted'
  BY <1>1 DEF HInv, Submitted, TurnFrame, SameStore, SameText, vars, Row, Latest, StateOf, Woken
<1>7. Evidence'
  BY <1>1, <1>3 DEF HInv, Evidence, TurnFrame, SameText
<1> QED BY <1>2, <1>3, <1>4, <1>5, <1>6, <1>7 DEF HInv

\* An entry reaches the session file.
LEMMA EntryKeeps == ASSUME HInv, EntryPersisted PROVE HInv'
<1>1. /\ SameStore /\ UNCHANGED <<transcript, retried, client, orphan, recovery>>
      /\ UNCHANGED <<pump, transport, batch, active, finish, request, answer>>
  BY DEF EntryPersisted, linkVars, sessionVars, hostVars, callVars, historyVars, SameStore
<1>2. HostType' /\ EInv'
  BY <1>1, OtherHostTyped, StepKeepsEvidence DEF HInv, SameStore
<1>3. persisted \subseteq persisted' /\ persisted' \subseteq Inserted
  <2>1. PICK i \in DOMAIN transcript : persisted' = persisted \cup transcript[i].messages
    BY DEF EntryPersisted
  <2>2. transcript[i].messages \subseteq Inserted
    BY DEF Inserted
  <2> QED BY <2>1, <2>2 DEF HInv, NoReturn
<1> USE DEF SameStore, vars, Member, Row, Latest, StateOf, Woken, Inserted
<1>4. Link' /\ Stage' /\ Submitted' /\ OrphanSound'
  <2>1. Link' /\ Stage' /\ Submitted'
    BY <1>1 DEF HInv, Link, Stage, Submitted
  <2>2. Sound(orphan) => Sound(orphan)'
    BY <1>1 DEF Sound
  <2> QED BY <1>1, <2>1, <2>2 DEF HInv, OrphanSound
<1>5. Ledger'
  BY <1>1 DEF HInv, Ledger, IsLive
<1>6. NoReturn'
  BY <1>1, <1>3 DEF HInv, NoReturn, PastMailbox
<1>7. Evidence'
  BY <1>1, <1>3 DEF HInv, Evidence, RecordedIsPersisted
<1>8. CarriesLatest'
  <2>1. \A a, M : Fresh(a, M) => Fresh(a, M)'
    BY <1>1 DEF Fresh
  <2>2. Carrying' => Fresh(batch.id, batch.messages)'
    BY <1>1, <2>1 DEF HInv, CarriesLatest, Carrying
  <2>3. ReservedAnswered' => Fresh(request.id, request.entries)'
    BY <1>1, <2>1 DEF HInv, CarriesLatest, ReservedAnswered
  <2> QED BY <1>1, <2>2, <2>3 DEF HInv, CarriesLatest, PastMailbox
<1> QED BY <1>2, <1>4, <1>5, <1>6, <1>7, <1>8 DEF HInv

\* The connection is lost at the host.
LEMMA DropKeeps == ASSUME HInv, Drop PROVE HInv'
<1>1. /\ SameStore /\ SameText /\ client # Offline /\ client' = Offline
      /\ UNCHANGED <<recovery, pump, transport, batch, active, finish, request>>
  BY DEF Drop, sessionVars, hostVars, textVars, historyVars, SameStore, SameText
<1>2. /\ HostType' /\ EInv' /\ Ledger' /\ NoReturn' /\ RecordedIsPersisted'
  BY <1>1, OtherHostTyped, StepKeepsEvidence, StandingStill DEF HInv, SameStore
<1> USE DEF SameStore, vars
<1>3. request # NoRequest => answer' = "error"
  BY DEF Drop, HInv, Link, HostType
<1>4. orphan' = orphan \/ (Awaiting /\ orphan' = request)
  BY DEF Drop, GiveUpCalls
<1>5. ASSUME orphan' # NoRequest, orphan'.by.generation = Member.generation
      PROVE  Awaiting /\ orphan' = request
  BY <1>1, <1>4, <1>5 DEF HInv, Link
<1>6. Link'
  <2>1. orphan' # NoRequest => orphan'.by.generation <= Member.generation
    <3>1. CASE orphan' = orphan
      BY <3>1 DEF HInv, Link
    <3>2. CASE Awaiting /\ orphan' = request
      <4>1. request.by.generation = Member.generation
        BY <3>2, AwaitedSound DEF HInv, Link
      <4>2. Member.generation \in Nat
        BY RolesAssumption DEF HInv, EInv, IInv, TypeOK, ParticipantRow, Member
      <4> QED BY <3>2, <4>1, <4>2
    <3> QED BY <1>4, <3>1, <3>2
  <2> QED BY <1>1, <1>3, <2>1 DEF Link, Member
<1>7. Stage'
  BY <1>1 DEF HInv, Stage
<1>8. CarriesLatest'
  <2>1. Carrying' => Fresh(batch.id, batch.messages)'
    BY <1>1, FreshStays DEF HInv, CarriesLatest, Carrying
  <2>2. ASSUME pump \in {"reserving", "dispatching"} PROVE answer' # "ok"
    BY <1>3, <2>2, Constants DEF HInv, Stage
  <2> QED BY <1>1, <2>1, <2>2 DEF HInv, CarriesLatest, ReservedAnswered
<1>9. Submitted'
  BY <1>1 DEF HInv, Submitted, SameText, Row, Latest, StateOf, Woken
<1>10. OrphanSound'
  <2>1. ASSUME orphan' # NoRequest, orphan'.by.generation = Member.generation
        PROVE  Sound(orphan)'
    <3>1. Sound(request) /\ orphan' = request
      BY <1>5, <2>1, AwaitedSound
    <3> QED BY <1>1, <3>1 DEF Sound, SameText, Row, Latest, StateOf, Woken
  <2> QED BY <1>1, <2>1 DEF OrphanSound, Member
<1>11. Evidence'
  BY <1>1, <1>2, <1>4 DEF HInv, Evidence, SameText
<1> QED BY <1>2, <1>6, <1>7, <1>8, <1>9, <1>10, <1>11 DEF HInv

\* The host starts anew.
LEMMA ReloadKeeps == ASSUME HInv, Reload PROVE HInv'
<1>1. /\ SameStore /\ SameText /\ client' = Offline /\ recovery' = NoRecovery
      /\ pump' = "idle" /\ active' = NoBatch /\ finish' = NoFinish
      /\ request' = NoRequest /\ answer' = "none"
  BY DEF Reload, EndPump, NoCall, textVars, historyVars, SameStore, SameText
<1>2. /\ HostType' /\ EInv' /\ Ledger' /\ NoReturn' /\ RecordedIsPersisted'
  BY <1>1, OtherHostTyped, StepKeepsEvidence, StandingStill DEF HInv, SameStore
<1> USE DEF SameStore, vars
<1>3. orphan' = orphan \/ (Awaiting /\ orphan' = request)
  BY DEF Reload, GiveUpCalls
<1>4. Link'
  <2>1. orphan' # NoRequest => orphan'.by.generation <= Member.generation
    <3>1. CASE orphan' = orphan
      BY <3>1 DEF HInv, Link
    <3>2. CASE Awaiting /\ orphan' = request
      <4>1. request.by.generation = Member.generation
        BY <3>2, AwaitedSound DEF HInv, Link
      <4>2. Member.generation \in Nat
        BY RolesAssumption DEF HInv, EInv, IInv, TypeOK, ParticipantRow, Member
      <4> QED BY <3>2, <4>1, <4>2
    <3> QED BY <1>3, <3>1, <3>2
  <2> QED BY <1>1, <2>1 DEF Link, Member
<1>5. Stage' /\ CarriesLatest' /\ Submitted'
  BY <1>1, Constants DEF Stage, CarriesLatest, Carrying, ReservedAnswered, Submitted
<1>6. OrphanSound'
  <2>1. ASSUME orphan' # NoRequest, orphan'.by.generation = Member.generation
        PROVE  Sound(orphan)'
    <3>1. Sound(orphan')
      BY <1>3, <2>1, AwaitedSound DEF HInv, OrphanSound
    <3> QED BY <1>1, <3>1 DEF Sound, SameText, Row, Latest, StateOf, Woken
  <2> QED BY <1>1, <2>1 DEF OrphanSound, Member
<1>7. Evidence'
  BY <1>1, <1>2, <1>3, Constants DEF HInv, Evidence, SameText
<1> QED BY <1>2, <1>4, <1>5, <1>6, <1>7 DEF HInv

\* The host's own steps keep the invariant.
LEMMA HostOnlyKeeps == ASSUME HInv, HostOnly PROVE HInv'
BY PumpKeeps, InsertKeeps, TurnKeeps, FinishReadsKeeps, FinishReturnsKeeps, UnnoticedKeeps,
   EntryKeeps, DropKeeps, ReloadKeeps DEF HostOnly

(***************************************************************************)
(* The broker's side.  No such step adds a run or revives one, and a row   *)
(* moves in one of few ways; that is all the rest of the argument needs.   *)
(***************************************************************************)
\* Runs stay as they are, or turn doubtful and pause the member.
LedgerCalm ==
    /\ DOMAIN activations' = DOMAIN activations
    /\ \A a \in DOMAIN activations :
        /\ activations'[a].participant = activations[a].participant
        /\ \/ activations'[a].state = activations[a].state
           \/ IsLive(a) /\ activations'[a].state = "uncertain" /\ participants'[Worker].paused
        /\ StateOf(a) = "uncertain" =>
            a \in reviewed' \/ (a \notin reviewed /\ (Member.paused => participants'[Worker].paused))

NoneLiveNext == \A a \in DOMAIN activations : activations'[a].state \notin LiveStates

\* How the row d of message m may move, to e.
RowCalm(m, d, e) ==
    \/ e.state = d.state /\ e.activation = d.activation
    \/ m \notin DOMAIN messages /\ e.state = "pending" /\ e.activation = 0
    \/ /\ e.activation = d.activation
       /\ \/ InFlight(d) /\ e.state = "uncertain" /\ NoneLiveNext
          \/ d.state = "pending" /\ e.state = "cancelled"
          \/ d.state # "pending" /\ e.state = "recorded" /\ m \in persisted
    \/ /\ d.state = "uncertain" /\ e.state = "pending" /\ e.activation = 0
       /\ m \in retried' /\ recovery.at = "confirming"

RowsCalm == \A m \in MsgIds : RowCalm(m, deliveries[m][Worker], deliveries'[m][Worker])

LinkCalm ==
    \/ client' = client /\ participants'[Worker].generation = participants[Worker].generation
    \/ /\ client = Offline /\ client'.generation = participants'[Worker].generation
       /\ participants'[Worker].generation = participants[Worker].generation + 1

Calm ==
    /\ LedgerCalm /\ RowsCalm /\ LinkCalm
    /\ retried \subseteq retried'
    /\ recovery'.at = "confirming" => recovery.at = "confirming" \/ pump # "dispatching"

\* What the host carries is as fresh after a calm step as before.
LEMMA FreshCalm ==
    ASSUME HInv, EInv', BrokerSideFrame, Calm, DOMAIN messages \subseteq DOMAIN messages',
           NEW a, NEW M, Fresh(a, M)
    PROVE  Fresh(a, M)'
<1>1. /\ a = Latest /\ a # 0 /\ a \notin Woken
      /\ M \subseteq DOMAIN messages /\ M \cap Inserted \subseteq retried
      /\ \A m \in MsgIds : Row(m).activation = a => m \in M
      /\ StateOf(a) = "reserved" =>
            \A m \in M : Row(m).activation = a /\ Row(m).state \in {"claimed", "recorded"}
  BY DEF Fresh
<1>2. /\ DOMAIN activations = 1..Len(activations) /\ Len(activations) \in Nat
      /\ DOMAIN activations' = 1..Len(activations') /\ Len(activations') \in Nat
  BY DEF HInv, EInv, IInv, TypeOK
<1>3. Latest' = Latest /\ a \in DOMAIN activations
  BY <1>1, <1>2 DEF Calm, LedgerCalm, Latest
<1>4. Woken' = Woken /\ Inserted' = Inserted
  BY DEF BrokerSideFrame, textVars, Woken, Inserted
<1>5. \A m \in MsgIds : Row(m)'.activation = a => Row(m).activation = a
  BY <1>1 DEF Calm, RowsCalm, RowCalm, Row
<1>6. ASSUME StateOf(a)' = "reserved", NEW m \in M
      PROVE  Row(m)'.activation = a /\ Row(m)'.state \in {"claimed", "recorded"}
  <2>1. activations'[a].state = "reserved" /\ StateOf(a) = "reserved"
    BY <1>3, <1>6 DEF Calm, LedgerCalm, StateOf
  <2>2. ~NoneLiveNext
    BY <1>3, <2>1 DEF NoneLiveNext, LiveStates
  <2>3. m \in DOMAIN messages /\ m \in MsgIds
    BY <1>1, MessageIds DEF HInv, EInv, IInv
  <2>4. Row(m).activation = a /\ Row(m).state \in {"claimed", "recorded"}
    BY <1>1, <2>1
  <2> QED BY <2>2, <2>3, <2>4 DEF Calm, RowsCalm, RowCalm, Row
<1>7. M \cap Inserted \subseteq retried'
  BY <1>1 DEF Calm
<1> QED BY <1>1, <1>3, <1>4, <1>5, <1>6, <1>7 DEF Fresh

\* A calm step of the broker's side keeps the invariant.
LEMMA CalmKeeps ==
    ASSUME HInv, EInv', HostType', BrokerSideFrame, Calm,
           DOMAIN messages \subseteq DOMAIN messages'
    PROVE  HInv'
<1>1. /\ UNCHANGED <<pump, transport, batch, active, finish, request, answer>>
      /\ UNCHANGED <<transcript, persisted, Woken, Inserted>>
      /\ orphan' \in {orphan, NoRequest}
  BY DEF BrokerSideFrame, hostVars, callVars, textVars, Woken, Inserted
<1>2. /\ DOMAIN activations = 1..Len(activations) /\ Len(activations) \in Nat
      /\ DOMAIN activations' = 1..Len(activations') /\ Len(activations') \in Nat
      /\ DOMAIN activations' = DOMAIN activations
  BY DEF HInv, EInv, IInv, TypeOK, Calm, LedgerCalm
<1>3. Latest' = Latest
  <2>1. \A i, j \in Nat : 1..i = 1..j => i = j
    OBVIOUS
  <2> QED BY <1>2, <2>1 DEF Latest
<1>4. Member.generation \in Nat /\ Member'.generation \in Nat
  BY RolesAssumption DEF HInv, EInv, IInv, TypeOK, ParticipantRow, Member
<1>5. Link'
  <2>1. CASE client' = client /\ participants'[Worker].generation = participants[Worker].generation
    BY <1>1, <2>1, Constants DEF HInv, Link, Member
  <2>2. CASE /\ client = Offline /\ client'.generation = participants'[Worker].generation
             /\ participants'[Worker].generation = participants[Worker].generation + 1
    <3>1. orphan # NoRequest => orphan.by.generation <= Member.generation
      BY DEF HInv, Link
    <3>2. orphan.by.generation \in Nat
      <4>1. orphan \in Requests
        BY DEF HInv, HostType
      <4>2. orphan.by \in ConnectionRows
        BY <4>1 DEF Requests
      <4> QED BY <4>2, BoundsAssumption DEF ConnectionRows
    <3>3. orphan' # NoRequest =>
            orphan'.by.generation <= Member'.generation /\ orphan'.by.generation # Member'.generation
      BY <1>1, <1>4, <2>2, <3>1, <3>2 DEF Member
    <3>4. request' # NoRequest => answer' = "error"
      BY <1>1, <2>2 DEF HInv, Link
    <3> QED BY <2>2, <3>3, <3>4 DEF Link, Member
  <2> QED BY <2>1, <2>2 DEF Calm, LinkCalm
<1>6. Stage'
  BY <1>1 DEF HInv, Stage
<1>7. ASSUME NEW a \in DOMAIN activations
      PROVE  /\ StateOf(a)' = "reserved" => StateOf(a) = "reserved"
             /\ StateOf(a)' = "cancelled" => StateOf(a) = "cancelled"
             /\ StateOf(a) \in {"dispatched", "uncertain"} =>
                    StateOf(a)' \in {"dispatched", "uncertain"}
  BY <1>7 DEF Calm, LedgerCalm, StateOf, IsLive
<1>8. \A m \in MsgIds : Row(m)'.activation \in {Row(m).activation, 0}
  BY DEF Calm, RowsCalm, RowCalm, Row
<1>9. CarriesLatest'
  <2>1. Carrying' => Fresh(batch.id, batch.messages)'
    <3>1. Carrying' => Fresh(batch.id, batch.messages)
      BY <1>1 DEF HInv, CarriesLatest, Carrying
    <3> QED BY <1>1, <3>1, FreshCalm
  <2>2. ReservedAnswered' => Fresh(request.id, request.entries)'
    <3>1. ReservedAnswered' => Fresh(request.id, request.entries)
      BY <1>1 DEF HInv, CarriesLatest, ReservedAnswered
    <3> QED BY <1>1, <3>1, FreshCalm
  <2>3. pump' = "dispatching" => recovery'.at # "confirming"
    BY <1>1 DEF HInv, CarriesLatest, Calm
  <2>4. ASSUME pump' = "dispatching", answer' = "ok"
        PROVE  /\ StateOf(batch.id)' \in {"dispatched", "uncertain"}
               /\ \A m \in batch.messages :
                    /\ PastMailbox(Row(m))'
                    /\ Row(m)'.state = "queued" => Row(m)'.activation = batch.id
    <3>1. /\ StateOf(batch.id) \in {"dispatched", "uncertain"}
          /\ \A m \in batch.messages :
                /\ PastMailbox(Row(m))
                /\ Row(m).state = "queued" => Row(m).activation = batch.id
          /\ recovery.at # "confirming" /\ Fresh(batch.id, batch.messages)
      BY <1>1, <2>4 DEF HInv, CarriesLatest, Carrying
    <3>2. batch.id \in DOMAIN activations /\ batch.messages \subseteq DOMAIN messages
      BY <1>2, <3>1 DEF Fresh, Latest
    <3>3. StateOf(batch.id)' \in {"dispatched", "uncertain"}
      BY <1>1, <1>7, <3>1, <3>2 DEF StateOf
    <3>4. ASSUME NEW m \in batch.messages
          PROVE  /\ PastMailbox(Row(m))'
                 /\ Row(m)'.state = "queued" => Row(m)'.activation = batch.id
      <4>1. m \in DOMAIN messages /\ m \in MsgIds
        BY <3>2, MessageIds DEF HInv, EInv, IInv
      <4>2. RowCalm(m, Row(m), Row(m)') /\ PastMailbox(Row(m))
        BY <3>1, <4>1 DEF Calm, RowsCalm, Row
      <4> QED BY <3>1, <4>1, <4>2 DEF RowCalm, PastMailbox, InFlight
    <3> QED BY <3>3, <3>4
  <2> QED BY <1>1, <2>1, <2>2, <2>3, <2>4 DEF CarriesLatest
<1>10. Submitted'
  <2>1. CASE active = NoBatch
    BY <1>1, <2>1 DEF Submitted
  <2>2. CASE active # NoBatch
    <3>1. /\ active.id = Latest /\ active.id # 0
          /\ StateOf(active.id) \notin {"reserved", "cancelled"}
          /\ active.id \in Woken \/ (finish # NoFinish /\ ~finish.complete)
          /\ \A m \in MsgIds : Row(m).activation = active.id => m \in active.messages
      BY <2>2 DEF HInv, Submitted
    <3>2. active.id \in DOMAIN activations
      BY <1>2, <3>1 DEF Latest
    <3>3. StateOf(active.id)' \notin {"reserved", "cancelled"}
      BY <1>1, <1>7, <3>1, <3>2 DEF StateOf
    <3>4. \A m \in MsgIds : Row(m)'.activation = active.id => m \in active.messages
      BY <1>8, <3>1
    <3> QED BY <1>1, <1>3, <3>1, <3>3, <3>4 DEF Submitted
  <2> QED BY <2>1, <2>2
<1>11. OrphanSound'
  <2>1. ASSUME orphan' # NoRequest, orphan'.by.generation = Member'.generation
        PROVE  orphan' = orphan /\ Sound(orphan)
    <3>1. orphan' = orphan /\ orphan # NoRequest
      BY <1>1, <2>1
    <3>2. orphan.by.generation <= Member.generation /\ orphan.by.generation \in Nat
      <4>1. orphan \in Requests /\ orphan.by.generation <= Member.generation
        BY <3>1 DEF HInv, HostType, Link
      <4>2. orphan.by \in ConnectionRows
        BY <4>1 DEF Requests
      <4> QED BY <4>1, <4>2, BoundsAssumption DEF ConnectionRows
    <3>3. orphan.by.generation = Member.generation
      BY <1>4, <2>1, <3>1, <3>2 DEF Calm, LinkCalm, Member
    <3> QED BY <3>1, <3>3 DEF HInv, OrphanSound
  <2>2. ASSUME NEW r, Sound(r) PROVE Sound(r)'
    <3>1. r.op = "auto-finish" =>
            /\ r.id \in DOMAIN activations /\ r.id # 0
            /\ StateOf(r.id)' \notin {"reserved", "cancelled"}
      <4>1. r.op = "auto-finish" => r.id \in DOMAIN activations /\ r.id # 0
        BY <1>2, <2>2 DEF Sound, Latest
      <4> QED BY <1>7, <2>2, <4>1 DEF Sound
    <3>2. r.op = "auto-finish" /\ r.complete =>
            \A m \in MsgIds : Row(m)'.activation = r.id => m \in r.entries
      BY <1>8, <2>2, <3>1 DEF Sound
    <3> QED BY <1>1, <1>3, <2>2, <3>1, <3>2 DEF Sound
  <2>3. ASSUME orphan' # NoRequest, orphan'.by.generation = Member'.generation
        PROVE  Sound(orphan)'
    <3>1. orphan' = orphan /\ Sound(orphan)
      BY <2>1, <2>3
    <3>2. Sound(orphan) => Sound(orphan)'
      <4>1. PICK r : r = orphan
        OBVIOUS
      <4>2. Sound(r)'
        BY <2>2, <3>1, <4>1
      <4> QED BY <3>1, <4>1, <4>2 DEF Sound
    <3> QED BY <3>1, <3>2
  <2> QED BY <2>3 DEF OrphanSound
<1>12. Ledger'
  <2>1. ASSUME NEW a \in DOMAIN activations
        PROVE  /\ activations'[a].participant = Worker
               /\ IsLive(a)' => a = Latest
               /\ StateOf(a)' = "uncertain" =>
                    a \in reviewed' \/ (a = Latest /\ Member'.paused)
    <3>1. /\ activations[a].participant = Worker /\ (IsLive(a) => a = Latest)
          /\ StateOf(a) = "uncertain" => a \in reviewed \/ (a = Latest /\ Member.paused)
      BY <2>1 DEF HInv, Ledger
    <3>2. /\ activations'[a].participant = activations[a].participant
          /\ \/ activations'[a].state = activations[a].state
             \/ IsLive(a) /\ activations'[a].state = "uncertain" /\ participants'[Worker].paused
          /\ StateOf(a) = "uncertain" =>
                \/ a \in reviewed'
                \/ a \notin reviewed /\ (Member.paused => participants'[Worker].paused)
      BY <2>1 DEF Calm, LedgerCalm
    <3>3. IsLive(a)' => IsLive(a)
      BY <3>2 DEF IsLive
    <3> QED BY <3>1, <3>2, <3>3 DEF StateOf, Member
  <2>2. \A a \in Woken : a \in DOMAIN activations /\ StateOf(a)' \notin {"reserved", "cancelled"}
    BY <1>7 DEF HInv, Ledger
  <2> QED BY <1>1, <1>2, <1>3, <2>1, <2>2 DEF Ledger
<1>13. NoReturn'
  <2>1. ASSUME NEW m \in Inserted \ retried'
        PROVE  /\ PastMailbox(Row(m))'
               /\ Row(m)'.state = "queued" => Row(m)'.activation \in Woken
    <3>1. /\ m \in Inserted \ retried /\ m \in DOMAIN messages /\ m \in MsgIds
      BY <2>1, MessageIds DEF Calm, HInv, NoReturn, EInv, IInv
    <3>2. PastMailbox(Row(m)) /\ (Row(m).state = "queued" => Row(m).activation \in Woken)
      BY <3>1 DEF HInv, NoReturn
    <3>3. RowCalm(m, Row(m), Row(m)')
      BY <3>1 DEF Calm, RowsCalm, Row
    <3> QED BY <2>1, <3>1, <3>2, <3>3 DEF RowCalm, PastMailbox
  <2> QED BY <1>1, <2>1 DEF HInv, NoReturn
<1>14. Evidence'
  <2>1. \A m \in MsgIds : deliveries'[m][Worker].state = "recorded" => m \in persisted
    BY DEF HInv, Evidence, RecordedIsPersisted, Calm, RowsCalm, RowCalm
  <2> QED BY <1>1, <2>1, Constants DEF HInv, Evidence, RecordedIsPersisted
<1> QED BY <1>5, <1>6, <1>9, <1>10, <1>11, <1>12, <1>13, <1>14 DEF HInv

\* A step that leaves the ledger alone and does not resume the member unseen.
LEMMA SameLedgerCalm ==
    ASSUME UNCHANGED activations,
           \A a \in DOMAIN activations : StateOf(a) = "uncertain" =>
                \/ a \in reviewed'
                \/ a \notin reviewed /\ (Member.paused => participants'[Worker].paused)
    PROVE  LedgerCalm
BY DEF LedgerCalm

\* The member's row after its connection ended.
LEMMA UnlinkedMember ==
    ASSUME EInv, NEW P, Worker \in P
    PROVE  /\ Member.paused \/ HasLiveActivation(Worker) => Unlinked(P)[Worker].paused
           /\ Unlinked(P)[Worker].generation = Member.generation
           /\ Unlinked(P)[Worker] \in ParticipantRow
<1>1. participants[Worker] \in ParticipantRow /\ Worker \in Participants
  BY RolesAssumption DEF EInv, IInv, TypeOK
<1>2. Unlinked(P)[Worker] = [participants[Worker] EXCEPT !.link = "none",
                                 !.paused = @ \/ HasLiveActivation(Worker)]
  BY <1>1 DEF Unlinked
<1>3. Unlinked(P)[Worker].generation = Member.generation
  BY <1>1, <1>2 DEF ParticipantRow, Member
<1>4. Unlinked(P)[Worker] \in ParticipantRow
  BY <1>1, UnlinkedTyped DEF EInv, IInv
<1>5. ASSUME Member.paused PROVE Unlinked(P)[Worker].paused
  BY <1>1, <1>2, <1>5 DEF ParticipantRow, Member
<1>6. ASSUME HasLiveActivation(Worker) PROVE Unlinked(P)[Worker].paused
  BY <1>1, <1>6, UnlinkedPauses DEF EInv
<1> QED BY <1>3, <1>4, <1>5, <1>6

\* Ending connections, the member's among them or not.
LEMMA SeverCalm ==
    ASSUME HInv, NEW P, Sever(P), UNCHANGED reviewed,
           Member.paused => participants'[Worker].paused,
           Worker \in P /\ HasLiveActivation(Worker) => participants'[Worker].paused
    PROVE  LedgerCalm /\ RowsCalm
<1>1. DOMAIN activations' = DOMAIN activations
  BY SeverTyped DEF HInv, EInv, IInv
<1>2. ASSUME NEW a \in DOMAIN activations
      PROVE  /\ activations'[a].participant = Worker /\ activations[a].participant = Worker
             /\ ~(Worker \in P /\ IsLive(a)) => activations'[a].state = activations[a].state
             /\ Worker \in P /\ IsLive(a) =>
                    activations'[a].state = "uncertain" /\ HasLiveActivation(Worker)
  <2>1. activations[a] \in Activation /\ activations[a].participant = Worker
    BY <1>2 DEF HInv, EInv, IInv, TypeOK, Ledger
  <2>2. activations'[a] = IF activations[a].participant \in P /\ IsLive(a)
                          THEN [activations[a] EXCEPT !.state = "uncertain"]
                          ELSE activations[a]
    BY <1>2 DEF Sever, InterruptedActivations
  <2>3. Worker \in P /\ IsLive(a) => HasLiveActivation(Worker)
    BY <1>2, <2>1 DEF HasLiveActivation
  <2> QED BY <2>1, <2>2, <2>3 DEF Activation
<1>3. LedgerCalm
  <2>1. ASSUME NEW a \in DOMAIN activations
        PROVE  /\ activations'[a].participant = activations[a].participant
               /\ \/ activations'[a].state = activations[a].state
                  \/ /\ IsLive(a) /\ activations'[a].state = "uncertain"
                     /\ participants'[Worker].paused
               /\ StateOf(a) = "uncertain" =>
                    \/ a \in reviewed'
                    \/ a \notin reviewed /\ (Member.paused => participants'[Worker].paused)
    BY <1>2, <2>1
  <2> QED BY <1>1, <2>1 DEF LedgerCalm
<1>4. RowsCalm
  <2> SUFFICES ASSUME NEW m \in MsgIds
               PROVE  RowCalm(m, deliveries[m][Worker], deliveries'[m][Worker])
    BY DEF RowsCalm
  <2>1. deliveries[m][Worker] \in Delivery
    BY RowTyped, RolesAssumption DEF HInv, EInv, IInv
  <2>2. deliveries'[m][Worker] =
            IF Worker \in P /\ InFlight(deliveries[m][Worker])
            THEN [deliveries[m][Worker] EXCEPT !.state = "uncertain"]
            ELSE deliveries[m][Worker]
    BY RolesAssumption DEF Sever, DeliveriesLeftUncertain
  <2>3. Worker \in P => NoneLiveNext
    BY <1>2 DEF NoneLiveNext, IsLive, LiveStates
  <2> QED BY <2>1, <2>2, <2>3 DEF RowCalm, Delivery
<1> QED BY <1>3, <1>4

\* Rows of messages that stay as they are.
LEMMA SameRowsCalm == ASSUME UNCHANGED deliveries PROVE RowsCalm
BY DEF RowsCalm, RowCalm

\* A new connection opens the next generation and moves no run or row.
LEMMA ReconnectCalm == ASSUME HInv, Reconnect PROVE Calm
<1>1. /\ client = Offline /\ Connect(Worker) /\ UNCHANGED <<recovery, retried, reviewed>>
      /\ client'.generation = participants'[Worker].generation
  BY DEF Reconnect, sessionVars, historyVars
<1>2. /\ participants' = [Unlinked({Worker}) EXCEPT
                            ![Worker].generation = participants[Worker].generation + 1,
                            ![Worker].link = "live"]
      /\ Sever({Worker})
  BY <1>1 DEF Connect
<1>3. /\ Member.paused \/ HasLiveActivation(Worker) => Unlinked({Worker})[Worker].paused
      /\ Unlinked({Worker})[Worker] \in ParticipantRow
  BY UnlinkedMember DEF HInv
<1>4. Unlinked({Worker}) \in [Participants -> ParticipantRow]
  BY UnlinkedTyped DEF HInv, EInv, IInv
<1>5. participants'[Worker] =
        [Unlinked({Worker})[Worker] EXCEPT
            !.generation = participants[Worker].generation + 1, !.link = "live"]
  BY <1>2, <1>4, RolesAssumption
<1>6. Member.paused \/ HasLiveActivation(Worker) => participants'[Worker].paused
  BY <1>3, <1>5 DEF ParticipantRow
<1>7. participants'[Worker].generation = participants[Worker].generation + 1
  BY <1>3, <1>5 DEF ParticipantRow
<1>8. LedgerCalm /\ RowsCalm
  BY <1>1, <1>2, <1>6, SeverCalm
<1>9. LinkCalm
  BY <1>1, <1>7 DEF LinkCalm
<1> QED BY <1>1, <1>8, <1>9 DEF Calm

\* The other ends of connections.
LEMMA LossCalm ==
    ASSUME HInv, (\E w \in actors : SocketCloses(w)) \/ BrokerStops \/ LeaseEnds
    PROVE  Calm
<1>1. UNCHANGED <<client, recovery, retried, reviewed>>
  BY DEF SocketCloses, BrokerStops, LeaseEnds, linkVars, sessionVars, historyVars
<1>2. ASSUME NEW P, participants' = Unlinked(P), Sever(P) PROVE Calm
  <2>1. /\ Member.paused => participants'[Worker].paused
        /\ Worker \in P /\ HasLiveActivation(Worker) => participants'[Worker].paused
        /\ participants'[Worker].generation = participants[Worker].generation
    <3>1. CASE Worker \in P
      BY <1>2, <3>1, UnlinkedMember DEF HInv, Member
    <3>2. CASE Worker \notin P
      BY <1>2, <3>2, UnlinkedRow, RolesAssumption DEF HInv, EInv, IInv, Member
    <3> QED BY <3>1, <3>2
  <2>2. LedgerCalm /\ RowsCalm
    BY <1>1, <1>2, <2>1, SeverCalm
  <2> QED BY <1>1, <2>1, <2>2 DEF Calm, LinkCalm
<1>3. ASSUME UNCHANGED <<deliveries, activations>>,
             Member.paused => participants'[Worker].paused,
             participants'[Worker].generation = participants[Worker].generation
      PROVE  Calm
  <2>1. LedgerCalm /\ RowsCalm
    BY <1>1, <1>3, SameLedgerCalm, SameRowsCalm
  <2> QED BY <1>1, <1>3, <2>1 DEF Calm, LinkCalm
<1>4. ASSUME NEW w \in actors, SocketCloses(w) PROVE Calm
  <2>1. CASE participants' = Unlinked({w.participant}) /\ Sever({w.participant})
    BY <1>2, <2>1
  <2>2. CASE UNCHANGED <<participants, roomPaused, mailVars, wakeVars>>
    BY <1>3, <2>2 DEF mailVars, wakeVars, Member
  <2> QED BY <1>4, <2>1, <2>2 DEF SocketCloses, Disconnect
<1>5. ASSUME BrokerStops PROVE Calm
  BY <1>2, <1>5 DEF BrokerStops, BrokerRestart
<1>6. ASSUME LeaseEnds PROVE Calm
  <2>1. CASE Expire
    <3>1. PICK P : participants' = Unlinked(P) /\ Sever(P)
      BY <2>1 DEF Expire
    <3> QED BY <1>2, <3>1
  <2>2. CASE LeaseLapse(Worker)
    <3>1. participants[Worker] \in ParticipantRow
      BY RolesAssumption DEF HInv, EInv, IInv, TypeOK
    <3>2. participants'[Worker] = [participants[Worker] EXCEPT !.link = "lapsed"]
      BY <2>2, RolesAssumption DEF LeaseLapse, HInv, EInv, IInv, TypeOK
    <3>3. Member.paused => participants'[Worker].paused
      BY <3>1, <3>2 DEF ParticipantRow, Member
    <3>4. participants'[Worker].generation = participants[Worker].generation
      BY <3>1, <3>2 DEF ParticipantRow
    <3> QED BY <1>3, <2>2, <3>3, <3>4 DEF LeaseLapse, mailVars, wakeVars
  <2> QED BY <1>6, <2>1, <2>2 DEF LeaseEnds
<1> QED BY <1>4, <1>5, <1>6

\* One row of the member changes.
LEMMA SetDeliveryCalm ==
    ASSUME HInv, NEW m \in DOMAIN messages, NEW d, SetDelivery(m, Worker, d),
           RowCalm(m, deliveries[m][Worker], d), UNCHANGED reviewed
    PROVE  /\ LedgerCalm /\ RowsCalm
           /\ participants'[Worker].generation = participants[Worker].generation
<1>1. m \in MsgIds /\ deliveries \in [MsgIds -> [Participants -> Delivery]]
  BY MessageIds DEF HInv, EInv, IInv, TypeOK
<1>2. UNCHANGED <<activations, participants>>
  BY DEF SetDelivery, wakeVars, memberVars
<1>3. \A n \in MsgIds : deliveries'[n][Worker] = IF n = m THEN d ELSE deliveries[n][Worker]
  BY <1>1, RolesAssumption DEF SetDelivery
<1>4. RowsCalm
  BY <1>3 DEF RowsCalm, RowCalm
<1>5. LedgerCalm
  BY <1>2, SameLedgerCalm DEF Member
<1> QED BY <1>2, <1>4, <1>5

\* Recovery records what the session file shows.
LEMMA RecoveryReadsCalm == ASSUME HInv, RecoveryReads PROVE Calm
<1> DEFINE m == recovery.message
<1>1. /\ UNCHANGED <<client, retried, reviewed>> /\ client # Offline
      /\ pump # "dispatching" /\ m \in DOMAIN messages
  BY DEF RecoveryReads, recoveryKeeps, linkVars, HInv, HostType
<1>2. CASE m \in persisted /\ Reconcile(client, m)
  <2>1. client.participant = Worker
    BY DEF HInv, HostType, ConnectionRows
  <2>2. deliveries[m][Worker] \in Delivery /\ m \in MsgIds
    BY <1>1, MessageIds, RowTyped, RolesAssumption DEF HInv, EInv, IInv
  <2> DEFINE d == [deliveries[m][Worker] EXCEPT !.state = "recorded"]
  <2>3. SetDelivery(m, Worker, d) /\ deliveries[m][Worker].state # "pending"
    BY <1>2, <2>1 DEF Reconcile, Attempted, MoveTo
  <2>4. d.state = "recorded" /\ d.activation = deliveries[m][Worker].activation
    BY <2>2 DEF Delivery
  <2>5. RowCalm(m, deliveries[m][Worker], d)
    BY <1>2, <2>3, <2>4 DEF RowCalm
  <2> HIDE DEF d
  <2>6. /\ LedgerCalm /\ RowsCalm
        /\ participants'[Worker].generation = participants[Worker].generation
    BY <1>1, <2>3, <2>5, SetDeliveryCalm
  <2> QED BY <1>1, <2>6 DEF Calm, LinkCalm
<1>3. CASE UNCHANGED vars
  <2>1. UNCHANGED <<deliveries, activations, participants>>
    BY <1>3 DEF vars, memberVars, mailVars, wakeVars
  <2>2. LedgerCalm /\ RowsCalm
    BY <1>1, <2>1, SameLedgerCalm, SameRowsCalm DEF Member
  <2> QED BY <1>1, <2>1, <2>2 DEF Calm, LinkCalm
<1> QED BY <1>2, <1>3 DEF RecoveryReads

\* A confirmed retry returns one doubtful row to the mailbox.
LEMMA RecoveryConfirmedCalm == ASSUME HInv, RecoveryConfirmed PROVE Calm
<1> DEFINE m == recovery.message
           d == [deliveries[m][Worker] EXCEPT !.state = "pending", !.activation = 0]
<1>1. /\ UNCHANGED <<client, reviewed>> /\ m \in DOMAIN messages
      /\ recovery.at = "confirming" /\ retried' = retried \cup {m} /\ recovery' = NoRecovery
  BY DEF RecoveryConfirmed, recoveryKeeps, linkVars, HInv, HostType
<1>2. deliveries[m][Worker] \in Delivery
  BY <1>1, MessageIds, RowTyped, RolesAssumption DEF HInv, EInv, IInv
<1>3. SetDelivery(m, Worker, d) /\ deliveries[m][Worker].state = "uncertain"
  BY DEF RecoveryConfirmed, Retry
<1>4. d.state = "pending" /\ d.activation = 0
  BY <1>2 DEF Delivery
<1>5. RowCalm(m, deliveries[m][Worker], d)
  BY <1>1, <1>3, <1>4 DEF RowCalm
<1> HIDE DEF d
<1>6. /\ LedgerCalm /\ RowsCalm
      /\ participants'[Worker].generation = participants[Worker].generation
  BY <1>1, <1>3, <1>5, SetDeliveryCalm
<1> QED BY <1>1, <1>6, Constants DEF Calm, LinkCalm

\* A new message has a new row; the others stay.
LEMMA AskCalm == ASSUME HInv, Ask PROVE Calm
<1>1. UNCHANGED <<client, recovery, retried, reviewed>>
  BY DEF Ask, linkVars, sessionVars, historyVars
<1>2. PICK w \in actors, t \in Threads, k \in Keys :
        w.participant = Asker /\ Send(w, {Worker}, "question", t, 0, k)
  BY DEF Ask
<1> DEFINE msg == [sender |-> w.participant, thread |-> t, type |-> "question",
                   human |-> FALSE, replyTo |-> 0, key |-> k]
<1>3. Store(msg, {Worker}, {})
  BY <1>2 DEF Send
<1>4. UNCHANGED <<activations, participants>>
  BY <1>3 DEF Store, wakeVars, memberVars
<1>5. ASSUME NEW n \in MsgIds
      PROVE  deliveries'[n][Worker] = IF n = Len(messages) + 1
                                      THEN NewDelivery(msg, Worker) ELSE deliveries[n][Worker]
  BY <1>3, RolesAssumption DEF Store
<1>6. NewDelivery(msg, Worker).state = "pending" /\ NewDelivery(msg, Worker).activation = 0
  BY DEF NewDelivery, Absent
<1>7. Len(messages) + 1 \notin DOMAIN messages
  BY DEF HInv, EInv, IInv, TypeOK
<1> HIDE DEF msg
<1>8. RowsCalm
  BY <1>5, <1>6, <1>7 DEF RowsCalm, RowCalm
<1>9. LedgerCalm
  BY <1>1, <1>4, SameLedgerCalm DEF Member
<1> QED BY <1>1, <1>4, <1>8, <1>9 DEF Calm, LinkCalm

\* A resolved thread cancels what waits, never what is in flight.
LEMMA CloseCalm == ASSUME HInv, Close PROVE Calm
<1>1. UNCHANGED <<client, recovery, retried, reviewed>>
  BY DEF Close, linkVars, sessionVars, historyVars
<1>2. PICK t \in Threads : Resolve(t)
  BY DEF Close
<1>3. UNCHANGED <<activations, participants>>
  BY <1>2 DEF Resolve, wakeVars, memberVars
<1>4. RowsCalm
  <2> SUFFICES ASSUME NEW m \in MsgIds
               PROVE  RowCalm(m, deliveries[m][Worker], deliveries'[m][Worker])
    BY DEF RowsCalm
  <2> DEFINE d == deliveries[m][Worker]
             e == [d EXCEPT !.obligation = IF @ = "open" THEN "resolved" ELSE @,
                            !.state = IF @ = "pending" THEN "cancelled" ELSE @]
  <2>1. d \in Delivery
    BY RowTyped, RolesAssumption DEF HInv, EInv, IInv
  <2>2. deliveries'[m][Worker] = IF m \in DOMAIN messages /\ messages[m].thread = t
                                 THEN e ELSE d
    BY <1>2, RolesAssumption DEF Resolve
  <2>3. /\ e.activation = d.activation
        /\ e.state = IF d.state = "pending" THEN "cancelled" ELSE d.state
    BY <2>1 DEF Delivery
  <2> HIDE DEF e, d
  <2>4. RowCalm(m, d, e) /\ RowCalm(m, d, d)
    BY <2>3 DEF RowCalm
  <2> QED BY <2>2, <2>4 DEF d
<1>5. LedgerCalm
  BY <1>1, <1>3, SameLedgerCalm DEF Member
<1> QED BY <1>1, <1>3, <1>4, <1>5 DEF Calm, LinkCalm

\* The human's pause and resume.  A resume leaves nothing doubtful unseen.
LEMMA CommandCalm == ASSUME HInv, PauseLocal \/ ResumeLocal PROVE Calm
<1>1. UNCHANGED <<client, recovery, retried>>
  BY DEF PauseLocal, ResumeLocal, linkVars, historyVars
<1>2. ASSUME NEW b \in BOOLEAN, Pause(Worker, b)
      PROVE  /\ UNCHANGED <<deliveries, activations>>
             /\ participants'[Worker].paused = b
             /\ participants'[Worker].generation = participants[Worker].generation
  <2>1. participants[Worker] \in ParticipantRow
    BY RolesAssumption DEF HInv, EInv, IInv, TypeOK
  <2>2. participants'[Worker] = [participants[Worker] EXCEPT !.paused = b]
    BY <1>2, RolesAssumption DEF Pause, HInv, EInv, IInv, TypeOK
  <2> QED BY <1>2, <2>1, <2>2 DEF Pause, ParticipantRow, mailVars, wakeVars
<1>3. CASE PauseLocal
  <2>1. UNCHANGED reviewed /\ Pause(Worker, TRUE)
    BY <1>3 DEF PauseLocal, historyVars
  <2>2. LedgerCalm /\ RowsCalm
    BY <1>2, <2>1, SameLedgerCalm, SameRowsCalm
  <2> QED BY <1>1, <1>2, <2>1, <2>2 DEF Calm, LinkCalm
<1>4. CASE ResumeLocal
  <2>1. /\ Pause(Worker, FALSE)
        /\ reviewed' = {a \in DOMAIN activations : activations[a].state = "uncertain"}
    BY <1>4 DEF ResumeLocal
  <2>2. \A a \in DOMAIN activations : StateOf(a) = "uncertain" => a \in reviewed'
    BY <2>1 DEF StateOf
  <2>3. LedgerCalm /\ RowsCalm
    BY <1>2, <2>1, <2>2, SameLedgerCalm, SameRowsCalm
  <2> QED BY <1>1, <1>2, <2>1, <2>3 DEF Calm, LinkCalm
<1> QED BY <1>3, <1>4

\* The steps of the broker's side keep the invariant.
LEMMA BrokerSideKeeps == ASSUME HInv, BrokerSide PROVE HInv'
<1>1. Calm
  BY ReconnectCalm, LossCalm, RecoveryReadsCalm, RecoveryConfirmedCalm, AskCalm, CloseCalm,
     CommandCalm DEF BrokerSide
<1>2. EInv'
  BY BrokerSideIsStore, StepKeepsEvidence DEF HInv
<1> QED BY <1>1, <1>2, BrokerSideGrows, BrokerSideFramed, BrokerSideTyped, CalmKeeps

(***************************************************************************)
(* What the broker serves: it adds a run or moves the last one.            *)
(***************************************************************************)
\* Only the last run moves, to state s.
LatestMoves(s) ==
    /\ DOMAIN activations' = DOMAIN activations
    /\ \A a \in DOMAIN activations :
        /\ activations'[a].participant = activations[a].participant
        /\ activations'[a].state = IF a = Latest THEN s ELSE activations[a].state

SameRow(m) ==
    /\ deliveries'[m][Worker].state = Row(m).state
    /\ deliveries'[m][Worker].activation = Row(m).activation

ReservedNow ==
    /\ ~HasLiveActivation(Worker) /\ ~Member.paused
    /\ UNCHANGED <<participants, messages>>
    /\ DOMAIN activations' = DOMAIN activations \cup {Latest + 1}
    /\ \A a \in DOMAIN activations : activations'[a] = activations[a]
    /\ activations'[Latest + 1].participant = Worker
    /\ activations'[Latest + 1].state = "reserved"
    /\ Batch(Worker) \subseteq DOMAIN messages
    /\ \A m \in MsgIds :
        /\ m \notin Batch(Worker) => SameRow(m)
        /\ m \in Batch(Worker) =>
            /\ Row(m).state = "pending"
            /\ deliveries'[m][Worker].state = "claimed"
            /\ deliveries'[m][Worker].activation = Latest + 1

\* Rows of the run go back, or are recorded as E says.
RefundedNow(E) ==
    /\ UNCHANGED <<participants, messages>>
    /\ IsLive(Latest) /\ LatestMoves("cancelled")
    /\ \A m \in MsgIds :
        \/ SameRow(m)
        \/ /\ m \in E /\ deliveries'[m][Worker].state = "recorded"
           /\ deliveries'[m][Worker].activation = Row(m).activation
        \/ /\ Row(m).activation = Latest /\ InFlight(Row(m))
           /\ deliveries'[m][Worker].state \in {"pending", "cancelled"}
           /\ deliveries'[m][Worker].activation = 0

DispatchedNow ==
    /\ UNCHANGED <<participants, messages>>
    /\ StateOf(Latest) = "reserved" /\ LatestMoves("dispatched")
    /\ \A m \in MsgIds :
        /\ deliveries'[m][Worker].activation = Row(m).activation
        /\ Row(m).activation # Latest => deliveries'[m][Worker].state = Row(m).state
        /\ Row(m).activation = Latest =>
            Row(m).state = "claimed" /\ deliveries'[m][Worker].state = "queued"

\* A run that was woken is settled, or doubtful and its member paused.
ReportedNow(E) ==
    /\ UNCHANGED messages
    /\ participants'[Worker].generation = participants[Worker].generation
    /\ Member.paused => participants'[Worker].paused
    /\ StateOf(Latest) \in {"dispatched", "uncertain"}
    /\ \/ LatestMoves("settled") /\ Latest \in Woken
       \/ LatestMoves("uncertain") /\ participants'[Worker].paused
    /\ \A m \in MsgIds :
        /\ deliveries'[m][Worker].activation = Row(m).activation
        /\ \/ deliveries'[m][Worker].state = Row(m).state
           \/ m \in E /\ deliveries'[m][Worker].state = "recorded"
           \/ InFlight(Row(m)) /\ deliveries'[m][Worker].state = "uncertain"

\* auto-reserve adds one run and claims its batch.
LEMMA ReserveEffect ==
    ASSUME HInv, NEW w \in actors, w.participant = Worker, AutoReserve(w) PROVE ReservedNow
<1>1. /\ Reservable(w) /\ UNCHANGED <<participants, messages>>
      /\ activations' = Append(activations, [participant |-> Worker, session |-> w.session,
                                             generation |-> w.generation, state |-> "reserved"])
      /\ deliveries' =
            [m \in MsgIds |-> [r \in Participants |->
                IF m \in Batch(Worker) /\ r = Worker
                THEN [deliveries[m][r] EXCEPT
                        !.state = "claimed", !.activation = Latest + 1,
                        !.session = w.session, !.generation = w.generation]
                ELSE deliveries[m][r]]]
  BY DEF AutoReserve, memberVars, Latest
<1>2. ~HasLiveActivation(Worker) /\ ~Member.paused
  BY <1>1 DEF Reservable, PausedFor, Member
<1>3. /\ DOMAIN activations = 1..Latest /\ Latest \in Nat /\ Latest = Len(activations)
      /\ activations \in Seq(Activation)
  BY DEF HInv, EInv, IInv, TypeOK, Latest
<1>4. /\ DOMAIN activations' = DOMAIN activations \cup {Latest + 1}
      /\ \A a \in DOMAIN activations : activations'[a] = activations[a]
      /\ activations'[Latest + 1].participant = Worker
      /\ activations'[Latest + 1].state = "reserved"
  <2> DEFINE act == [participant |-> Worker, session |-> w.session,
                     generation |-> w.generation, state |-> "reserved"]
  <2>1. act \in Activation
    <3>1. w \in WorkerActor /\ "reserved" \in ActivationStates
      BY DEF HInv, EInv, IInv, TypeOK, ActivationStates, LiveStates
    <3> QED BY <3>1, RolesAssumption DEF WorkerActor, Activation
  <2>2. act.participant = Worker /\ act.state = "reserved"
    OBVIOUS
  <2>3. activations' = Append(activations, act)
    BY <1>1
  <2> HIDE DEF act
  <2>4. /\ Len(activations') = Latest + 1
        /\ \A a \in 1..Latest : activations'[a] = activations[a]
        /\ activations'[Latest + 1] = act
    BY <1>3, <2>1, <2>3
  <2>5. DOMAIN activations' = 1..(Latest + 1)
    BY <1>3, <2>1, <2>3
  <2> QED BY <1>3, <2>2, <2>4, <2>5
<1>5. /\ Batch(Worker) \subseteq DOMAIN messages
      /\ \A m \in Batch(Worker) : Row(m).state = "pending"
  BY DEF Batch, Candidates, Row
<1>6. ASSUME NEW m \in MsgIds
      PROVE  /\ m \notin Batch(Worker) => SameRow(m)
             /\ m \in Batch(Worker) =>
                    /\ deliveries'[m][Worker].state = "claimed"
                    /\ deliveries'[m][Worker].activation = Latest + 1
  <2>1. deliveries[m][Worker] \in Delivery
    BY RowTyped, RolesAssumption DEF HInv, EInv, IInv
  <2>2. deliveries'[m][Worker] =
            IF m \in Batch(Worker)
            THEN [deliveries[m][Worker] EXCEPT
                    !.state = "claimed", !.activation = Latest + 1,
                    !.session = w.session, !.generation = w.generation]
            ELSE deliveries[m][Worker]
    BY <1>1, RolesAssumption
  <2> QED BY <2>1, <2>2 DEF SameRow, Row, Delivery
<1> QED BY <1>1, <1>2, <1>4, <1>5, <1>6 DEF ReservedNow

\* The runs after a change of the last one's state.
LEMMA LatestMoved ==
    ASSUME HInv, Latest \in DOMAIN activations, NEW s \in ActivationStates,
           activations' = [activations EXCEPT ![Latest].state = s]
    PROVE  LatestMoves(s)
BY RunMoves DEF HInv, EInv, LatestMoves

\* auto-cancel and auto-reconcile refund the last run.
LEMMA RefundEffect ==
    ASSUME HInv, Latest \in DOMAIN activations, IsLive(Latest), NEW E,
           NEW ds, ds = deliveries \/ ds = RecordedBy(Latest, E), Refund(ds, Latest)
    PROVE  RefundedNow(E)
<1>1. /\ activations' = [activations EXCEPT ![Latest].state = "cancelled"]
      /\ UNCHANGED <<participants, messages>>
  BY DEF Refund, memberVars
<1>2. LatestMoves("cancelled")
  <2>1. "cancelled" \in ActivationStates
    BY DEF ActivationStates
  <2> QED BY <1>1, <2>1, LatestMoved
<1>3. ASSUME NEW m \in MsgIds
      PROVE  \/ SameRow(m)
             \/ /\ m \in E /\ deliveries'[m][Worker].state = "recorded"
                /\ deliveries'[m][Worker].activation = Row(m).activation
             \/ /\ Row(m).activation = Latest /\ InFlight(Row(m))
                /\ deliveries'[m][Worker].state \in {"pending", "cancelled"}
                /\ deliveries'[m][Worker].activation = 0
  <2> DEFINE d == ds[m][Worker]
             e == [d EXCEPT !.state = IF /\ d.obligation \in ActiveObligations
                                         /\ ThreadOpen(m)
                                      THEN "pending" ELSE "cancelled",
                            !.activation = 0, !.session = NoSession, !.generation = 0]
  <2>1. deliveries'[m][Worker] = IF d.activation = Latest /\ InFlight(d) THEN e ELSE d
    BY RolesAssumption DEF Refund
  <2>2. Row(m) \in Delivery
    BY RowTyped, RolesAssumption DEF HInv, EInv, IInv, Row
  <2>3. \/ d = Row(m)
        \/ m \in E /\ d = [Row(m) EXCEPT !.state = "recorded"]
    BY RolesAssumption DEF RecordedBy, Row
  <2>4. d \in Delivery
    BY <2>2, <2>3, StateTyped DEF DeliveryStates
  <2> HIDE DEF d
  <2>5. e.state \in {"pending", "cancelled"} /\ e.activation = 0
    BY <2>4 DEF Delivery
  <2> HIDE DEF e
  <2>6. CASE d = Row(m)
    BY <2>1, <2>5, <2>6 DEF SameRow
  <2>7. CASE m \in E /\ d = [Row(m) EXCEPT !.state = "recorded"]
    <3>1. d.state = "recorded" /\ d.activation = Row(m).activation
      BY <2>2, <2>7 DEF Delivery
    <3>2. deliveries'[m][Worker] = d
      BY <2>1, <3>1 DEF InFlight, InFlightStates
    <3> QED BY <2>7, <3>1, <3>2
  <2> QED BY <2>3, <2>6, <2>7
<1> QED BY <1>1, <1>2, <1>3 DEF RefundedNow

\* auto-dispatch charges the last run, or refunds it if it lost its rows.
LEMMA DispatchEffect ==
    ASSUME HInv, NEW w, w.participant = Worker, Latest \in DOMAIN activations,
           AutoDispatch(w, Latest)
    PROVE  \/ RefundedNow({}) /\ activations'[Latest].state = "cancelled"
           \/ DispatchedNow
<1>1. CASE PausedFor(w.participant) \/ Obsolete(Latest)
  <2>1. RefundedNow({})
    <3>1. IsLive(Latest) /\ Refund(deliveries, Latest)
      BY <1>1 DEF AutoDispatch, IsLive, LiveStates
    <3> QED BY <3>1, RefundEffect
  <2> QED BY <2>1 DEF RefundedNow, LatestMoves
<1>2. CASE ~(PausedFor(w.participant) \/ Obsolete(Latest))
  <2>1. /\ activations' = [activations EXCEPT ![Latest].state = "dispatched"]
        /\ UNCHANGED <<participants, messages>> /\ StateOf(Latest) = "reserved"
    BY <1>2 DEF AutoDispatch, memberVars, StateOf
  <2>2. LatestMoves("dispatched")
    <3>1. "dispatched" \in ActivationStates
      BY DEF ActivationStates, LiveStates
    <3> QED BY <2>1, <3>1, LatestMoved
  <2>3. ASSUME NEW m \in MsgIds
        PROVE  /\ deliveries'[m][Worker].activation = Row(m).activation
               /\ Row(m).activation # Latest => deliveries'[m][Worker].state = Row(m).state
               /\ Row(m).activation = Latest =>
                    Row(m).state = "claimed" /\ deliveries'[m][Worker].state = "queued"
    <3>1. Row(m) \in Delivery
      BY RowTyped, RolesAssumption DEF HInv, EInv, IInv, Row
    <3>2. deliveries'[m][Worker] = IF Row(m).activation = Latest
                                   THEN [Row(m) EXCEPT !.state = "queued"] ELSE Row(m)
      <4>1. deliveries' = [n \in MsgIds |-> [p \in Participants |->
                             IF deliveries[n][p].activation = Latest
                             THEN [deliveries[n][p] EXCEPT !.state = "queued"]
                             ELSE deliveries[n][p]]]
        BY <1>2 DEF AutoDispatch
      <4> QED BY <4>1, RolesAssumption DEF Row
    <3>3. Row(m).activation = Latest => Row(m).state = "claimed"
      <4>1. Row(m).activation = Latest => m \in DOMAIN messages
        BY ActivationIds, RolesAssumption DEF HInv, EInv, IInv, EmptyRows, Row
      <4> QED BY <1>2, <4>1, RolesAssumption DEF Obsolete, Row
    <3> QED BY <3>1, <3>2, <3>3 DEF Delivery
  <2> QED BY <2>1, <2>2, <2>3 DEF DispatchedNow
<1> QED BY <1>1, <1>2

\* The report of a complete run names all its rows, so the run is settled.
LEMMA FinishEffect ==
    ASSUME HInv, NEW w, w.participant = Worker, Latest \in DOMAIN activations,
           NEW complete \in BOOLEAN, NEW E, AutoFinish(w, Latest, complete, E),
           complete => \A m \in MsgIds : Row(m).activation = Latest => m \in E,
           complete => Latest \in Woken, StateOf(Latest) \notin {"reserved", "cancelled"}
    PROVE  ReportedNow(E)
<1>1. ASSUME NEW m \in MsgIds, NEW p \in Participants
      PROVE  /\ deliveries'[m][p].activation = deliveries[m][p].activation
             /\ \/ deliveries'[m][p].state = deliveries[m][p].state
                \/ m \in E /\ deliveries'[m][p].state = "recorded"
                \/ InFlight(deliveries[m][p]) /\ deliveries'[m][p].state = "uncertain"
             /\ m \in E /\ deliveries[m][p].activation = Latest =>
                    deliveries'[m][p].state = "recorded"
  <2> DEFINE d == deliveries[m][p]
             r == RecordedBy(Latest, E)[m][p]
             e == [r EXCEPT !.state = "uncertain"]
  <2>1. deliveries'[m][p] = IF r.activation = Latest /\ InFlight(r) THEN e ELSE r
    BY DEF AutoFinish
  <2>2. r = IF m \in E /\ d.activation = Latest THEN [d EXCEPT !.state = "recorded"] ELSE d
    BY DEF RecordedBy
  <2>3. d \in Delivery
    BY RowTyped DEF HInv, EInv, IInv
  <2> HIDE DEF d, r
  <2>4. r.activation = d.activation /\ r \in Delivery
        /\ r.state = IF m \in E /\ d.activation = Latest THEN "recorded" ELSE d.state
    BY <2>2, <2>3, StateTyped DEF Delivery, DeliveryStates
  <2>5. e.state = "uncertain" /\ e.activation = r.activation
    BY <2>4 DEF Delivery
  <2> HIDE DEF e
  <2> QED BY <2>1, <2>4, <2>5 DEF InFlight, InFlightStates, d
<1> DEFINE missing == \E m \in MsgIds, p \in Participants :
                         /\ deliveries'[m][p].activation = Latest
                         /\ deliveries'[m][p].state # "recorded"
           s == IF missing \/ ~complete THEN "uncertain" ELSE "settled"
<1>2. /\ activations' = [activations EXCEPT ![Latest].state = s] /\ UNCHANGED messages
      /\ participants' = [participants EXCEPT ![Worker].paused = @ \/ ~complete]
  BY DEF AutoFinish
<1>3. complete => ~missing
  <2>1. ASSUME complete, NEW m \in MsgIds, NEW p \in Participants,
               deliveries'[m][p].activation = Latest
        PROVE  deliveries'[m][p].state = "recorded"
    <3>1. deliveries[m][p].activation = Latest /\ Latest # 0
      BY <1>1, <2>1, ActivationIds DEF HInv, EInv, IInv
    <3>2. p = Worker
      BY <3>1 DEF HInv, EInv, RowsOfRuns, Ledger
    <3>3. m \in E
      BY <2>1, <3>1, <3>2 DEF Row
    <3> QED BY <1>1, <3>1, <3>3
  <2> QED BY <2>1
<1>4. s \in ActivationStates /\ s \in {"settled", "uncertain"} /\ (s = "uncertain" => ~complete)
  BY <1>3 DEF ActivationStates
<1> HIDE DEF missing, s
<1>5. LatestMoves(s)
  BY <1>2, <1>4, LatestMoved
<1>6. participants[Worker] \in ParticipantRow
  BY RolesAssumption DEF HInv, EInv, IInv, TypeOK
<1>7. participants'[Worker] = [participants[Worker] EXCEPT !.paused = @ \/ ~complete]
  BY <1>2, RolesAssumption DEF HInv, EInv, IInv, TypeOK
<1>8. participants'[Worker].generation = participants[Worker].generation
  BY <1>6, <1>7 DEF ParticipantRow
<1>9. Member.paused \/ ~complete => participants'[Worker].paused
  BY <1>6, <1>7 DEF ParticipantRow, Member
<1>10. StateOf(Latest) \in {"dispatched", "uncertain"}
  <2>1. StateOf(Latest) \in ActivationStates \ {"cancelled", "settled"}
    <3>1. activations[Latest] \in Activation
      BY DEF HInv, EInv, IInv, TypeOK
    <3>2. activations[Latest].state \notin {"cancelled", "settled"}
      BY DEF AutoFinish
    <3> QED BY <3>1, <3>2 DEF StateOf, Activation
  <2> QED BY <2>1 DEF ActivationStates, LiveStates
<1>11. s = "settled" => Latest \in Woken
  <2>1. s = "settled" => complete
    BY DEF s
  <2> QED BY <2>1
<1> QED BY <1>1, <1>2, <1>4, <1>5, <1>8, <1>9, <1>10, <1>11, RolesAssumption DEF ReportedNow, Row

\* What serving call r with the given reply does.
Effect(r, reply) ==
    \/ UNCHANGED vars /\ (r.op \in {"auto-reserve", "auto-dispatch"} => reply # "ok")
    \/ r.op = "auto-reserve" /\ ReservedNow
    \/ /\ r.op \in {"auto-cancel", "auto-dispatch", "auto-reconcile"} /\ RefundedNow(persisted)
       /\ r.op = "auto-dispatch" => reply # "ok"
    \/ r.op = "auto-dispatch" /\ DispatchedNow
    \/ r.op = "auto-finish" /\ ReportedNow(persisted)

\* The effect of each call that is served.
LEMMA ServedEffect ==
    ASSUME HInv, NEW r \in Requests, NEW reply, Handle(r, reply), r.by \in actors,
           r.op # "none", Sound(r),
           r.op \in {"auto-reconcile", "auto-finish"} => r.entries \subseteq persisted
    PROVE  Effect(r, reply)
<1>1. r.by.participant = Worker /\ r.complete \in BOOLEAN
  BY DEF Requests, ConnectionRows
<1>2. r.op # "auto-reserve" => r.id = Latest /\ Latest \in DOMAIN activations
  BY SoundIsKnown
<1>3. ASSUME NEW E \in SUBSET persisted, RefundedNow(E) PROVE RefundedNow(persisted)
  BY <1>3 DEF RefundedNow
<1>4. ASSUME NEW E \in SUBSET persisted, ReportedNow(E) PROVE ReportedNow(persisted)
  BY <1>4 DEF ReportedNow
<1>5. CASE r.op = "auto-reserve"
  <2>1. AutoReserve(r.by) \/ (UNCHANGED vars /\ reply # "ok")
    BY <1>5 DEF Handle
  <2> QED BY <1>1, <1>5, <2>1, ReserveEffect DEF Effect
<1>6. CASE r.op = "auto-cancel"
  <2>1. AutoCancel(r.by, Latest) \/ UNCHANGED vars
    BY <1>2, <1>6 DEF Handle
  <2>2. AutoCancel(r.by, Latest) => RefundedNow({})
    BY <1>2, <1>6, RefundEffect DEF AutoCancel
  <2> QED BY <1>3, <1>6, <2>1, <2>2 DEF Effect
<1>7. CASE r.op = "auto-dispatch"
  <2>1. \/ /\ AutoDispatch(r.by, Latest)
           /\ reply = IF activations'[Latest].state = "dispatched" THEN "ok" ELSE "nothing"
        \/ UNCHANGED vars /\ reply # "ok"
    BY <1>2, <1>7 DEF Handle
  <2>2. AutoDispatch(r.by, Latest) =>
            \/ RefundedNow({}) /\ activations'[Latest].state = "cancelled"
            \/ DispatchedNow
    BY <1>1, <1>2, <1>7, DispatchEffect
  <2> QED BY <1>3, <1>7, <2>1, <2>2 DEF Effect
<1>8. CASE r.op = "auto-reconcile"
  <2>1. AutoReconcile(r.by, Latest, r.entries) \/ UNCHANGED vars
    BY <1>2, <1>8 DEF Handle
  <2>2. AutoReconcile(r.by, Latest, r.entries) => RefundedNow(r.entries)
    BY <1>2, <1>8, RefundEffect DEF AutoReconcile, IsLive, LiveStates
  <2> QED BY <1>3, <1>8, <2>1, <2>2 DEF Effect
<1>9. CASE r.op = "auto-finish"
  <2>1. AutoFinish(r.by, Latest, r.complete, r.entries) \/ UNCHANGED vars
    BY <1>2, <1>9 DEF Handle
  <2>2. /\ r.complete => \A m \in MsgIds : Row(m).activation = Latest => m \in r.entries
        /\ r.complete => Latest \in Woken
        /\ StateOf(Latest) \notin {"reserved", "cancelled"}
    BY <1>2, <1>9 DEF Sound
  <2>3. AutoFinish(r.by, Latest, r.complete, r.entries) => ReportedNow(r.entries)
    BY <1>1, <1>2, <1>9, <2>2, FinishEffect
  <2> QED BY <1>4, <1>9, <2>1, <2>3 DEF Effect
<1> QED BY <1>5, <1>6, <1>7, <1>8, <1>9 DEF Requests

\* The parts of the host that no call touches.
ServedFrame ==
    /\ UNCHANGED <<textVars, historyVars>>
    /\ UNCHANGED <<client, recovery, pump, transport, batch, active, finish>>

\* What was not inserted is as fresh after a call that reserves nothing.
LEMMA ServedFresh ==
    ASSUME HInv, EInv', ServedFrame, NEW r \in Requests, NEW reply, Effect(r, reply),
           r.op # "auto-reserve", NEW a, NEW M, Fresh(a, M)
    PROVE  Fresh(a, M)'
<1>1. /\ a = Latest /\ a # 0 /\ a \notin Woken
      /\ M \subseteq DOMAIN messages /\ M \cap Inserted \subseteq retried
      /\ \A m \in MsgIds : Row(m).activation = a => m \in M
      /\ StateOf(a) = "reserved" =>
            \A m \in M : Row(m).activation = a /\ Row(m).state \in {"claimed", "recorded"}
  BY DEF Fresh
<1>2. /\ DOMAIN activations = 1..Latest /\ Latest \in Nat
      /\ DOMAIN activations' = 1..Latest' /\ Latest' \in Nat
  BY DEF HInv, EInv, IInv, TypeOK, Latest
<1>3. /\ DOMAIN activations' = DOMAIN activations /\ UNCHANGED messages
      /\ \A m \in MsgIds : deliveries'[m][Worker].activation \in {Row(m).activation, 0}
      /\ UNCHANGED vars \/ activations'[Latest].state # "reserved"
  <2>1. Latest \in DOMAIN activations
    BY <1>1, <1>2
  <2> QED BY <2>1 DEF Effect, vars, RefundedNow, DispatchedNow, ReportedNow, LatestMoves, SameRow,
             Row, mailVars, wakeVars
<1>4. Latest' = Latest
  <2>1. \A i, j \in Nat : 1..i = 1..j => i = j
    OBVIOUS
  <2> QED BY <1>2, <1>3, <2>1
<1>5. Woken' = Woken /\ Inserted' = Inserted /\ retried' = retried
  BY DEF ServedFrame, textVars, historyVars, Woken, Inserted
<1>6. \A m \in MsgIds : Row(m)'.activation = a => m \in M
  BY <1>1, <1>3 DEF Row
<1>7. ASSUME StateOf(a)' = "reserved", NEW m \in M
      PROVE  Row(m)'.activation = a /\ Row(m)'.state \in {"claimed", "recorded"}
  <2>1. UNCHANGED vars
    BY <1>1, <1>3, <1>7 DEF StateOf
  <2> QED BY <1>1, <1>7, <2>1 DEF vars, mailVars, wakeVars, Row, StateOf
<1> QED BY <1>1, <1>3, <1>4, <1>5, <1>6, <1>7 DEF Fresh

\* What a call does to the ledger, to the rows of inserted messages, and to
\* the turn the host waits for.
LEMMA ServedKeeps ==
    ASSUME HInv, EInv', ServedFrame, NEW r \in Requests, NEW reply, Effect(r, reply), Sound(r)
    PROVE  /\ Ledger' /\ NoReturn' /\ RecordedIsPersisted' /\ Submitted'
           /\ participants'[Worker].generation = participants[Worker].generation
           /\ UNCHANGED messages
<1>1. /\ DOMAIN activations = 1..Latest /\ Latest \in Nat
      /\ DOMAIN activations' = 1..Latest' /\ Latest' \in Nat
  BY DEF HInv, EInv, IInv, TypeOK, Latest
<1>2. Woken' = Woken /\ Inserted' = Inserted
      /\ UNCHANGED <<transcript, persisted, retried, reviewed, active, finish>>
  BY DEF ServedFrame, textVars, historyVars, Woken, Inserted
<1>3. ASSUME NEW m \in Inserted \ retried
      PROVE  /\ m \in MsgIds /\ PastMailbox(Row(m))
             /\ Row(m).state = "queued" => Row(m).activation \in Woken
  BY <1>3, MessageIds DEF HInv, NoReturn, EInv, IInv
<1>4. \A a \in DOMAIN activations :
            /\ activations[a].participant = Worker
            /\ IsLive(a) => a = Latest
            /\ StateOf(a) = "uncertain" => a \in reviewed \/ (a = Latest /\ Member.paused)
  BY DEF HInv, Ledger
<1>5. \A a \in Woken : a \in DOMAIN activations /\ StateOf(a) \notin {"reserved", "cancelled"}
  BY DEF HInv, Ledger
<1>6. active # NoBatch =>
        /\ active.id = Latest /\ active.id # 0
        /\ StateOf(active.id) \notin {"reserved", "cancelled"}
        /\ active.id \in Woken \/ (finish # NoFinish /\ ~finish.complete)
        /\ \A m \in MsgIds : Row(m).activation = active.id => m \in active.messages
  BY DEF HInv, Submitted
<1>7. \A m \in MsgIds : Row(m).state = "recorded" => m \in persisted
  BY DEF HInv, Evidence, RecordedIsPersisted, Row
<1>8. \A i, j \in Nat : 1..i = 1..j => i = j
  OBVIOUS
<1>9. CASE UNCHANGED vars
  <2>1. UNCHANGED <<deliveries, activations, participants, messages>>
    BY <1>9 DEF vars, memberVars, mailVars, wakeVars
  <2>2. Ledger'
    BY <1>2, <2>1 DEF HInv, Ledger, IsLive, Latest, StateOf, Member
  <2>3. NoReturn' /\ RecordedIsPersisted' /\ Submitted'
    BY <1>2, <2>1 DEF HInv, NoReturn, PastMailbox, Row, Evidence, RecordedIsPersisted, Submitted,
       Latest, StateOf
  <2> QED BY <2>1, <2>2, <2>3
<1>10. CASE r.op = "auto-reserve" /\ ReservedNow
  <2>1. /\ DOMAIN activations' = 1..(Latest + 1) /\ Latest' = Latest + 1
        /\ \A a \in DOMAIN activations : ~IsLive(a) /\ activations'[a] = activations[a]
        /\ activations'[Latest + 1].participant = Worker
        /\ activations'[Latest + 1].state = "reserved"
        /\ ~Member.paused /\ UNCHANGED <<participants, messages>>
    <3>1. DOMAIN activations' = 1..(Latest + 1)
      <4>1. DOMAIN activations' = (1..Latest) \cup {Latest + 1}
        BY <1>1, <1>10 DEF ReservedNow
      <4>2. \A n \in Nat : (1..n) \cup {n + 1} = 1..(n + 1)
        OBVIOUS
      <4> QED BY <1>1, <4>1, <4>2
    <3>2. Latest' = Latest + 1
      BY <1>1, <1>8, <3>1
    <3>3. \A a \in DOMAIN activations : ~IsLive(a)
      BY <1>4, <1>10 DEF ReservedNow, HasLiveActivation
    <3> QED BY <1>10, <3>1, <3>2, <3>3 DEF ReservedNow
  <2>2. active = NoBatch
    BY <1>10 DEF Sound
  <2>3. Ledger'
    <3>1. ASSUME NEW a \in DOMAIN activations'
          PROVE  /\ activations'[a].participant = Worker
                 /\ IsLive(a)' => a = Latest'
                 /\ StateOf(a)' = "uncertain" => a \in reviewed
      <4>1. CASE a = Latest + 1
        BY <2>1, <4>1 DEF StateOf
      <4>2. CASE a \in DOMAIN activations
        BY <1>4, <2>1, <4>2 DEF StateOf, IsLive
      <4> QED BY <1>1, <2>1, <4>1, <4>2
    <3>2. \A a \in Woken : a \in DOMAIN activations' /\ StateOf(a)' \notin {"reserved", "cancelled"}
      BY <1>1, <1>5, <2>1 DEF StateOf
    <3> QED BY <1>2, <3>1, <3>2 DEF Ledger
  <2>4. NoReturn'
    <3>1. ASSUME NEW m \in Inserted \ retried
          PROVE  PastMailbox(Row(m))' /\ (Row(m)'.state = "queued" => Row(m)'.activation \in Woken)
      <4>1. SameRow(m)
        BY <1>3, <1>10, <3>1 DEF ReservedNow, PastMailbox
      <4> QED BY <1>3, <3>1, <4>1 DEF SameRow, PastMailbox, Row
    <3> QED BY <1>2, <2>1, <3>1 DEF HInv, NoReturn
  <2>5. RecordedIsPersisted'
    <3>1. ASSUME NEW m \in MsgIds, deliveries'[m][Worker].state = "recorded" PROVE m \in persisted
      <4>1. SameRow(m)
        BY <1>10, <3>1 DEF ReservedNow
      <4> QED BY <1>7, <3>1, <4>1 DEF SameRow
    <3> QED BY <1>2, <3>1 DEF RecordedIsPersisted
  <2>6. Submitted'
    BY <1>2, <2>2 DEF Submitted
  <2> QED BY <2>1, <2>3, <2>4, <2>5, <2>6
<1>11. ASSUME r.op # "none", r.op # "auto-reserve"
       PROVE  /\ r.id = Latest /\ Latest # 0 /\ Latest \in DOMAIN activations
              /\ r.op # "auto-finish" => active = NoBatch /\ Latest \notin Woken
              /\ r.op = "auto-finish" => StateOf(Latest) \notin {"reserved", "cancelled"}
  <2>1. /\ r.id = Latest /\ Latest # 0
        /\ r.op # "auto-finish" => active = NoBatch /\ Latest \notin Woken
        /\ r.op = "auto-finish" => StateOf(Latest) \notin {"reserved", "cancelled"}
    BY <1>11 DEF Sound, Requests
  <2> QED BY <1>1, <2>1
\* The last run moves; what the three calls share.
<1>12. ASSUME NEW s, LatestMoves(s), UNCHANGED messages, Latest \in DOMAIN activations,
              s \in LiveStates => StateOf(Latest) \in LiveStates,
              s = "uncertain" => participants'[Worker].paused,
              Member.paused => participants'[Worker].paused,
              s \in {"reserved", "cancelled"} => Latest \notin Woken
       PROVE  Ledger' /\ Latest' = Latest
  <2>1. Latest' = Latest /\ DOMAIN activations' = DOMAIN activations
    BY <1>1, <1>8, <1>12 DEF LatestMoves
  <2>2. ASSUME NEW a \in DOMAIN activations
        PROVE  /\ activations'[a].participant = Worker
               /\ IsLive(a)' => a = Latest
               /\ StateOf(a)' = "uncertain" =>
                    a \in reviewed \/ (a = Latest /\ participants'[Worker].paused)
    BY <1>4, <1>12, <2>2 DEF LatestMoves, IsLive, StateOf
  <2>3. \A a \in Woken : a \in DOMAIN activations /\ StateOf(a)' \notin {"reserved", "cancelled"}
    BY <1>5, <1>12 DEF LatestMoves, StateOf
  <2> QED BY <1>2, <2>1, <2>2, <2>3 DEF Ledger, Member
<1>13. ASSUME UNCHANGED messages,
              \A m \in Inserted \ retried :
                /\ PastMailbox(deliveries'[m][Worker])
                /\ deliveries'[m][Worker].state = "queued" =>
                    deliveries'[m][Worker].activation \in Woken
       PROVE  NoReturn'
  BY <1>2, <1>13 DEF HInv, NoReturn, Row, PastMailbox
<1>14. CASE r.op \in {"auto-cancel", "auto-dispatch", "auto-reconcile"} /\ RefundedNow(persisted)
  <2>1. Ledger'
    BY <1>11, <1>12, <1>14 DEF RefundedNow, LiveStates, Member
  <2>2. Submitted'
    BY <1>2, <1>11, <1>14 DEF Submitted
  <2>3. ASSUME NEW m \in Inserted \ retried
        PROVE  /\ PastMailbox(deliveries'[m][Worker])
               /\ deliveries'[m][Worker].state = "queued" =>
                    deliveries'[m][Worker].activation \in Woken
    <3>1. ~(Row(m).activation = Latest /\ InFlight(Row(m)))
      BY <1>3, <1>11, <1>14, <2>3 DEF InFlight, InFlightStates, PastMailbox
    <3> QED BY <1>3, <1>14, <2>3, <3>1 DEF RefundedNow, SameRow, PastMailbox
  <2>4. RecordedIsPersisted'
    BY <1>2, <1>7, <1>14 DEF RefundedNow, SameRow, RecordedIsPersisted
  <2> QED BY <1>13, <1>14, <2>1, <2>2, <2>3, <2>4 DEF RefundedNow
<1>15. CASE r.op = "auto-dispatch" /\ DispatchedNow
  <2>1. Ledger'
    BY <1>11, <1>12, <1>15 DEF DispatchedNow, LiveStates, Member
  <2>2. Submitted'
    BY <1>2, <1>11, <1>15 DEF Submitted
  <2>3. ASSUME NEW m \in Inserted \ retried
        PROVE  /\ PastMailbox(deliveries'[m][Worker])
               /\ deliveries'[m][Worker].state = "queued" =>
                    deliveries'[m][Worker].activation \in Woken
    BY <1>3, <1>15, <2>3 DEF DispatchedNow, PastMailbox
  <2>4. RecordedIsPersisted'
    BY <1>2, <1>7, <1>15 DEF DispatchedNow, RecordedIsPersisted
  <2> QED BY <1>13, <1>15, <2>1, <2>2, <2>3, <2>4 DEF DispatchedNow
<1>16. CASE r.op = "auto-finish" /\ ReportedNow(persisted)
  <2>1. PICK s \in {"settled", "uncertain"} :
            LatestMoves(s) /\ (s = "uncertain" => participants'[Worker].paused)
    BY <1>16 DEF ReportedNow
  <2>2. Ledger' /\ Latest' = Latest
    BY <1>11, <1>12, <1>16, <2>1 DEF ReportedNow, LiveStates
  <2>3. Submitted'
    <3>1. active # NoBatch => StateOf(active.id)' \notin {"reserved", "cancelled"}
      BY <1>2, <1>6, <1>11, <1>16, <2>1 DEF LatestMoves, StateOf
    <3>2. \A m \in MsgIds : Row(m)'.activation = Row(m).activation
      BY <1>16 DEF ReportedNow, Row
    <3> QED BY <1>2, <1>6, <2>2, <3>1, <3>2 DEF Submitted
  <2>4. ASSUME NEW m \in Inserted \ retried
        PROVE  /\ PastMailbox(deliveries'[m][Worker])
               /\ deliveries'[m][Worker].state = "queued" =>
                    deliveries'[m][Worker].activation \in Woken
    BY <1>3, <1>16, <2>4 DEF ReportedNow, PastMailbox
  <2>5. RecordedIsPersisted'
    BY <1>2, <1>7, <1>16 DEF ReportedNow, RecordedIsPersisted
  <2> QED BY <1>13, <1>16, <2>2, <2>3, <2>4, <2>5 DEF ReportedNow
<1> QED BY <1>9, <1>10, <1>14, <1>15, <1>16 DEF Effect

\* A batch just reserved is fresh.
LEMMA ReservedFresh ==
    ASSUME HInv, EInv', ServedFrame, ReservedNow,
           NEW a, a = Len(activations'), NEW M, M = Batch(Worker)
    PROVE  Fresh(a, M)'
<1>1. /\ DOMAIN activations = 1..Latest /\ Latest \in Nat
      /\ DOMAIN activations' = 1..Latest' /\ Latest' \in Nat
  BY DEF HInv, EInv, IInv, TypeOK, Latest
<1>2. a = Latest + 1 /\ a = Latest'
  <2>1. DOMAIN activations' = (1..Latest) \cup {Latest + 1}
    BY <1>1 DEF ReservedNow
  <2>2. \A n \in Nat : (1..n) \cup {n + 1} = 1..(n + 1)
    OBVIOUS
  <2>3. \A i, j \in Nat : 1..i = 1..j => i = j
    OBVIOUS
  <2>4. 1..Latest' = 1..(Latest + 1)
    BY <1>1, <2>1, <2>2
  <2>5. Latest' = Latest + 1
    BY <1>1, <2>3, <2>4
  <2> QED BY <2>5 DEF Latest
<1>3. Woken' = Woken /\ Inserted' = Inserted /\ retried' = retried /\ messages' = messages
  BY DEF ServedFrame, textVars, historyVars, Woken, Inserted, ReservedNow
<1>4. a # 0 /\ a \notin Woken /\ a \notin DOMAIN activations
  BY <1>1, <1>2 DEF HInv, Ledger
<1>5. M \subseteq DOMAIN messages /\ M \subseteq MsgIds
  BY MessageIds DEF ReservedNow, HInv, EInv, IInv
<1>6. M \cap Inserted \subseteq retried
  <2>1. ASSUME NEW m \in M, m \in Inserted PROVE m \in retried
    <3>1. Row(m).state = "pending"
      BY <1>5, <2>1 DEF ReservedNow
    <3> QED BY <2>1, <3>1 DEF HInv, NoReturn, PastMailbox
  <2> QED BY <2>1
<1>7. ASSUME NEW m \in MsgIds, Row(m)'.activation = a PROVE m \in M
  <2>1. SUFFICES ASSUME m \notin M PROVE FALSE
    OBVIOUS
  <2>2. Row(m).activation = a
    BY <1>7, <2>1 DEF ReservedNow, SameRow, Row
  <2>3. Row(m).activation \in DOMAIN activations
    BY <1>4, <2>2, RolesAssumption DEF HInv, EInv, RowsOfRuns, Row
  <2> QED BY <1>4, <2>2, <2>3
<1>8. \A m \in M : Row(m)'.activation = a /\ Row(m)'.state = "claimed"
  BY <1>2, <1>5 DEF ReservedNow, Row
<1> QED BY <1>2, <1>3, <1>4, <1>5, <1>6, <1>7, <1>8 DEF Fresh

\* The call the host awaits is served.
LEMMA ServeKeeps == ASSUME HInv, Serve PROVE HInv'
<1>1. /\ Awaiting /\ request.by \in actors /\ Handle(request, answer')
      /\ answer' \in {"ok", "nothing", "error"}
      /\ request # NoRequest /\ answer = "none"
  BY DEF Serve, Awaiting
<1>2. request \in Requests /\ request.op # "none"
  BY <1>1 DEF HInv, HostType, Stage
<1>3. Sound(request) /\ request.by = client /\ client # Offline
  BY <1>1, AwaitedSound
<1>4. Effect(request, answer')
  BY <1>1, <1>2, <1>3, ServedEffect DEF HInv, Evidence
<1>5. ServedFrame /\ UNCHANGED orphan
  BY DEF Serve, ServedFrame, linkVars, sessionVars, hostVars
<1>6. EInv'
  BY HostIsStore, StepKeepsEvidence DEF HInv, HostNext
<1>7. /\ Ledger' /\ NoReturn' /\ RecordedIsPersisted' /\ Submitted'
      /\ participants'[Worker].generation = participants[Worker].generation
      /\ UNCHANGED messages
  BY <1>2, <1>3, <1>4, <1>5, <1>6, ServedKeeps
<1>8. PICK got \in SUBSET MsgIds : got = Batch(Worker)
  <2>1. Batch(Worker) \subseteq DOMAIN messages
    BY DEF Batch, Candidates
  <2> QED BY <2>1, MessageIds DEF HInv, EInv, IInv
<1>9. /\ request' \in Requests /\ request'.op = request.op /\ request'.by = request.by
      /\ request'.complete = request.complete
      /\ request.op # "auto-reserve" => request' = request
      /\ request.op = "auto-reserve" =>
            request'.id = Len(activations') /\ request'.entries = got
  <2>1. Len(activations') \in Nat
    BY <1>6 DEF EInv, IInv, TypeOK
  <2>2. request' = IF request.op = "auto-reserve"
                   THEN [request EXCEPT !.id = Len(activations'), !.entries = got]
                   ELSE request
    BY <1>8 DEF Serve
  <2> QED BY <1>2, <2>1, <2>2 DEF Requests
<1>10. HostType'
  BY <1>1, <1>5, <1>7, <1>9 DEF HInv, HostType, ServedFrame, textVars, historyVars
<1>11. Link'
  BY <1>3, <1>5, <1>7, <1>9 DEF HInv, Link, ServedFrame, Member
<1>12. Stage'
  <2>1. request' # NoRequest
    BY <1>2, <1>9, Constants
  <2>2. /\ pump = "reserving" => request.op = "auto-reserve"
        /\ pump = "reconciling" => request.op = "auto-reconcile"
        /\ pump = "dispatching" => request.op = "auto-dispatch"
        /\ pump \in {"cancelling", "giving up"} => request.op = "auto-cancel"
        /\ finish.at = "reporting" => request.op = "auto-finish"
        /\ pump = "reading" => request = NoRequest
        /\ pump \in {"idle", "finishing"} /\ finish.at # "reporting" => request = NoRequest
    BY DEF HInv, Stage
  <2>3. /\ pump \in {"reconciling", "dispatching", "cancelling", "giving up"} =>
                request'.id = batch.id
        /\ finish.at = "reporting" =>
                /\ request'.id = active.id
                /\ request'.complete => finish.complete /\ active.messages \subseteq request'.entries
    <3>1. /\ pump \in {"reconciling", "dispatching", "cancelling", "giving up"} \/ finish.at = "reporting"
                => request' = request
      BY <1>9, <2>2
    <3> QED BY <3>1 DEF HInv, Stage
  <2> QED BY <1>1, <1>5, <1>9, <2>1, <2>2, <2>3 DEF HInv, Stage, ServedFrame
<1>13. CarriesLatest'
  <2>1. Carrying => request.op # "auto-reserve" /\ request' = request /\ Fresh(batch.id, batch.messages)
    BY <1>1, <1>9 DEF HInv, Stage, Carrying, CarriesLatest
  <2>2. Carrying => Fresh(batch.id, batch.messages)'
    <3>1. ASSUME NEW a, NEW M, Fresh(a, M), request.op # "auto-reserve" PROVE Fresh(a, M)'
      BY <1>2, <1>4, <1>5, <1>6, <3>1, ServedFresh
    <3>2. UNCHANGED batch
      BY <1>5 DEF ServedFrame
    <3>3. PICK a, M : a = batch.id /\ M = batch.messages
      OBVIOUS
    <3>4. Carrying => Fresh(a, M)'
      BY <2>1, <3>1, <3>3
    <3> QED BY <3>2, <3>3, <3>4
  <2>3. Carrying' => Carrying
    BY <1>5 DEF Carrying, ServedFrame
  <2>4. ReservedAnswered' => Fresh(request.id, request.entries)'
    <3>1. SUFFICES ASSUME ReservedAnswered' PROVE Fresh(request.id, request.entries)'
      OBVIOUS
    <3>2. request.op = "auto-reserve" /\ answer' = "ok"
      BY <1>5, <3>1 DEF ReservedAnswered, HInv, Stage, ServedFrame
    <3>3. ReservedNow
      BY <1>4, <3>2 DEF Effect
    <3>4. PICK a : a = Len(activations')
      OBVIOUS
    <3>5. Fresh(a, got)'
      BY <1>5, <1>6, <1>8, <3>3, <3>4, ReservedFresh
    <3>6. request'.id = a /\ request'.entries = got
      BY <1>9, <3>2, <3>4
    <3> QED BY <3>5, <3>6
  <2>5. pump' = "dispatching" =>
            /\ recovery'.at # "confirming"
            /\ answer' = "ok" =>
                /\ StateOf(batch.id)' \in {"dispatched", "uncertain"}
                /\ \A m \in batch'.messages :
                    /\ PastMailbox(Row(m))'
                    /\ Row(m)'.state = "queued" => Row(m)'.activation = batch'.id
    <3>1. SUFFICES ASSUME pump = "dispatching"
                   PROVE  /\ recovery.at # "confirming"
                          /\ answer' = "ok" =>
                                /\ activations'[batch.id].state \in {"dispatched", "uncertain"}
                                /\ \A m \in batch.messages :
                                    /\ PastMailbox(deliveries'[m][Worker])
                                    /\ deliveries'[m][Worker].state = "queued" =>
                                        deliveries'[m][Worker].activation = batch.id
      BY <1>5 DEF ServedFrame, StateOf, Row, PastMailbox
    <3>2. recovery.at # "confirming" /\ request.op = "auto-dispatch"
          /\ Fresh(batch.id, batch.messages)
      BY <3>1 DEF HInv, CarriesLatest, Carrying, Stage
    <3>3. ASSUME answer' = "ok"
          PROVE  /\ activations'[batch.id].state \in {"dispatched", "uncertain"}
                 /\ \A m \in batch.messages :
                      /\ PastMailbox(deliveries'[m][Worker])
                      /\ deliveries'[m][Worker].state = "queued" =>
                          deliveries'[m][Worker].activation = batch.id
      <4>1. DispatchedNow
        BY <1>4, <3>2, <3>3 DEF Effect
      <4>2. batch.id = Latest /\ Latest \in DOMAIN activations /\ Latest # 0
        <5>1. DOMAIN activations = 1..Latest /\ Latest \in Nat
          BY DEF HInv, EInv, IInv, TypeOK, Latest
        <5> QED BY <3>2, <5>1 DEF Fresh
      <4>3. activations'[batch.id].state = "dispatched"
        BY <4>1, <4>2 DEF DispatchedNow, LatestMoves
      <4>4. ASSUME NEW m \in batch.messages
            PROVE  deliveries'[m][Worker].state = "queued" /\ deliveries'[m][Worker].activation = batch.id
        <5>1. m \in MsgIds
          BY <4>4 DEF HInv, HostType, Batches
        <5>2. Row(m).activation = Latest
          BY <3>2, <4>1, <4>2, <4>4 DEF Fresh, DispatchedNow
        <5> QED BY <4>1, <4>2, <5>1, <5>2 DEF DispatchedNow
      <4> QED BY <4>3, <4>4 DEF PastMailbox
    <3> QED BY <3>2, <3>3
  <2> QED BY <2>2, <2>3, <2>4, <2>5 DEF CarriesLatest
<1>14. OrphanSound'
  BY <1>3, <1>5, <1>7 DEF HInv, Link, OrphanSound, Member
<1>15. Evidence'
  <2>1. request'.op \in {"auto-reconcile", "auto-finish"} => request'.entries \subseteq persisted
    BY <1>9 DEF HInv, Evidence
  <2> QED BY <1>5, <1>7, <2>1 DEF HInv, Evidence, ServedFrame, textVars
<1> QED BY <1>6, <1>7, <1>10, <1>11, <1>12, <1>13, <1>14, <1>15 DEF HInv

\* A call the host gave up is served.  If its connection is still the member's
\* last, the host has none and knows of no answer but failures.
LEMMA ServeOrphanKeeps == ASSUME HInv, ServeOrphan PROVE HInv'
<1>1. PICK reply \in {"ok", "nothing", "error"} : Handle(orphan, reply)
  BY DEF ServeOrphan
<1>2. /\ orphan # NoRequest /\ orphan.by \in actors /\ orphan' = NoRequest
      /\ ServedFrame /\ UNCHANGED <<request, answer>>
  BY DEF ServeOrphan, ServedFrame, linkVars, sessionVars, hostVars, callVars
<1>3. orphan \in Requests /\ orphan.op # "none"
  BY <1>1 DEF HInv, HostType, Handle
<1>4. EInv'
  BY HostIsStore, StepKeepsEvidence DEF HInv, HostNext
<1>5. CASE orphan.by.generation # Member.generation
  <2>1. UNCHANGED vars
    BY <1>1, <1>3, <1>5, DeadIsRefused
  <2>2. SameStore /\ SameText
    BY <1>2, <2>1 DEF ServedFrame, textVars, historyVars, SameStore, SameText
  <2>3. Ledger' /\ NoReturn' /\ RecordedIsPersisted'
    BY <2>2, StandingStill
  <2>4. HostType'
    BY <1>2, <2>1, Constants DEF HInv, HostType, ServedFrame, textVars, historyVars, vars, mailVars
  <2>5. Link' /\ Stage'
    BY <1>2, <2>1 DEF HInv, Link, Stage, ServedFrame, vars, memberVars, Member
  <2>6. CarriesLatest'
    BY <1>2, <2>2, CarriedStays DEF ServedFrame
  <2>7. Submitted' /\ OrphanSound'
    BY <1>2, <2>1 DEF HInv, Submitted, OrphanSound, ServedFrame, textVars, vars, mailVars, wakeVars,
       Row, Latest, StateOf, Woken
  <2>8. Evidence'
    BY <1>2, <2>2, <2>3, Constants DEF HInv, Evidence, SameText
  <2> QED BY <1>4, <2>3, <2>4, <2>5, <2>6, <2>7, <2>8 DEF HInv
<1>6. CASE orphan.by.generation = Member.generation
  <2>1. Sound(orphan) /\ client = Offline
    BY <1>2, <1>6 DEF HInv, OrphanSound, Link
  <2>2. Effect(orphan, reply)
    BY <1>1, <1>2, <1>3, <2>1, ServedEffect DEF HInv, Evidence
  <2>3. /\ Ledger' /\ NoReturn' /\ RecordedIsPersisted' /\ Submitted'
        /\ participants'[Worker].generation = participants[Worker].generation
        /\ UNCHANGED messages
    BY <1>2, <1>3, <1>4, <2>1, <2>2, ServedKeeps
  <2>4. HostType'
    BY <1>2, <2>3, Constants DEF HInv, HostType, ServedFrame, textVars, historyVars
  <2>5. Link' /\ Stage'
    BY <1>2, <2>3 DEF HInv, Link, Stage, ServedFrame, Member
  <2>6. CarriesLatest'
    <3>1. request # NoRequest => answer = "error"
      BY <2>1 DEF HInv, Link
    <3>2. pump \in {"reserving", "dispatching"} => answer = "error"
      BY <3>1, Constants DEF HInv, Stage
    <3>3. Carrying => orphan.op # "auto-reserve" /\ Fresh(batch.id, batch.messages)
      BY <2>1 DEF Sound, HInv, CarriesLatest, Carrying
    <3>4. Carrying => Fresh(batch.id, batch.messages)'
      <4>1. ASSUME NEW a, NEW M, Fresh(a, M), orphan.op # "auto-reserve" PROVE Fresh(a, M)'
        BY <1>2, <1>3, <1>4, <2>2, <4>1, ServedFresh
      <4>2. UNCHANGED batch
        BY <1>2 DEF ServedFrame
      <4>3. PICK a, M : a = batch.id /\ M = batch.messages
        OBVIOUS
      <4>4. Carrying => Fresh(a, M)'
        BY <3>3, <4>1, <4>3
      <4> QED BY <4>2, <4>3, <4>4
    <3> QED BY <1>2, <3>2, <3>4 DEF HInv, CarriesLatest, Carrying, ReservedAnswered, ServedFrame
  <2>7. OrphanSound'
    BY <1>2 DEF OrphanSound
  <2>8. Evidence'
    BY <1>2, <2>3, Constants DEF HInv, Evidence, ServedFrame, textVars
  <2> QED BY <1>4, <2>3, <2>4, <2>5, <2>6, <2>7, <2>8 DEF HInv
<1> QED BY <1>5, <1>6

(***************************************************************************)
(* The theorems                                                            *)
(***************************************************************************)
\* HInv is inductive.
LEMMA StepKeepsHost == ASSUME HInv, [HostNext]_wakeHostVars PROVE HInv'
<1>1. CASE UNCHANGED wakeHostVars
  <2>1. /\ TurnFrame /\ UNCHANGED <<pump, transport, batch, active, finish, request, answer>>
        /\ UNCHANGED recovery
    BY <1>1 DEF wakeHostVars, linkVars, sessionVars, hostVars, callVars, textVars, historyVars,
       TurnFrame, SameStore, SameText
  <2>2. HostType'
    BY <2>1 DEF HInv, HostType, TurnFrame, SameStore, SameText, vars, mailVars
  <2>3. EInv' /\ Ledger' /\ NoReturn' /\ RecordedIsPersisted' /\ OrphanSound'
    BY <2>1, TurnFrameKeeps
  <2>4. Link' /\ Stage'
    BY <2>1 DEF HInv, Link, Stage, TurnFrame, SameStore, vars, Member
  <2>5. CarriesLatest'
    BY <2>1, CarriedStays DEF TurnFrame
  <2>6. Submitted'
    BY <2>1 DEF HInv, Submitted, TurnFrame, SameStore, SameText, vars, Row, Latest, StateOf, Woken
  <2>7. Evidence'
    BY <2>1, <2>3 DEF HInv, Evidence, TurnFrame, SameText
  <2> QED BY <2>2, <2>3, <2>4, <2>5, <2>6, <2>7 DEF HInv
<1>2. CASE HostNext
  BY <1>2, HostNextSplits, HostOnlyKeeps, BrokerSideKeeps, ServeKeeps, ServeOrphanKeeps
<1> QED BY <1>1, <1>2

\* The broker starts with the rows of a store.
LEMMA HostStarts == HostInit => HInv
<1> SUFFICES ASSUME HostInit PROVE HInv
  OBVIOUS
<1> USE Constants
<1>1. PICK home \in [Participants -> Sessions] :
        /\ participants = [p \in Participants |->
                [joined |-> TRUE, paused |-> FALSE, session |-> home[p],
                 generation |-> IF p = Asker THEN 1 ELSE 0,
                 link |-> IF p = Asker THEN "live" ELSE "none"]]
        /\ actors = {[participant |-> Asker, session |-> home[Asker], generation |-> 1]}
  BY DEF HostInit
<1>2. /\ roomPaused = FALSE /\ threads = [t \in Threads |-> "absent"]
      /\ messages = <<>> /\ activations = <<>> /\ aged = 0
      /\ deliveries = [m \in MsgIds |-> [p \in Participants |-> Absent]]
  BY DEF HostInit
<1>3. /\ client = Offline /\ recovery = NoRecovery
      /\ pump = "idle" /\ transport = Offline /\ batch = NoBatch
      /\ active = NoBatch /\ finish = NoFinish
      /\ request = NoRequest /\ answer = "none" /\ orphan = NoRequest
      /\ transcript = <<>> /\ persisted = {} /\ retried = {} /\ reviewed = {}
  BY DEF HostInit
<1>4. /\ Len(messages) = 0 /\ Len(activations) = 0
      /\ DOMAIN messages = {} /\ DOMAIN activations = {} /\ DOMAIN transcript = {}
      /\ messages \in Seq(Message) /\ activations \in Seq(Activation)
      /\ transcript \in Seq(Batches)
  BY <1>2, <1>3
<1>5. \A p \in Participants :
        /\ participants[p].joined /\ participants[p].session \in Sessions
        /\ participants[p] \in ParticipantRow
  <2> SUFFICES ASSUME NEW p \in Participants
               PROVE  /\ participants[p].joined /\ participants[p].session \in Sessions
                      /\ participants[p] \in ParticipantRow
    OBVIOUS
  <2>1. participants[p] = [joined |-> TRUE, paused |-> FALSE, session |-> home[p],
                           generation |-> IF p = Asker THEN 1 ELSE 0,
                           link |-> IF p = Asker THEN "live" ELSE "none"]
    BY <1>1
  <2>2. 0 \in 0..MaxGeneration /\ 1 \in 0..MaxGeneration /\ home[p] \in Sessions
    BY BoundsAssumption, FirstConnectionAssumption
  <2> QED BY <2>1, <2>2 DEF ParticipantRow
<1>6. actors \subseteq WorkerActor
  <2>1. home[Asker] \in Sessions /\ 1 \in 1..MaxGeneration
    BY RolesAssumption, BoundsAssumption, FirstConnectionAssumption
  <2> QED BY <1>1, <2>1, RolesAssumption DEF WorkerActor
<1>7. \A m \in MsgIds, p \in Participants :
        deliveries[m][p] = Absent /\ Absent.state = "absent" /\ Absent.activation = 0
  BY <1>2 DEF Absent
<1>8. TypeOK
  <2>1. participants \in [Participants -> ParticipantRow]
    BY <1>1, <1>5
  <2>2. deliveries \in [MsgIds -> [Participants -> Delivery]]
    BY <1>2, AbsentTyped
  <2>3. /\ Len(messages) <= MaxMessages /\ Len(activations) <= MaxActivations
        /\ aged \in 0..Len(activations) /\ roomPaused \in BOOLEAN
        /\ threads \in [Threads -> {"absent", "open", "resolved"}]
    <3>1. 0 <= MaxMessages /\ 0 <= MaxActivations /\ 0 \in 0..0
      BY BoundsAssumption
    <3>2. threads \in [Threads -> {"absent", "open", "resolved"}]
      BY <1>2
    <3>3. roomPaused \in BOOLEAN
      BY <1>2
    <3> QED BY <1>2, <1>4, <3>1, <3>2, <3>3
  <2> QED BY <1>4, <1>6, <2>1, <2>2, <2>3 DEF TypeOK
<1>9. EInv
  <2>1. Members /\ EmptyRows
    BY <1>5, <1>7 DEF Members, EmptyRows
  <2>2. InFlightOwned /\ LiveActivationOwned /\ ClaimsHaveLiveActivation
    BY <1>4, <1>7 DEF InFlightOwned, LiveActivationOwned, ClaimsHaveLiveActivation, InFlight,
       InFlightStates
  <2>3. RowsOfRuns /\ SettledIsProven
    BY <1>4, <1>7 DEF RowsOfRuns, SettledIsProven
  <2> QED BY <1>8, <2>1, <2>2, <2>3 DEF EInv, IInv
<1>10. HostType
  BY <1>3, <1>4 DEF HostType
<1>11. Link /\ Stage /\ CarriesLatest /\ Submitted /\ OrphanSound
  BY <1>3 DEF Link, Stage, CarriesLatest, Carrying, ReservedAnswered, Submitted, OrphanSound
<1>12. Ledger /\ NoReturn /\ Evidence
  <2>1. Woken = {} /\ Inserted = {}
    BY <1>4 DEF Woken, Inserted
  <2> QED BY <1>3, <1>4, <1>7, <2>1, RolesAssumption DEF Ledger, NoReturn, Evidence,
             RecordedIsPersisted
<1> QED BY <1>9, <1>10, <1>11, <1>12 DEF HInv

\* HInv holds throughout, and the broker of the host is a store: each step is
\* one of TeamStore's, so what is proved of its steps holds here.
THEOREM HostInvariance == HostSafe => [](HInv /\ TypeOK)
<1>1. HInv => TypeOK
  BY DEF HInv, EInv, IInv
<1> QED BY <1>1, HostStarts, StepKeepsHost, PTL DEF HostSafe

\* Whatever call, lost answer, reload or human action: the broker's rows and
\* ledger move as the store's operations say, or not at all.
THEOREM HostUsesStore == HostSafe => [][Next]_vars
<1>1. HInv /\ [HostNext]_wakeHostVars => [Next]_vars
  BY HostIsStore
<1> QED BY <1>1, HostStarts, StepKeepsHost, PTL DEF HostSafe

\* A message counts as recorded only if its entry is in the session file.
THEOREM RecordingsArePersisted == HostSafe => []RecordedIsPersisted
<1>1. HInv => RecordedIsPersisted
  BY DEF HInv, Evidence
<1> QED BY <1>1, HostStarts, StepKeepsHost, PTL DEF HostSafe

\* The session's text grows only by the batch the broker has just permitted.
LEMMA TextGrows ==
    ASSUME HInv, [HostNext]_wakeHostVars
    PROVE  \/ UNCHANGED transcript
           \/ Permitted /\ Ready /\ Enter(batch) /\ UNCHANGED <<vars, reviewed>>
<1>1. ASSUME BrokerSide \/ Serve \/ ServeOrphan \/ UNCHANGED wakeHostVars
      PROVE  UNCHANGED transcript
  BY <1>1, BrokerSideFramed DEF BrokerSideFrame, Serve, ServeOrphan, wakeHostVars, textVars
<1>2. ASSUME HostOnly, ~Insert, ~InsertThrows PROVE UNCHANGED transcript
  <2>1. ASSUME \/ TimerFires \/ Reserved \/ EvidenceRead \/ EvidenceFails \/ Abandoned
               \/ CallFailed \/ TooLate
        PROVE  UNCHANGED transcript
    BY <2>1, PumpFramed DEF PumpFrame, SameText
  <2>2. ASSUME \/ AgentStarts \/ (\E complete \in BOOLEAN : AgentSettles(complete))
               \/ WatchdogFires \/ FinishReads \/ FinishReturns \/ EntryPersisted
        PROVE  UNCHANGED transcript
    BY <2>2 DEF AgentStarts, AgentSettles, WatchdogFires, FinishReads, FinishReturns,
       EntryPersisted, textVars
  <2>3. ASSUME \/ StartRecovery \/ RecoveryEnds \/ Refresh \/ Drop \/ Reload
               \/ (\E paused \in BOOLEAN : Command(paused)) \/ ResumeAutomatic \/ CommandFails
        PROVE  UNCHANGED transcript
    BY <2>3 DEF StartRecovery, RecoveryEnds, Refresh, Drop, Reload, Command, ResumeAutomatic,
       CommandFails, recoveryKeeps, textVars
  <2> QED BY <1>2, <2>1, <2>2, <2>3 DEF HostOnly
<1>3. ASSUME Insert \/ InsertThrows
      PROVE  \/ UNCHANGED transcript
             \/ Permitted /\ Ready /\ Enter(batch) /\ UNCHANGED <<vars, reviewed>>
  BY <1>3 DEF Insert, InsertThrows
<1> QED BY <1>1, <1>2, <1>3, HostNextSplits

\* What an insertion adds to the text.
LEMMA EnteredLast ==
    ASSUME HInv, NEW b \in Batches, Enter(b)
    PROVE  Len(transcript') > Len(transcript) /\ transcript'[Len(transcript')] = b
<1>1. transcript \in Seq(Batches)
  BY DEF HInv, HostType
<1> QED BY <1>1 DEF Enter

\* No message enters the session a second time unless the human retried it.
THEOREM RepeatsAreRetries == HostSafe => NoRepeatWithoutRetry
<1> DEFINE Retried ==
        \A m \in MsgIds :
            Len(transcript') > Len(transcript) /\ m \in transcript'[Len(transcript')].messages
            /\ (\E i \in DOMAIN transcript : m \in transcript[i].messages)
                => m \in retried
<1>1. ASSUME HInv, [HostNext]_wakeHostVars PROVE Retried
  <2>1. CASE UNCHANGED transcript
    <3>1. transcript \in Seq(Batches) /\ Len(transcript) \in Nat
      <4>1. transcript \in Seq(Batches)
        BY <1>1 DEF HInv, HostType
      <4> QED BY <4>1
    <3>2. ~(Len(transcript') > Len(transcript))
      BY <2>1, <3>1
    <3> QED BY <3>2
  <2>2. CASE Permitted /\ Ready /\ Enter(batch)
    <3>1. batch \in Batches /\ batch.messages \cap Inserted \subseteq retried
      BY <1>1, <2>2, PermittedBatch DEF Fresh
    <3>2. transcript'[Len(transcript')] = batch
      BY <1>1, <2>2, <3>1, EnteredLast
    <3>3. ASSUME NEW m, \E i \in DOMAIN transcript : m \in transcript[i].messages
          PROVE  m \in Inserted
      BY <3>3 DEF Inserted
    <3> QED BY <3>1, <3>2, <3>3
  <2> QED BY <1>1, <2>1, <2>2, TextGrows
<1>2. NoRepeatWithoutRetry <=> [][Retried]_wakeHostVars
  BY DEF NoRepeatWithoutRetry
<1> HIDE DEF Retried
<1>3. HInv /\ [HostNext]_wakeHostVars => [Retried]_wakeHostVars
  BY <1>1
<1> QED BY <1>2, <1>3, HostStarts, StepKeepsHost, PTL DEF HostSafe

\* Nothing wakes the session after a doubtful run that the human has not
\* looked at.
THEOREM WakesAreReviewed == HostSafe => NoWakeBeforeReview
<1> DEFINE Seen ==
        Len(transcript') > Len(transcript) =>
            \A a \in DOMAIN activations :
                activations[a].state = "uncertain"
                /\ a < transcript'[Len(transcript')].id
                    => a \in reviewed
<1>1. ASSUME HInv, [HostNext]_wakeHostVars PROVE Seen
  <2>1. CASE UNCHANGED transcript
    <3>1. transcript \in Seq(Batches) /\ Len(transcript) \in Nat
      <4>1. transcript \in Seq(Batches)
        BY <1>1 DEF HInv, HostType
      <4> QED BY <4>1
    <3> QED BY <2>1, <3>1
  <2>2. CASE Permitted /\ Ready /\ Enter(batch)
    <3>1. batch \in Batches /\ batch.id = Latest
      BY <1>1, <2>2, PermittedBatch DEF Fresh
    <3>2. transcript'[Len(transcript')] = batch
      BY <1>1, <2>2, <3>1, EnteredLast
    <3>3. ASSUME NEW a \in DOMAIN activations, activations[a].state = "uncertain", a < Latest
          PROVE  a \in reviewed
      <4>1. a # Latest
        BY <1>1, <3>3 DEF HInv, EInv, IInv, TypeOK, Latest
      <4> QED BY <1>1, <3>3, <4>1 DEF HInv, Ledger, StateOf
    <3> QED BY <3>1, <3>2, <3>3
  <2> QED BY <1>1, <2>1, <2>2, TextGrows
<1>2. NoWakeBeforeReview <=> [][Seen]_wakeHostVars
  BY DEF NoWakeBeforeReview
<1> HIDE DEF Seen
<1>3. HInv /\ [HostNext]_wakeHostVars => [Seen]_wakeHostVars
  BY <1>1
<1> QED BY <1>2, <1>3, HostStarts, StepKeepsHost, PTL DEF HostSafe

(***************************************************************************)
(* The contract                                                            *)
(***************************************************************************)
\* What the contract calls the ledger.
RunStates == [a \in DOMAIN activations |-> activations[a].state]

\* The states of a sequence of runs, as a sequence.
LEMMA StatesOfRuns ==
    ASSUME NEW A \in Seq(Activation), NEW s, s = [a \in DOMAIN A |-> A[a].state]
    PROVE  /\ s \in Seq(ActivationStates) /\ Len(s) = Len(A) /\ DOMAIN s = DOMAIN A
           /\ \A a \in DOMAIN A : s[a] = A[a].state
<1>1. DOMAIN A = 1..Len(A) /\ Len(A) \in Nat
  OBVIOUS
<1>2. \A a \in 1..Len(A) : A[a].state \in ActivationStates
  <2>1. \A a \in 1..Len(A) : A[a] \in Activation
    OBVIOUS
  <2> QED BY <2>1 DEF Activation
<1>3. s = [a \in 1..Len(A) |-> A[a].state]
  BY <1>1
<1>4. s \in Seq(ActivationStates) /\ Len(s) = Len(A)
  BY <1>1, <1>2, <1>3
<1> QED BY <1>1, <1>3, <1>4

\* The ledger before and after a step.
LEMMA LedgerSeen ==
    ASSUME HInv, EInv'
    PROVE  /\ RunStates \in Seq(ActivationStates) /\ RunStates' \in Seq(ActivationStates)
           /\ Len(RunStates) = Latest /\ Latest \in Nat
           /\ DOMAIN RunStates = 1..Latest /\ DOMAIN activations = 1..Latest
           /\ DOMAIN RunStates' = DOMAIN activations' /\ Len(RunStates') = Len(activations')
           /\ \A a \in DOMAIN activations : RunStates[a] = activations[a].state
           /\ \A a \in DOMAIN activations' : RunStates'[a] = activations'[a].state
<1>1. activations \in Seq(Activation) /\ activations' \in Seq(Activation)
  BY DEF HInv, EInv, IInv, TypeOK
<1>2. /\ RunStates \in Seq(ActivationStates) /\ Len(RunStates) = Len(activations)
      /\ DOMAIN RunStates = DOMAIN activations
      /\ \A a \in DOMAIN activations : RunStates[a] = activations[a].state
  BY <1>1, StatesOfRuns DEF RunStates
<1>3. /\ RunStates' \in Seq(ActivationStates) /\ Len(RunStates') = Len(activations')
      /\ DOMAIN RunStates' = DOMAIN activations'
      /\ \A a \in DOMAIN activations' : RunStates'[a] = activations'[a].state
  BY <1>1, StatesOfRuns DEF RunStates
<1>4. DOMAIN activations = 1..Latest /\ Latest \in Nat
  BY <1>1 DEF Latest
<1> QED BY <1>2, <1>3, <1>4 DEF Latest

ContractStutters == UNCHANGED <<RunStates, Woken>>

\* What LatestMoves means for the ledger of the contract.
LEMMA LatestDecided ==
    ASSUME HInv, EInv', NEW s, LatestMoves(s)
    PROVE  RunStates' = [RunStates EXCEPT ![Latest] = s]
BY LedgerSeen DEF LatestMoves

\* If no run moves, the contract sees no move.
LEMMA SameLedgerSeen ==
    ASSUME HInv, EInv', DOMAIN activations' = DOMAIN activations,
           \A a \in DOMAIN activations : activations'[a].state = activations[a].state
    PROVE  RunStates' = RunStates
BY LedgerSeen

\* A calm step of the broker's side decides nothing or leaves the last
\* activation in doubt.
LEMMA CalmKeepsContract ==
    ASSUME HInv, EInv', LedgerCalm, Woken' = Woken
    PROVE  ContractStutters \/ Contract!Doubt
<1>1. DOMAIN activations' = DOMAIN activations
  BY DEF LedgerCalm
<1>2. CASE \A a \in DOMAIN activations : activations'[a].state = activations[a].state
  BY <1>1, <1>2, SameLedgerSeen DEF ContractStutters
<1>3. CASE \E a \in DOMAIN activations : activations'[a].state # activations[a].state
  <2>1. PICK a \in DOMAIN activations : activations'[a].state # activations[a].state
    BY <1>3
  <2>2. a = Latest /\ IsLive(Latest) /\ activations'[Latest].state = "uncertain"
    BY <2>1 DEF LedgerCalm, HInv, Ledger
  <2>3. LatestMoves("uncertain")
    BY <1>1, <2>1, <2>2 DEF LedgerCalm, LatestMoves, HInv, Ledger
  <2>4. RunStates' = [RunStates EXCEPT ![Latest] = "uncertain"]
    BY <2>3, LatestDecided
  <2>5. Len(RunStates) = Latest /\ Latest > 0 /\ RunStates[Latest] \in {"reserved", "dispatched"}
    BY <2>1, <2>2, LedgerSeen DEF IsLive, LiveStates
  <2> QED BY <2>4, <2>5 DEF Contract!Doubt, Contract!Undecided, Contract!Last, Contract!Decide,
             RunStates, Woken
<1> QED BY <1>2, <1>3

\* A served call is a step of the contract.
LEMMA ServedKeepsContract ==
    ASSUME HInv, EInv', ServedFrame, NEW r \in Requests, NEW reply, Effect(r, reply), Sound(r),
           r.op # "none"
    PROVE  \/ ContractStutters
           \/ Contract!Reserve \/ Contract!Charge \/ Contract!Refund
           \/ Contract!Doubt \/ Contract!Settle
<1>1. Woken' = Woken
  BY DEF ServedFrame, textVars, Woken
<1>2. r.op # "auto-reserve" =>
            /\ Latest \in DOMAIN activations /\ Latest > 0
            /\ r.op # "auto-finish" => Latest \notin Woken
  BY LedgerSeen DEF Sound, Requests
<1> USE DEF Contract!Undecided, Contract!Last, Contract!Decide, RunStates, Woken
<1> HIDE DEF RunStates, Woken
<1>3. CASE UNCHANGED vars
  BY <1>1, <1>3, SameLedgerSeen DEF vars, wakeVars, ContractStutters
<1>4. CASE r.op = "auto-reserve" /\ ReservedNow
  <2>1. \A i, j \in Nat : 1..i = 1..j => i = j
    OBVIOUS
  <2>2. \A n \in Nat : (1..n) \cup {n + 1} = 1..(n + 1)
    OBVIOUS
  <2>3. DOMAIN activations' = 1..(Latest + 1)
    BY <1>4, <2>2, LedgerSeen DEF ReservedNow
  <2>4. Len(activations') = Latest + 1 /\ Latest + 1 <= MaxActivations
    <3>1. /\ DOMAIN activations' = 1..Len(activations') /\ Len(activations') \in Nat
          /\ Len(activations') <= MaxActivations
      BY DEF EInv, IInv, TypeOK
    <3> QED BY <2>1, <2>3, <3>1, LedgerSeen
  <2>5. /\ \A a \in 1..Latest : RunStates'[a] = RunStates[a]
        /\ RunStates'[Latest + 1] = "reserved"
    BY <1>4, <2>3, LedgerSeen DEF ReservedNow
  <2>6. RunStates' = Append(RunStates, "reserved")
    BY <2>3, <2>4, <2>5, LedgerSeen
  <2>7. Latest > 0 => RunStates[Latest] \notin {"reserved", "dispatched"}
    <3>1. ASSUME Latest > 0 PROVE activations[Latest].state \notin {"reserved", "dispatched"}
      <4>1. Latest \in DOMAIN activations
        BY <3>1, LedgerSeen
      <4> QED BY <1>4, <4>1 DEF ReservedNow, HasLiveActivation, HInv, Ledger, IsLive, LiveStates
    <3> QED BY <3>1, LedgerSeen
  <2>8. Len(RunStates) = Latest /\ Latest < MaxActivations
    BY <2>4, LedgerSeen, BoundsAssumption
  <2> QED BY <1>1, <2>6, <2>7, <2>8 DEF Contract!Reserve, RunStates, Woken
<1>5. CASE r.op \in {"auto-cancel", "auto-dispatch", "auto-reconcile"} /\ RefundedNow(persisted)
  <2>1. RunStates' = [RunStates EXCEPT ![Latest] = "cancelled"]
    BY <1>5, LatestDecided DEF RefundedNow
  <2>2. Len(RunStates) = Latest /\ RunStates[Latest] \in {"reserved", "dispatched"}
    BY <1>2, <1>5, LedgerSeen DEF RefundedNow, IsLive, LiveStates
  <2>3. Latest > 0 /\ Latest \notin Woken
    BY <1>2, <1>5
  <2> QED BY <1>1, <2>1, <2>2, <2>3 DEF Contract!Refund, RunStates, Woken
<1>6. CASE r.op = "auto-dispatch" /\ DispatchedNow
  <2>1. RunStates' = [RunStates EXCEPT ![Latest] = "dispatched"]
    BY <1>6, LatestDecided DEF DispatchedNow
  <2>2. Len(RunStates) = Latest /\ RunStates[Latest] = "reserved" /\ Latest > 0
    BY <1>2, <1>6, LedgerSeen DEF DispatchedNow, StateOf
  <2> QED BY <1>1, <2>1, <2>2 DEF Contract!Charge, RunStates, Woken
<1>7. CASE r.op = "auto-finish" /\ ReportedNow(persisted)
  <2>1. /\ Len(RunStates) = Latest /\ Latest > 0
        /\ RunStates[Latest] \in {"dispatched", "uncertain"}
    BY <1>2, <1>7, LedgerSeen DEF ReportedNow, StateOf
  <2>2. CASE LatestMoves("settled") /\ Latest \in Woken
    <3>1. RunStates' = [RunStates EXCEPT ![Latest] = "settled"]
      BY <2>2, LatestDecided
    <3> QED BY <1>1, <2>1, <2>2, <3>1 DEF Contract!Settle, RunStates, Woken
  <2>3. CASE LatestMoves("uncertain") /\ RunStates[Latest] = "dispatched"
    <3>1. RunStates' = [RunStates EXCEPT ![Latest] = "uncertain"]
      BY <2>3, LatestDecided
    <3> QED BY <1>1, <2>1, <2>3, <3>1 DEF Contract!Doubt, RunStates, Woken
  <2>4. CASE LatestMoves("uncertain") /\ RunStates[Latest] = "uncertain"
    <3>1. RunStates' = [RunStates EXCEPT ![Latest] = "uncertain"]
      BY <2>4, LatestDecided
    <3>2. RunStates' = RunStates
      BY <2>1, <2>4, <3>1, LedgerSeen
    <3> QED BY <1>1, <3>2 DEF ContractStutters
  <2> QED BY <1>7, <2>1, <2>2, <2>3, <2>4 DEF ReportedNow
<1> QED BY <1>3, <1>4, <1>5, <1>6, <1>7 DEF Effect

\* The insertion is the wake the contract speaks of.
LEMMA InsertionWakes ==
    ASSUME HInv, EInv', Permitted, Ready, Enter(batch), UNCHANGED vars
    PROVE  Contract!Wake
<1>1. /\ batch \in Batches /\ batch.id = Latest /\ Latest # 0 /\ Latest \notin Woken
      /\ StateOf(Latest) \in {"dispatched", "uncertain"} /\ Latest \in DOMAIN activations
  BY PermittedBatch DEF Fresh
<1>2. Woken' = Woken \cup {Latest}
  BY <1>1, EnterAdds DEF HInv, HostType
<1>3. RunStates' = RunStates
  BY SameLedgerSeen DEF vars, wakeVars
<1>4. Len(RunStates) = Latest /\ Latest > 0 /\ RunStates[Latest] \in {"dispatched", "uncertain"}
  BY <1>1, LedgerSeen DEF StateOf
<1> QED BY <1>1, <1>2, <1>3, <1>4 DEF Contract!Wake, Contract!Last, RunStates, Woken

\* Every step of the host and its broker is a step of the contract, or none.
LEMMA StepKeepsContract ==
    ASSUME HInv, [HostNext]_wakeHostVars
    PROVE  ContractStutters \/ Contract!ContractNext
<1>1. EInv'
  BY HostIsStore, StepKeepsEvidence DEF HInv
<1>2. CASE HostOnly \/ UNCHANGED wakeHostVars
  <2>1. UNCHANGED vars
    BY <1>2, HostOnlyKeepsStore DEF wakeHostVars
  <2>2. RunStates' = RunStates
    BY <1>1, <2>1, SameLedgerSeen DEF vars, wakeVars
  <2>3. CASE UNCHANGED transcript
    BY <2>2, <2>3 DEF ContractStutters, Woken
  <2>4. CASE Permitted /\ Ready /\ Enter(batch)
    BY <1>1, <2>1, <2>4, InsertionWakes DEF Contract!ContractNext
  <2> QED BY <2>3, <2>4, TextGrows
<1>3. CASE BrokerSide
  <2>1. LedgerCalm
    BY <1>3, ReconnectCalm, LossCalm, RecoveryReadsCalm, RecoveryConfirmedCalm, AskCalm,
       CloseCalm, CommandCalm DEF BrokerSide, Calm
  <2>2. Woken' = Woken
    BY <1>3, BrokerSideFramed DEF BrokerSideFrame, textVars, Woken
  <2> QED BY <1>1, <2>1, <2>2, CalmKeepsContract DEF Contract!ContractNext
<1>4. CASE Serve
  <2>1. Awaiting /\ request.by \in actors /\ Handle(request, answer')
    BY <1>4 DEF Serve
  <2>2. request \in Requests /\ request.op # "none"
    BY <2>1 DEF HInv, HostType, Stage, Awaiting
  <2>3. Sound(request)
    BY <2>1, AwaitedSound
  <2>4. Effect(request, answer')
    BY <2>1, <2>2, <2>3, ServedEffect DEF HInv, Evidence
  <2>5. ServedFrame
    BY <1>4 DEF Serve, ServedFrame, linkVars, sessionVars, hostVars
  <2> QED BY <1>1, <2>2, <2>3, <2>4, <2>5, ServedKeepsContract DEF Contract!ContractNext
<1>5. CASE ServeOrphan
  <2>1. PICK reply \in {"ok", "nothing", "error"} : Handle(orphan, reply)
    BY <1>5 DEF ServeOrphan
  <2>2. orphan # NoRequest /\ orphan.by \in actors /\ ServedFrame
    BY <1>5 DEF ServeOrphan, ServedFrame, linkVars, sessionVars, hostVars, callVars
  <2>3. orphan \in Requests /\ orphan.op # "none"
    BY <2>1 DEF HInv, HostType, Handle
  <2>4. CASE orphan.by.generation # Member.generation
    <3>1. UNCHANGED vars
      BY <2>1, <2>3, <2>4, DeadIsRefused
    <3>2. RunStates' = RunStates
      BY <1>1, <3>1, SameLedgerSeen DEF vars, wakeVars
    <3> QED BY <2>2, <3>2 DEF ContractStutters, Woken, ServedFrame, textVars
  <2>5. CASE orphan.by.generation = Member.generation
    <3>1. Sound(orphan)
      BY <2>2, <2>5 DEF HInv, OrphanSound
    <3>2. Effect(orphan, reply)
      BY <2>1, <2>2, <2>3, <3>1, ServedEffect DEF HInv, Evidence
    <3> QED BY <1>1, <2>2, <2>3, <3>1, <3>2, ServedKeepsContract DEF Contract!ContractNext
  <2> QED BY <2>4, <2>5
<1> QED BY <1>2, <1>3, <1>4, <1>5, HostNextSplits

\* The ledger is empty and nobody was woken when host and broker start.
LEMMA ContractStarts == HostInit => Contract!ContractInit
<1> SUFFICES ASSUME HostInit PROVE Contract!ContractInit
  OBVIOUS
<1>1. activations = <<>> /\ transcript = <<>>
  BY DEF HostInit, Init
<1>2. [a \in DOMAIN activations |-> activations[a].state] = <<>>
  BY <1>1
<1>3. {transcript[i].id : i \in DOMAIN transcript} = {}
  BY <1>1
<1> QED BY <1>2, <1>3 DEF Contract!ContractInit

\* Host and broker together keep the promise of WakeContract: a wake is charged
\* first, happens once, and is refunded only if it never happened.
THEOREM ContractKept == HostSafe => ContractHolds
<1>1. HInv /\ [HostNext]_wakeHostVars => [Contract!ContractNext]_Contract!contractVars
  BY StepKeepsContract DEF ContractStutters, RunStates, Woken, Contract!contractVars
<1> QED BY <1>1, ContractStarts, HostStarts, StepKeepsHost, PTL
       DEF HostSafe, ContractHolds, Contract!ContractSpec

(***************************************************************************)
(* What the store and the contract promise holds of the host.  The host    *)
(* starts with members that have joined, not where the store starts; but   *)
(* what is proved of the store's steps asks only for a state that meets    *)
(* the store's invariants, and so carries over.                            *)
(***************************************************************************)
\* The host starts with an empty room: nothing is queued, charged or answered.
LEMMA HostStartsEmpty == HostInit => LInv /\ RInv
<1> SUFFICES ASSUME HostInit PROVE LInv /\ RInv
  OBVIOUS
<1>1. IInv
  BY HostStarts DEF HInv, EInv
<1>2. /\ messages = <<>> /\ activations = <<>>
      /\ \A m \in MsgIds, p \in Participants : deliveries[m][p] = Absent
  BY DEF HostInit
<1>3. Occupying = {}
  <2>1. \A m \in MsgIds, p \in Participants :
          ~(deliveries[m][p].state \in UndeliveredStates \/ deliveries[m][p].obligation = "open")
    BY <1>2 DEF Absent, UndeliveredStates, InFlightStates
  <2> QED BY <2>1, ZenonT(30) DEF Occupying
<1>4. Charged = {} /\ RoomUsed = Cardinality(Charged)
  BY <1>2 DEF Charged, RoomUsed
<1>5. LInv
  BY <1>1, <1>3, <1>4, FS_EmptySet, BoundsAssumption DEF LInv, QueueBounded, BudgetNeverExceeded
<1>6. DOMAIN messages = {}
  BY <1>2
<1>7. AbsentRows
  BY <1>2 DEF AbsentRows, Absent
<1>8. RInv
  BY <1>1, <1>6, <1>7 DEF RInv, RefersBack, AnswersShown, RepliesClose, RepliesDoNotPingPong
<1> QED BY <1>5, <1>8

\* The store's invariants hold throughout: with a host that loses answers, retries,
\* gives up and reloads, the queue and the wake budget keep their limits, every
\* answered request has its reply, replies do not multiply, a settled run is
\* proven, and no claim outlives its connection or its run (store.ts and
\* automation-store.ts, driven by automation.ts).
THEOREM HostKeepsStoreInvariants ==
    HostSafe => [](/\ QueueBounded /\ BudgetNeverExceeded
                   /\ AnsweredHasReply /\ RepliesDoNotPingPong /\ SettledIsProven
                   /\ InFlightOwned /\ LiveActivationOwned /\ ClaimsHaveLiveActivation)
<1>1. HostSafe => []LInv
  <2>1. HostInit => LInv
    BY HostStartsEmpty
  <2> QED BY <2>1, HostUsesStore, StepKeepsLimits, PTL DEF HostSafe
<1>2. HostSafe => []RInv
  <2>1. HostInit => RInv
    BY HostStartsEmpty
  <2>2. RInv /\ [Next]_vars => RInv'
    BY StepKeepsReplies
  <2> QED BY <2>1, <2>2, HostUsesStore, PTL DEF HostSafe
<1>3. LInv /\ RInv /\ HInv =>
        /\ QueueBounded /\ BudgetNeverExceeded
        /\ AnsweredHasReply /\ RepliesDoNotPingPong /\ SettledIsProven
        /\ InFlightOwned /\ LiveActivationOwned /\ ClaimsHaveLiveActivation
  BY DEF LInv, RInv, HInv, EInv, IInv, AnsweredHasReply
<1> QED BY <1>1, <1>2, <1>3, HostInvariance, PTL

\* And so do its action properties: whatever the host asks for twice, late or not
\* at all, nothing is replayed silently or recorded on another session's word,
\* obsolete work stays out, a dispatch looks again, and doubt pauses the member.
THEOREM HostKeepsStoreSteps ==
    HostSafe => /\ NoSilentReplay /\ EvidenceFromAttemptSession
                /\ ObsoletePendingOnlyByRetry
                /\ DispatchRevalidates /\ InterruptionPauses
<1>1. HostSafe => []EInv /\ []IInv
  <2>1. HInv => EInv /\ IInv
    BY DEF HInv, EInv
  <2> QED BY <2>1, HostInvariance, PTL
<1>2. HostSafe => []RInv
  <2>1. HostInit => RInv
    BY HostStartsEmpty
  <2>2. RInv /\ [Next]_vars => RInv'
    BY StepKeepsReplies
  <2> QED BY <2>1, <2>2, HostUsesStore, PTL DEF HostSafe
<1> QED BY <1>1, <1>2, HostUsesStore, StepsReplayNothing, StepsRecordBySession,
           StepsKeepObsoleteOut, StepsRevalidate, StepsPauseOnDoubt, PTL

\* A step of the contract, seen as a step of the runs and of the wakes: a run is
\* added, the last one decided, or the last one woken.
LEMMA ContractMoves ==
    ASSUME HInv, EInv', Contract!ContractNext
    PROVE  \/ /\ RunStates' = Append(RunStates, "reserved") /\ Woken' = Woken
           \/ /\ Latest > 0 /\ Woken' = Woken
              /\ RunStates[Latest] \notin {"cancelled", "settled"}
              /\ \E state \in ActivationStates :
                    /\ RunStates' = [RunStates EXCEPT ![Latest] = state]
                    /\ state = "settled" => Latest \in Woken
           \/ RunStates' = RunStates /\ Woken \subseteq Woken'
<1>1. Len(RunStates) = Latest
  BY LedgerSeen
<1>2. CASE Contract!Reserve
  BY <1>2 DEF Contract!Reserve, RunStates, Woken
<1>3. CASE Contract!Wake
  BY <1>3 DEF Contract!Wake, RunStates, Woken
<1>4. CASE Contract!Charge
  BY <1>1, <1>4 DEF Contract!Charge, Contract!Undecided, Contract!Decide, Contract!Last,
     RunStates, Woken, ActivationStates, LiveStates
<1>5. CASE Contract!Refund
  BY <1>1, <1>5 DEF Contract!Refund, Contract!Undecided, Contract!Decide, Contract!Last,
     RunStates, Woken, ActivationStates
<1>6. CASE Contract!Doubt
  BY <1>1, <1>6 DEF Contract!Doubt, Contract!Undecided, Contract!Decide, Contract!Last,
     RunStates, Woken, ActivationStates
<1>7. CASE Contract!Settle
  <2>1. Latest \in Woken
    BY <1>1, <1>7 DEF Contract!Settle, Contract!Last, RunStates, Woken
  <2>2. Latest > 0
    BY <2>1, LedgerSeen DEF HInv, Ledger
  <2> QED BY <1>1, <1>7, <2>1, <2>2 DEF Contract!Settle, Contract!Decide, Contract!Last,
             RunStates, Woken, ActivationStates
<1> QED BY <1>2, <1>3, <1>4, <1>5, <1>6, <1>7 DEF Contract!ContractNext

\* What is settled was woken.
SettledWoken == \A a \in DOMAIN RunStates : RunStates[a] = "settled" => a \in Woken

\* The contract's history of one activation.
StaysDecided ==
    \A a \in DOMAIN RunStates :
        RunStates[a] \in {"cancelled", "settled"} => RunStates'[a] = RunStates[a]

\* Every step of the host keeps both.
LEMMA StepKeepsPromise ==
    ASSUME HInv, SettledWoken, [HostNext]_wakeHostVars
    PROVE  SettledWoken' /\ StaysDecided
<1>1. EInv'
  BY HostIsStore, StepKeepsEvidence DEF HInv
<1>2. /\ RunStates \in Seq(ActivationStates) /\ Len(RunStates) = Latest /\ Latest \in Nat
      /\ DOMAIN RunStates = 1..Latest
  BY <1>1, LedgerSeen
<1> DEFINE runs == RunStates
           wakes == Woken
<1>3. /\ runs \in Seq(ActivationStates) /\ Len(runs) = Latest /\ DOMAIN runs = 1..Latest
      /\ \A a \in DOMAIN runs : runs[a] = "settled" => a \in wakes
  BY <1>2 DEF SettledWoken
<1>4. CASE ContractStutters
  BY <1>4 DEF ContractStutters, SettledWoken, StaysDecided
<1>5. CASE Contract!ContractNext
  <2>1. CASE runs' = Append(runs, "reserved") /\ wakes' = wakes
    <3>1. /\ DOMAIN runs' = 1..(Latest + 1) /\ runs'[Latest + 1] = "reserved"
          /\ \A a \in 1..Latest : runs'[a] = runs[a]
      BY <1>2, <1>3, <2>1
    <3>2. \A a \in 1..(Latest + 1) : a \in 1..Latest \/ a = Latest + 1
      BY <1>2
    <3> QED BY <1>3, <2>1, <3>1, <3>2 DEF SettledWoken, StaysDecided
  <2>2. CASE /\ Latest > 0 /\ wakes' = wakes /\ runs[Latest] \notin {"cancelled", "settled"}
             /\ \E state \in ActivationStates :
                   /\ runs' = [runs EXCEPT ![Latest] = state]
                   /\ state = "settled" => Latest \in wakes
    <3>1. PICK state \in ActivationStates :
                /\ runs' = [runs EXCEPT ![Latest] = state]
                /\ state = "settled" => Latest \in wakes
      BY <2>2
    <3>2. /\ DOMAIN runs' = DOMAIN runs /\ Latest \in DOMAIN runs /\ runs'[Latest] = state
          /\ \A a \in DOMAIN runs : a # Latest => runs'[a] = runs[a]
      BY <1>2, <1>3, <2>2, <3>1
    <3> QED BY <1>3, <2>2, <3>1, <3>2 DEF SettledWoken, StaysDecided
  <2>3. CASE runs' = runs /\ wakes \subseteq wakes'
    BY <1>3, <2>3 DEF SettledWoken, StaysDecided
  <2> QED BY <1>1, <1>5, <2>1, <2>2, <2>3, ContractMoves
<1> QED BY <1>4, <1>5, StepKeepsContract

\* The promise, on the rows of the broker and the text of the session.
LEMMA PromiseHeld == HInv /\ SettledWoken => Contract!Promise
<1> SUFFICES ASSUME HInv, SettledWoken PROVE Contract!Promise
  OBVIOUS
<1>1. /\ activations \in Seq(Activation) /\ DOMAIN RunStates = DOMAIN activations
      /\ \A a \in DOMAIN activations : RunStates[a] = activations[a].state
  BY DEF HInv, EInv, IInv, TypeOK, RunStates
<1>2. Len(RunStates) = Latest
  <2>1. RunStates \in Seq(ActivationStates) /\ Len(RunStates) = Len(activations)
    BY <1>1, StatesOfRuns DEF RunStates
  <2> QED BY <2>1 DEF Latest
<1>3. \A a \in DOMAIN RunStates : RunStates[a] \in ActivationStates
  <2>1. RunStates \in Seq(ActivationStates)
    BY <1>1, StatesOfRuns DEF RunStates
  <2> QED BY <2>1
<1>4. ASSUME NEW a \in Woken
      PROVE  a \in DOMAIN RunStates /\ RunStates[a] \in {"dispatched", "uncertain", "settled"}
  <2>1. a \in DOMAIN activations /\ activations[a].state \notin {"reserved", "cancelled"}
    BY <1>4 DEF HInv, Ledger, StateOf
  <2>2. RunStates[a] = activations[a].state /\ RunStates[a] \in ActivationStates
    BY <1>1, <1>3, <2>1
  <2> QED BY <1>1, <2>1, <2>2 DEF ActivationStates, LiveStates
<1>5. ASSUME NEW a \in DOMAIN RunStates, RunStates[a] \in {"reserved", "dispatched"}
      PROVE  a = Len(RunStates)
  <2>1. a \in DOMAIN activations /\ IsLive(a)
    BY <1>1, <1>5 DEF IsLive, LiveStates
  <2>2. a = Latest
    BY <2>1 DEF HInv, Ledger
  <2> QED BY <1>2, <2>2
<1> QED BY <1>4, <1>5 DEF SettledWoken, Contract!Promise, Contract!Last, RunStates, Woken

\* The contract's promise, of the host itself: whoever was woken was charged and
\* not refunded, what is settled did happen, one activation is undecided at a time,
\* and what is refunded or settled stays so, whatever report comes late
\* (automation.ts: every call to auto-cancel, auto-dispatch, auto-reconcile
\* and auto-finish).
THEOREM HostKeepsPromise == HostSafe => []Contract!Promise /\ Contract!Final
<1>1. HostInit => SettledWoken
  BY DEF HostInit, SettledWoken, RunStates
<1>2. HInv /\ SettledWoken /\ [HostNext]_wakeHostVars => SettledWoken' /\ StaysDecided
  BY StepKeepsPromise
<1>3. Contract!Final <=> [][StaysDecided]_Contract!contractVars
  BY DEF Contract!Final, StaysDecided, RunStates
<1>4. HInv /\ SettledWoken /\ [HostNext]_wakeHostVars => [StaysDecided]_Contract!contractVars
  BY <1>2
<1>5. HInv /\ SettledWoken => Contract!Promise
  BY PromiseHeld
<1> QED BY <1>1, <1>2, <1>3, <1>4, <1>5, HostInvariance, PTL DEF HostSafe

=============================================================================
