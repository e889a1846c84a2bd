--------------------------- MODULE TeamStoreProofs ---------------------------
(***************************************************************************)
(* TLAPS proofs about TeamStore, for every number of members, sessions,    *)
(* threads, messages, connections and activations and every limit.         *)
(***************************************************************************)
EXTENDS TeamStore, TLAPS

USE DEF InFlightStates, UndeliveredStates, LiveStates

\* A joined member is bound to a session, and only joined members hold a link.
Members ==
    \A p \in Participants :
        /\ participants[p].joined => participants[p].session \in Sessions
        /\ participants[p].link # "none" => participants[p].joined

(***************************************************************************)
(* Type correctness                                                        *)
(***************************************************************************)
\* A row that is not there is a row.
LEMMA AbsentTyped == Absent \in Delivery
  BY BoundsAssumption DEF Absent, Delivery, DeliveryStates, Obligations

\* A row that only changes its state is still a row.
LEMMA StateTyped ==
    ASSUME NEW d \in Delivery, NEW s \in DeliveryStates
    PROVE  [d EXCEPT !.state = s] \in Delivery
  BY DEF Delivery

\* The rows left by a connection that ends are rows.
LEMMA UnlinkedTyped ==
    ASSUME TypeOK, NEW P
    PROVE  Unlinked(P) \in [Participants -> ParticipantRow]
  BY DEF TypeOK, Unlinked, ParticipantRow, HasLiveActivation

\* Ending connections rewrites states only.
LEMMA SeverTyped ==
    ASSUME TypeOK, NEW P, Sever(P)
    PROVE  /\ activations' \in Seq(Activation)
           /\ Len(activations') = Len(activations)
           /\ DOMAIN activations' = DOMAIN activations
           /\ deliveries' \in [MsgIds -> [Participants -> Delivery]]
<1> DEFINE newAct(a) == IF activations[a].participant \in P /\ IsLive(a)
                        THEN [activations[a] EXCEPT !.state = "uncertain"]
                        ELSE activations[a]
           newRow(m, p) == IF p \in P /\ InFlight(deliveries[m][p])
                           THEN [deliveries[m][p] EXCEPT !.state = "uncertain"]
                           ELSE deliveries[m][p]
<1>1. DOMAIN activations = 1..Len(activations) /\ Len(activations) \in Nat
  BY DEF TypeOK
<1>2. \A a \in 1..Len(activations) : newAct(a) \in Activation
  <2>1. \A a \in 1..Len(activations) : activations[a] \in Activation
    BY DEF TypeOK
  <2> QED BY <2>1 DEF Activation, ActivationStates
<1>3. activations' = [a \in 1..Len(activations) |-> newAct(a)]
  BY <1>1 DEF Sever, InterruptedActivations
<1>4. \A m \in MsgIds, p \in Participants : newRow(m, p) \in Delivery
  <2>1. \A m \in MsgIds, p \in Participants : deliveries[m][p] \in Delivery
    BY DEF TypeOK
  <2>2. "uncertain" \in DeliveryStates
    BY DEF DeliveryStates
  <2> QED BY <2>1, <2>2, StateTyped
<1>5. deliveries' = [m \in MsgIds |-> [p \in Participants |-> newRow(m, p)]]
  BY DEF Sever, DeliveriesLeftUncertain
<1> HIDE DEF newAct, newRow
<1>6. /\ activations' \in Seq(Activation)
      /\ Len(activations') = Len(activations)
      /\ DOMAIN activations' = 1..Len(activations)
  BY <1>1, <1>2, <1>3
<1> QED BY <1>1, <1>4, <1>5, <1>6

\* Rows are rewritten in place by most operations.
LEMMA TableTyped ==
    ASSUME TypeOK, NEW m \in MsgIds, NEW p \in Participants, NEW d \in Delivery
    PROVE  [deliveries EXCEPT ![m][p] = d] \in [MsgIds -> [Participants -> Delivery]]
  BY DEF TypeOK

\* Stored messages have message ids.
LEMMA MessageIds == TypeOK => DOMAIN messages \subseteq MsgIds
  BY BoundsAssumption DEF TypeOK, MsgIds

\* Every delivery row is a delivery.
LEMMA RowTyped ==
    ASSUME TypeOK, NEW m \in MsgIds, NEW p \in Participants
    PROVE  deliveries[m][p] \in Delivery
  BY DEF TypeOK

\* A member's row, rebound or reconnected, is still a row.
LEMMA ReboundTyped ==
    ASSUME NEW F \in [Participants -> ParticipantRow], NEW p \in Participants,
           NEW s \in Sessions
    PROVE  [F EXCEPT ![p].joined = TRUE, ![p].session = s]
                \in [Participants -> ParticipantRow]
<1>1. F[p] \in ParticipantRow
  OBVIOUS
<1>2. [F[p] EXCEPT !.joined = TRUE, !.session = s] \in ParticipantRow
  BY <1>1 DEF ParticipantRow
<1>3. [F EXCEPT ![p] = [F[p] EXCEPT !.joined = TRUE, !.session = s]]
            \in [Participants -> ParticipantRow]
  BY <1>2
<1> QED BY <1>3

\* The rows of a member that connects or rejoins are rows.
LEMMA LinkedTyped ==
    ASSUME NEW F \in [Participants -> ParticipantRow], NEW p \in Participants,
           NEW g \in 0..MaxGeneration
    PROVE  [F EXCEPT ![p].generation = g, ![p].link = "live"]
                \in [Participants -> ParticipantRow]
<1>1. F[p] \in ParticipantRow
  OBVIOUS
<1>2. [F[p] EXCEPT !.generation = g, !.link = "live"] \in ParticipantRow
  BY <1>1 DEF ParticipantRow
<1>3. [F EXCEPT ![p] = [F[p] EXCEPT !.generation = g, !.link = "live"]]
            \in [Participants -> ParticipantRow]
  BY <1>2
<1> QED BY <1>3

\* Membership steps keep the type invariant.
LEMMA MembershipTyped == TypeOK /\ Members /\ Membership => TypeOK'
<1> SUFFICES ASSUME TypeOK, Members, Membership PROVE TypeOK'
  OBVIOUS
<1> USE BoundsAssumption DEF vars, memberVars, mailVars, wakeVars
<1>1. ASSUME NEW p \in Participants, NEW s \in Sessions, Join(p, s) PROVE TypeOK'
  BY <1>1, ReboundTyped DEF TypeOK, Join
<1>2. ASSUME NEW p \in Participants, NEW s \in Sessions, Rejoin(p, s) PROVE TypeOK'
  <2>1. participants' \in [Participants -> ParticipantRow]
    BY <1>2, UnlinkedTyped, ReboundTyped DEF Rejoin
  <2> QED BY <1>2, <2>1, SeverTyped DEF TypeOK, Rejoin, Sever
<1>3. ASSUME NEW p \in Participants, Connect(p) PROVE TypeOK'
  <2>1. /\ participants[p].generation + 1 \in 1..MaxGeneration
        /\ participants[p].session \in Sessions \cup {NoSession}
    BY <1>3 DEF TypeOK, Connect, ParticipantRow
  <2>2. participants' \in [Participants -> ParticipantRow]
    <3>1. participants[p].generation + 1 \in 0..MaxGeneration
      BY <2>1
    <3> QED BY <1>3, <3>1, UnlinkedTyped, LinkedTyped DEF Connect
  <2>3. participants[p].session \in Sessions
    BY <1>3, <2>1 DEF TypeOK, Members, Connect
  <2>4. [participant |-> p, session |-> participants[p].session,
         generation |-> participants[p].generation + 1] \in WorkerActor
    BY <2>1, <2>3 DEF WorkerActor
  <2>5. actors' \subseteq WorkerActor
    BY <1>3, <2>4 DEF TypeOK, Connect
  <2> QED BY <1>3, <2>2, <2>5, SeverTyped DEF TypeOK, Connect, Sever
<1>4. ASSUME NEW p \in Participants, LeaseLapse(p) PROVE TypeOK'
  BY <1>4 DEF TypeOK, LeaseLapse, ParticipantRow
<1>5. ASSUME NEW p \in Participants, Leave(p) PROVE TypeOK'
  <2>1. participants' \in [Participants -> ParticipantRow]
    <3>1. Unlinked({p}) \in [Participants -> ParticipantRow]
      BY UnlinkedTyped
    <3>2. [Unlinked({p})[p] EXCEPT !.joined = FALSE] \in ParticipantRow
      BY <3>1 DEF ParticipantRow
    <3> QED BY <1>5, <3>1, <3>2 DEF Leave
  <2> QED BY <1>5, <2>1, SeverTyped DEF TypeOK, Leave, Sever
<1>6. ASSUME NEW p \in Participants, NEW b \in BOOLEAN, Pause(p, b) PROVE TypeOK'
  BY <1>6 DEF TypeOK, Pause, ParticipantRow
<1>7. ASSUME NEW w \in actors, Disconnect(w) PROVE TypeOK'
  <2>1. actors' \subseteq WorkerActor
    BY <1>7 DEF TypeOK, Disconnect
  <2>2. CASE participants[w.participant].link # "none"
             /\ participants[w.participant].generation = w.generation
    BY <1>7, <2>1, <2>2, UnlinkedTyped, SeverTyped DEF TypeOK, Disconnect, Sever
  <2>3. CASE ~(participants[w.participant].link # "none"
               /\ participants[w.participant].generation = w.generation)
    BY <1>7, <2>1, <2>3 DEF TypeOK, Disconnect
  <2> QED BY <2>2, <2>3
<1>8. ASSUME NEW b \in BOOLEAN, PauseRoom(b) PROVE TypeOK'
  BY <1>8 DEF TypeOK, PauseRoom
<1>9. ASSUME Expire PROVE TypeOK'
  BY <1>9, UnlinkedTyped, SeverTyped DEF TypeOK, Expire, Sever
<1>10. ASSUME BrokerRestart PROVE TypeOK'
  BY <1>10, UnlinkedTyped, SeverTyped DEF TypeOK, BrokerRestart, Sever
<1> QED BY <1>1, <1>2, <1>3, <1>4, <1>5, <1>6, <1>7, <1>8, <1>9, <1>10 DEF Membership

\* Every operation on a single row: the new row decides.
LEMMA SetDeliveryTyped ==
    ASSUME TypeOK, NEW m \in MsgIds, NEW p \in Participants, NEW d \in Delivery,
           SetDelivery(m, p, d)
    PROVE  TypeOK'
  BY TableTyped DEF TypeOK, SetDelivery, memberVars, wakeVars

\* A stored message keeps the type invariant.
LEMMA StoreTyped ==
    ASSUME TypeOK, NEW msg \in Message, NEW R, NEW answered,
           Store(msg, R, answered)
    PROVE  TypeOK'
<1> DEFINE m == Len(messages) + 1
           newRow(n, p) == IF n = m /\ p \in R THEN NewDelivery(msg, p)
                           ELSE IF n = msg.replyTo /\ p \in answered
                                THEN Answered(deliveries[n][p])
                                ELSE deliveries[n][p]
<1>1. \A n \in MsgIds, p \in Participants : newRow(n, p) \in Delivery
  <2> SUFFICES ASSUME NEW n \in MsgIds, NEW p \in Participants
               PROVE  newRow(n, p) \in Delivery
    OBVIOUS
  <2>1. deliveries[n][p] \in Delivery
    BY RowTyped
  <2>2. Answered(deliveries[n][p]) \in Delivery
    BY <2>1 DEF Answered, Delivery, DeliveryStates, Obligations
  <2>3. NewDelivery(msg, p) \in Delivery
    BY AbsentTyped DEF NewDelivery, Delivery, DeliveryStates, Obligations
  <2> QED BY <2>1, <2>2, <2>3
<1>2. deliveries' = [n \in MsgIds |-> [p \in Participants |-> newRow(n, p)]]
  BY DEF Store
<1> HIDE DEF newRow
<1>3. deliveries' \in [MsgIds -> [Participants -> Delivery]]
  BY <1>1, <1>2
<1>4. messages' \in Seq(Message) /\ Len(messages') <= MaxMessages
  BY BoundsAssumption DEF TypeOK, Store
<1>5. threads' \in [Threads -> {"absent", "open", "resolved"}]
  BY DEF TypeOK, Store, Message
<1> QED BY <1>3, <1>4, <1>5 DEF TypeOK, Store, memberVars, wakeVars

\* Mailbox steps keep the type invariant.
LEMMA MailTyped == TypeOK /\ Mail => TypeOK'
<1> SUFFICES ASSUME TypeOK, Mail PROVE TypeOK'
  OBVIOUS
<1> USE BoundsAssumption, MessageIds
<1>1. ASSUME NEW w \in actors, NEW R \in SUBSET Participants, NEW type \in MessageTypes,
             NEW t \in Threads, NEW q \in 0..Len(messages), NEW k \in Keys,
             Send(w, R, type, t, q, k)
      PROVE  TypeOK'
  <2>1. [sender |-> w.participant, thread |-> t, type |-> type,
         human |-> FALSE, replyTo |-> q, key |-> k] \in Message
    BY DEF TypeOK, Message, WorkerActor
  <2> QED BY <1>1, <2>1, StoreTyped DEF Send
<1>2. ASSUME NEW m \in DOMAIN messages, NEW p \in Participants, NEW k \in Keys,
             Answer(m, p, k)
      PROVE  TypeOK'
  <2>1. messages[m] \in Message /\ m \in 0..MaxMessages
    BY DEF TypeOK, MsgIds
  <2>2. [sender |-> messages[m].sender, thread |-> messages[m].thread,
         type |-> "reply", human |-> TRUE, replyTo |-> m, key |-> k] \in Message
    BY <2>1 DEF Message, MessageTypes
  <2> QED BY <1>2, <2>2, StoreTyped DEF Answer
<1>3. ASSUME NEW m \in DOMAIN messages, NEW p \in Participants, Retry(m, p)
      PROVE  TypeOK'
  <2>1. deliveries[m][p] \in Delivery /\ 0 \in 0..MaxActivations
    BY RowTyped
  <2>2. [deliveries[m][p] EXCEPT !.state = "pending", !.activation = 0] \in Delivery
    BY <2>1 DEF Delivery, DeliveryStates
  <2> QED BY <1>3, <2>2, SetDeliveryTyped DEF Retry
<1>4. ASSUME NEW m \in DOMAIN messages, NEW p \in Participants,
             NEW o \in Obligations
      PROVE  Withdraw(m, p, o) \in Delivery
  <2>1. deliveries[m][p] \in Delivery
    BY RowTyped
  <2> QED BY <2>1 DEF Withdraw, Delivery, DeliveryStates
<1>5. ASSUME NEW m \in DOMAIN messages, NEW p \in Participants, Cancel(m, p)
      PROVE  TypeOK'
  <2>1. "none" \in Obligations /\ "cancelled" \in Obligations
    BY DEF Obligations
  <2> QED BY <1>4, <1>5, <2>1, SetDeliveryTyped DEF Cancel
<1>6. ASSUME NEW m \in DOMAIN messages, NEW p \in Participants,
             NEW next \in Participants, Redirect(m, p, next)
      PROVE  TypeOK'
  <2>1. deliveries[m][p] \in Delivery
    BY RowTyped
  <2>2. [Absent EXCEPT !.state = "pending", !.obligation = deliveries[m][p].obligation,
                       !.wake = deliveries[m][p].wake] \in Delivery
    BY <2>1, AbsentTyped DEF Delivery, DeliveryStates
  <2>3. Withdraw(m, p, "redirected") \in Delivery
    BY <1>4 DEF Obligations
  <2> QED BY <1>6, <2>2, <2>3 DEF TypeOK, Redirect, memberVars, wakeVars
<1>7. ASSUME NEW t \in Threads, Resolve(t) PROVE TypeOK'
  <2> DEFINE newRow(m, p) ==
                IF m \in DOMAIN messages /\ messages[m].thread = t
                THEN [deliveries[m][p] EXCEPT
                        !.obligation = IF @ = "open" THEN "resolved" ELSE @,
                        !.state = IF @ = "pending" THEN "cancelled" ELSE @]
                ELSE deliveries[m][p]
  <2>1. \A m \in MsgIds, p \in Participants : newRow(m, p) \in Delivery
    <3> SUFFICES ASSUME NEW m \in MsgIds, NEW p \in Participants
                 PROVE  newRow(m, p) \in Delivery
      OBVIOUS
    <3>1. deliveries[m][p] \in Delivery
      BY RowTyped
    <3>2. [deliveries[m][p] EXCEPT
             !.obligation = IF @ = "open" THEN "resolved" ELSE @,
             !.state = IF @ = "pending" THEN "cancelled" ELSE @] \in Delivery
      BY <3>1 DEF Delivery, DeliveryStates, Obligations
    <3> QED BY <3>1, <3>2
  <2>2. deliveries' = [m \in MsgIds |-> [p \in Participants |-> newRow(m, p)]]
    BY <1>7 DEF Resolve
  <2> HIDE DEF newRow
  <2>3. deliveries' \in [MsgIds -> [Participants -> Delivery]]
    BY <2>1, <2>2
  <2> QED BY <1>7, <2>3 DEF TypeOK, Resolve, memberVars, wakeVars
<1>8. ASSUME NEW w \in actors, NEW m \in DOMAIN messages,
             \/ Claim(w, m) \/ Queue(w, m) \/ Receipt(w, m)
             \/ Uncertain(w, m) \/ Reconcile(w, m)
      PROVE  TypeOK'
  <2>1. w.participant \in Participants /\ w \in WorkerActor
    BY DEF TypeOK, WorkerActor
  <2>2. deliveries[m][w.participant] \in Delivery
    BY <2>1, RowTyped
  <2>3. CASE Claim(w, m)
    <3>1. [deliveries[m][w.participant] EXCEPT !.state = "claimed",
              !.session = w.session, !.generation = w.generation] \in Delivery
      <4>1. w.session \in Sessions /\ w.generation \in 0..MaxGeneration
        BY <2>1 DEF WorkerActor
      <4> QED BY <2>2, <4>1 DEF Delivery, DeliveryStates
    <3> QED BY <2>1, <2>3, <3>1, SetDeliveryTyped DEF Claim
  <2>4. ASSUME NEW s \in {"queued", "recorded", "uncertain"}, MoveTo(w, m, s)
        PROVE  TypeOK'
    <3>1. [deliveries[m][w.participant] EXCEPT !.state = s] \in Delivery
      BY <2>2, StateTyped DEF DeliveryStates
    <3> QED BY <2>1, <2>4, <3>1, SetDeliveryTyped DEF MoveTo
  <2> QED BY <1>8, <2>3, <2>4 DEF Queue, Receipt, Uncertain, Reconcile
<1> QED BY <1>1, <1>2, <1>3, <1>5, <1>6, <1>7, <1>8 DEF Mail

\* The rows of a recording are deliveries.
LEMMA RecordedByTyped ==
    ASSUME TypeOK, NEW a, NEW E
    PROVE  RecordedBy(a, E) \in [MsgIds -> [Participants -> Delivery]]
<1> DEFINE newRow(m, p) == IF m \in E /\ deliveries[m][p].activation = a
                           THEN [deliveries[m][p] EXCEPT !.state = "recorded"]
                           ELSE deliveries[m][p]
<1>1. \A m \in MsgIds, p \in Participants : newRow(m, p) \in Delivery
  BY RowTyped, StateTyped DEF DeliveryStates
<1>2. RecordedBy(a, E) = [m \in MsgIds |-> [p \in Participants |-> newRow(m, p)]]
  BY DEF RecordedBy
<1> HIDE DEF newRow
<1> QED BY <1>1, <1>2

\* The ledger after one activation changes its state.
LEMMA LedgerTyped ==
    ASSUME TypeOK, NEW a \in DOMAIN activations, NEW s \in ActivationStates
    PROVE  /\ [activations EXCEPT ![a].state = s] \in Seq(Activation)
           /\ Len([activations EXCEPT ![a].state = s]) = Len(activations)
<1>1. activations[a] \in Activation
  BY DEF TypeOK
<1>2. [activations[a] EXCEPT !.state = s] \in Activation
  BY <1>1 DEF Activation
<1> QED BY <1>2 DEF TypeOK

\* A refund keeps the type invariant.
LEMMA RefundTyped ==
    ASSUME TypeOK, NEW ds \in [MsgIds -> [Participants -> Delivery]],
           NEW a \in DOMAIN activations, Refund(ds, a)
    PROVE  TypeOK'
<1> DEFINE newRow(m, p) ==
        IF ds[m][p].activation = a /\ InFlight(ds[m][p])
        THEN [ds[m][p] EXCEPT !.state = IF /\ ds[m][p].obligation \in ActiveObligations
                                           /\ ThreadOpen(m)
                                        THEN "pending" ELSE "cancelled",
                              !.activation = 0, !.session = NoSession,
                              !.generation = 0]
        ELSE ds[m][p]
<1>1. \A m \in MsgIds, p \in Participants : newRow(m, p) \in Delivery
  <2> SUFFICES ASSUME NEW m \in MsgIds, NEW p \in Participants
               PROVE  newRow(m, p) \in Delivery
    OBVIOUS
  <2>1. ds[m][p] \in Delivery
    OBVIOUS
  <2>2. 0 \in 0..MaxActivations /\ 0 \in 0..MaxGeneration
    BY BoundsAssumption
  <2>3. \A st \in {"pending", "cancelled"} :
            [ds[m][p] EXCEPT !.state = st, !.activation = 0,
                             !.session = NoSession, !.generation = 0] \in Delivery
    BY <2>1, <2>2 DEF Delivery, DeliveryStates
  <2> QED BY <2>1, <2>3
<1>2. deliveries' = [m \in MsgIds |-> [p \in Participants |-> newRow(m, p)]]
  BY DEF Refund
<1> HIDE DEF newRow
<1>3. deliveries' \in [MsgIds -> [Participants -> Delivery]]
  BY <1>1, <1>2
<1>4. activations' \in Seq(Activation) /\ Len(activations') = Len(activations)
  BY LedgerTyped DEF Refund, ActivationStates
<1> QED BY <1>3, <1>4 DEF TypeOK, Refund, memberVars

\* A reservation keeps the type invariant.
LEMMA ReserveTyped ==
    ASSUME TypeOK, NEW w \in actors, AutoReserve(w)
    PROVE  TypeOK'
<1> DEFINE a == Len(activations) + 1
           newRow(m, r) == IF m \in Batch(w.participant) /\ r = w.participant
                           THEN [deliveries[m][r] EXCEPT
                                   !.state = "claimed", !.activation = a,
                                   !.session = w.session, !.generation = w.generation]
                           ELSE deliveries[m][r]
<1>1. /\ w.participant \in Participants /\ w.session \in Sessions
      /\ w.generation \in 1..MaxGeneration
  BY DEF TypeOK, WorkerActor
<1>2. a \in 0..MaxActivations /\ a <= MaxActivations
  <2>1. Len(activations) \in Nat
    BY DEF TypeOK
  <2>2. Len(activations) < MaxActivations
    BY DEF AutoReserve, Reservable
  <2> QED BY <2>1, <2>2, BoundsAssumption
<1>3. [participant |-> w.participant, session |-> w.session,
       generation |-> w.generation, state |-> "reserved"] \in Activation
  BY <1>1 DEF Activation, ActivationStates
<1>4. \A m \in MsgIds, r \in Participants : newRow(m, r) \in Delivery
  <2> SUFFICES ASSUME NEW m \in MsgIds, NEW r \in Participants
               PROVE  newRow(m, r) \in Delivery
    OBVIOUS
  <2>1. deliveries[m][r] \in Delivery
    BY RowTyped
  <2>2. w.session \in Sessions /\ w.generation \in 0..MaxGeneration
    BY <1>1
  <2> HIDE DEF a
  <2>3. [deliveries[m][r] EXCEPT !.state = "claimed", !.activation = a,
            !.session = w.session, !.generation = w.generation] \in Delivery
    BY <1>2, <2>1, <2>2 DEF Delivery, DeliveryStates
  <2> QED BY <2>1, <2>3
<1>5. deliveries' = [m \in MsgIds |-> [r \in Participants |-> newRow(m, r)]]
  BY Zenon DEF AutoReserve
<1>6. activations' \in Seq(Activation) /\ Len(activations') = a
  <2>1. activations' = Append(activations,
            [participant |-> w.participant, session |-> w.session,
             generation |-> w.generation, state |-> "reserved"])
    BY DEF AutoReserve
  <2> QED BY <1>3, <2>1 DEF TypeOK
<1>7. aged \in 0..a
  BY DEF TypeOK
<1> HIDE DEF newRow, a
<1>8. deliveries' \in [MsgIds -> [Participants -> Delivery]]
  BY <1>4, <1>5
<1> QED BY <1>2, <1>6, <1>7, <1>8 DEF TypeOK, AutoReserve, memberVars

\* A dispatch keeps the type invariant.
LEMMA DispatchTyped ==
    ASSUME TypeOK, NEW w \in actors, NEW a \in DOMAIN activations, AutoDispatch(w, a)
    PROVE  TypeOK'
<1> DEFINE newRow(m, p) == IF deliveries[m][p].activation = a
                           THEN [deliveries[m][p] EXCEPT !.state = "queued"]
                           ELSE deliveries[m][p]
<1>1. CASE PausedFor(w.participant) \/ Obsolete(a)
  <2>1. deliveries \in [MsgIds -> [Participants -> Delivery]]
    BY DEF TypeOK
  <2> QED BY <1>1, <2>1, RefundTyped DEF AutoDispatch
<1>2. CASE ~(PausedFor(w.participant) \/ Obsolete(a))
  <2>1. \A m \in MsgIds, p \in Participants : newRow(m, p) \in Delivery
    BY RowTyped, StateTyped DEF DeliveryStates
  <2>2. deliveries' = [m \in MsgIds |-> [p \in Participants |-> newRow(m, p)]]
    BY <1>2 DEF AutoDispatch
  <2> HIDE DEF newRow
  <2>3. deliveries' \in [MsgIds -> [Participants -> Delivery]]
    BY <2>1, <2>2
  <2>4. activations' \in Seq(Activation) /\ Len(activations') = Len(activations)
    <3>1. "dispatched" \in ActivationStates
      BY DEF ActivationStates
    <3>2. activations' = [activations EXCEPT ![a].state = "dispatched"]
      BY <1>2 DEF AutoDispatch
    <3> QED BY <3>1, <3>2, LedgerTyped
  <2> QED BY <1>2, <2>3, <2>4 DEF TypeOK, AutoDispatch, memberVars
<1> QED BY <1>1, <1>2

\* A finish keeps the type invariant.
LEMMA FinishTyped ==
    ASSUME TypeOK, NEW w \in actors, NEW a \in DOMAIN activations,
           NEW complete \in BOOLEAN, NEW E, AutoFinish(w, a, complete, E)
    PROVE  TypeOK'
<1> DEFINE row(m, p) == RecordedBy(a, E)[m][p]
           newRow(m, p) == IF row(m, p).activation = a /\ InFlight(row(m, p))
                           THEN [row(m, p) EXCEPT !.state = "uncertain"]
                           ELSE row(m, p)
           missing == \E m \in MsgIds, p \in Participants :
                        newRow(m, p).activation = a /\ newRow(m, p).state # "recorded"
<1>1. \A m \in MsgIds, p \in Participants : newRow(m, p) \in Delivery
  <2>1. \A m \in MsgIds, p \in Participants : row(m, p) \in Delivery
    BY RecordedByTyped
  <2>2. "uncertain" \in DeliveryStates
    BY DEF DeliveryStates
  <2> HIDE DEF row
  <2> QED BY <2>1, <2>2, StateTyped
<1>2. deliveries' = [m \in MsgIds |-> [p \in Participants |-> newRow(m, p)]]
  BY DEF AutoFinish
<1>3. \E s \in {"uncertain", "settled"} :
        activations' = [activations EXCEPT ![a].state = s]
  BY DEF AutoFinish
<1> HIDE DEF newRow
<1>4. deliveries' \in [MsgIds -> [Participants -> Delivery]]
  BY <1>1, <1>2
<1>5. activations' \in Seq(Activation) /\ Len(activations') = Len(activations)
  <2>1. PICK s \in {"uncertain", "settled"} :
                activations' = [activations EXCEPT ![a].state = s]
    BY <1>3
  <2>2. s \in ActivationStates
    BY DEF ActivationStates
  <2> QED BY <2>1, <2>2, LedgerTyped
<1>6. participants' \in [Participants -> ParticipantRow]
  <2> DEFINE paused == participants[w.participant].paused \/ ~complete
  <2>1. participants \in [Participants -> ParticipantRow]
    BY DEF TypeOK
  <2>2. participants' = [participants EXCEPT ![w.participant].paused = paused]
    BY DEF AutoFinish
  <2>3. paused \in BOOLEAN
    OBVIOUS
  <2> HIDE DEF paused
  <2> QED BY <2>1, <2>2, <2>3 DEF ParticipantRow
<1> QED BY <1>4, <1>5, <1>6 DEF TypeOK, AutoFinish

\* Steps of the ledger keep the type invariant.
LEMMA AutomationTyped == TypeOK /\ Automation => TypeOK'
<1> SUFFICES ASSUME TypeOK, Automation PROVE TypeOK'
  OBVIOUS
<1>1. deliveries \in [MsgIds -> [Participants -> Delivery]]
  BY DEF TypeOK
<1>2. ASSUME NEW w \in actors, NEW a \in DOMAIN activations, AutoCancel(w, a)
      PROVE  TypeOK'
  BY <1>1, <1>2, RefundTyped DEF AutoCancel
<1>3. ASSUME NEW w \in actors, NEW a \in DOMAIN activations, NEW E,
             AutoReconcile(w, a, E)
      PROVE  TypeOK'
  BY <1>3, RecordedByTyped, RefundTyped DEF AutoReconcile
<1>4. ASSUME WindowSlides PROVE TypeOK'
  BY <1>4 DEF TypeOK, WindowSlides, memberVars, mailVars
<1> QED BY <1>2, <1>3, <1>4, ReserveTyped, DispatchTyped, FinishTyped DEF Automation

(***************************************************************************)
(* Ownership.  The three invariants are proved together: an automatic      *)
(* claim is owned because its activation is live and owned, and a live     *)
(* activation is severed in the same step as the claims it holds.          *)
(***************************************************************************)

\* A row of a message that was never sent is empty.
EmptyRows ==
    \A m \in MsgIds, p \in Participants :
        m \notin DOMAIN messages =>
            deliveries[m][p].state = "absent" /\ deliveries[m][p].activation = 0

IInv == /\ TypeOK /\ Members /\ EmptyRows
        /\ InFlightOwned /\ LiveActivationOwned /\ ClaimsHaveLiveActivation

\* What InFlightOwned and ClaimsHaveLiveActivation ask of member p's row d.
RowFine(d, p) ==
    /\ InFlight(d) =>
        /\ participants[p].link # "none" /\ participants[p].joined
        /\ d.generation = participants[p].generation
        /\ d.session = participants[p].session
        /\ d.activation # 0 =>
            /\ d.activation \in DOMAIN activations
            /\ IsLive(d.activation)
            /\ activations[d.activation].participant = p
    /\ d.state = "pending" => d.activation = 0

\* What the invariant says of one row that names a run.
LEMMA RowsAreFine ==
    ASSUME IInv, NEW m \in MsgIds, NEW p \in Participants
    PROVE  RowFine(deliveries[m][p], p)
  BY DEF IInv, InFlightOwned, ClaimsHaveLiveActivation, RowFine

\* A row that leaves flight without a stale activation id, or that moves
\* within flight under the same owner, stays fine.
LEMMA MovedRowIsFine ==
    ASSUME NEW p \in Participants, NEW d, NEW e, RowFine(d, p),
           \/ e.state \notin {"pending", "claimed", "queued"}
           \/ e.state = "pending" /\ e.activation = 0
           \/ /\ InFlight(d)
              /\ e.state # "pending"
              /\ e.activation = d.activation
              /\ e.session = d.session
              /\ e.generation = d.generation
    PROVE  RowFine(e, p)
  BY DEF RowFine, InFlight

\* So does a row that is closed: it keeps its state or is cancelled.
LEMMA ClosedRowIsFine ==
    ASSUME NEW p \in Participants, NEW d, NEW e, RowFine(d, p),
           e.state = d.state \/ e.state = "cancelled",
           e.activation = d.activation, e.session = d.session,
           e.generation = d.generation
    PROVE  RowFine(e, p)
  BY DEF RowFine, InFlight

\* A step that leaves members and activations alone keeps ownership if it
\* leaves every row fine.
LEMMA FineRowsKeepOwnership ==
    ASSUME IInv, UNCHANGED <<participants, activations>>,
           \A m \in MsgIds, p \in Participants : RowFine(deliveries'[m][p], p)
    PROVE  /\ Members' /\ InFlightOwned'
           /\ LiveActivationOwned' /\ ClaimsHaveLiveActivation'
<1>1. Members' /\ LiveActivationOwned'
  BY DEF IInv, Members, LiveActivationOwned, IsLive
<1>2. InFlightOwned' /\ ClaimsHaveLiveActivation'
  BY DEF InFlightOwned, ClaimsHaveLiveActivation, RowFine, InFlight, IsLive
<1> QED BY <1>1, <1>2

\* Ending the connections of P ends all that P's members had in flight.
LEMMA SeverKeepsOwnership ==
    ASSUME IInv, NEW P, Sever(P),
           \A p \in Participants : p \notin P => participants'[p] = participants[p]
    PROVE  /\ EmptyRows' /\ InFlightOwned'
           /\ LiveActivationOwned' /\ ClaimsHaveLiveActivation'
<1>1. DOMAIN activations' = DOMAIN activations
  BY SeverTyped DEF IInv
<1>2. \A a \in DOMAIN activations :
        /\ activations'[a].participant = activations[a].participant
        /\ activations'[a].generation = activations[a].generation
        /\ activations'[a].session = activations[a].session
        /\ activations'[a].state \in LiveStates <=>
             IsLive(a) /\ activations[a].participant \notin P
  <2> SUFFICES ASSUME NEW a \in DOMAIN activations
               PROVE  /\ activations'[a].participant = activations[a].participant
                      /\ activations'[a].generation = activations[a].generation
                      /\ activations'[a].session = activations[a].session
                      /\ activations'[a].state \in LiveStates <=>
                            IsLive(a) /\ activations[a].participant \notin P
    OBVIOUS
  <2>1. activations[a] \in Activation
    BY DEF IInv, TypeOK
  <2>2. activations'[a] = IF activations[a].participant \in P /\ IsLive(a)
                          THEN [activations[a] EXCEPT !.state = "uncertain"]
                          ELSE activations[a]
    BY DEF Sever, InterruptedActivations
  <2> QED BY <2>1, <2>2 DEF Activation, IsLive
<1>3. \A m \in MsgIds, p \in Participants :
        deliveries'[m][p] = IF p \in P /\ InFlight(deliveries[m][p])
                            THEN [deliveries[m][p] EXCEPT !.state = "uncertain"]
                            ELSE deliveries[m][p]
  BY DEF Sever, DeliveriesLeftUncertain
<1>4. \A m \in MsgIds, p \in Participants :
        /\ deliveries'[m][p].activation = deliveries[m][p].activation
        /\ deliveries'[m][p].session = deliveries[m][p].session
        /\ deliveries'[m][p].generation = deliveries[m][p].generation
        /\ InFlight(deliveries'[m][p]) <=> InFlight(deliveries[m][p]) /\ p \notin P
        /\ deliveries'[m][p].state = "pending" <=> deliveries[m][p].state = "pending"
        /\ deliveries[m][p].state = "absent" => deliveries'[m][p].state = "absent"
  <2> SUFFICES ASSUME NEW m \in MsgIds, NEW p \in Participants
               PROVE  LET d == deliveries[m][p]
                          e == deliveries'[m][p] IN
                      /\ e.activation = d.activation
                      /\ e.session = d.session
                      /\ e.generation = d.generation
                      /\ InFlight(e) <=> InFlight(d) /\ p \notin P
                      /\ e.state = "pending" <=> d.state = "pending"
                      /\ d.state = "absent" => e.state = "absent"
    BY DEF InFlight
  <2>1. deliveries[m][p] \in Delivery
    BY RowTyped DEF IInv
  <2>2. [deliveries[m][p] EXCEPT !.state = "uncertain"] \in Delivery
    BY <2>1, StateTyped DEF DeliveryStates
  <2> QED BY <1>3, <2>1, <2>2 DEF Delivery, InFlight
<1>5. InFlightOwned'
  BY <1>4 DEF IInv, InFlightOwned, InFlight
<1>6. LiveActivationOwned'
  <2>1. \A a \in DOMAIN activations : activations[a].participant \in Participants
    <3>1. \A a \in DOMAIN activations : activations[a] \in Activation
      BY DEF IInv, TypeOK
    <3> QED BY <3>1 DEF Activation
  <2>2. ASSUME NEW a \in DOMAIN activations, IsLive(a),
               activations[a].participant \notin P
        PROVE  LET act == activations'[a]
                   row == participants'[act.participant] IN
               /\ row.link # "none" /\ row.joined
               /\ act.generation = row.generation /\ act.session = row.session
    <3> DEFINE p == activations[a].participant
    <3>1. p \in Participants /\ participants'[p] = participants[p]
      BY <2>1, <2>2
    <3>2. /\ participants[p].link # "none" /\ participants[p].joined
          /\ activations[a].generation = participants[p].generation
          /\ activations[a].session = participants[p].session
      BY <2>2 DEF IInv, LiveActivationOwned
    <3> QED BY <1>2, <3>1, <3>2
  <2>3. ASSUME NEW a \in DOMAIN activations, NEW b \in DOMAIN activations,
               IsLive(a), IsLive(b),
               activations[a].participant = activations[b].participant
        PROVE  a = b
    BY <2>3 DEF IInv, LiveActivationOwned
  <2>4. \A a \in DOMAIN activations : activations'[a].state \in LiveStates =>
            LET act == activations'[a]
                row == participants'[act.participant] IN
            /\ row.link # "none" /\ row.joined
            /\ act.generation = row.generation /\ act.session = row.session
    BY <1>2, <2>2
  <2>5. \A a, b \in DOMAIN activations :
            /\ activations'[a].state \in LiveStates
            /\ activations'[b].state \in LiveStates
            /\ activations'[b].participant = activations'[a].participant
            => b = a
    BY <1>2, <2>3
  <2> QED BY <1>1, <2>4, <2>5 DEF LiveActivationOwned, IsLive
<1>7. ClaimsHaveLiveActivation'
  BY <1>1, <1>2, <1>4 DEF IInv, ClaimsHaveLiveActivation, InFlight, IsLive
<1>8. EmptyRows'
  BY <1>4 DEF IInv, EmptyRows, Sever
<1> QED BY <1>5, <1>6, <1>7, <1>8

\* Rows of members whose link, binding and generation stay put.
LEMMA SameOwnersKeepOwnership ==
    ASSUME IInv, UNCHANGED <<threads, messages, deliveries, activations, aged>>,
           \A p \in Participants :
               participants[p].link # "none" =>
                    /\ participants'[p].link # "none"
                    /\ participants'[p].joined = participants[p].joined
                    /\ participants'[p].generation = participants[p].generation
                    /\ participants'[p].session = participants[p].session
    PROVE  /\ EmptyRows' /\ InFlightOwned'
           /\ LiveActivationOwned' /\ ClaimsHaveLiveActivation'
<1>1. EmptyRows' /\ ClaimsHaveLiveActivation'
  BY DEF IInv, EmptyRows, ClaimsHaveLiveActivation, IsLive
<1>2. InFlightOwned'
  BY DEF IInv, InFlightOwned
<1>3. LiveActivationOwned'
  <2>1. \A a \in DOMAIN activations : activations[a].participant \in Participants
    <3>1. \A a \in DOMAIN activations : activations[a] \in Activation
      BY DEF IInv, TypeOK
    <3> QED BY <3>1 DEF Activation
  <2> QED BY <2>1 DEF IInv, LiveActivationOwned, IsLive
<1> QED BY <1>1, <1>2, <1>3

\* Losing the link leaves a member's binding alone.
LEMMA UnlinkedRow ==
    ASSUME TypeOK, NEW P, NEW p \in Participants
    PROVE  /\ Unlinked(P)[p].joined = participants[p].joined
           /\ Unlinked(P)[p].session = participants[p].session
           /\ p \in P => Unlinked(P)[p].link = "none"
           /\ p \notin P => Unlinked(P)[p] = participants[p]
<1>1. participants[p] \in ParticipantRow
  BY DEF TypeOK
<1>2. Unlinked(P)[p] = IF p \in P
                       THEN [participants[p] EXCEPT !.link = "none",
                                 !.paused = @ \/ HasLiveActivation(p)]
                       ELSE participants[p]
  BY DEF Unlinked
<1> QED BY <1>1, <1>2 DEF ParticipantRow

\* What rebinding or reconnecting a member's row leaves in its place.
Rebound(F, p, s) == [F EXCEPT ![p].joined = TRUE, ![p].session = s]
Relinked(F, p, g) == [F EXCEPT ![p].generation = g, ![p].link = "live"]

\* The row of a member that rejoins.
LEMMA ReboundRow ==
    ASSUME NEW F \in [Participants -> ParticipantRow], NEW p \in Participants,
           NEW s, NEW r \in Participants
    PROVE  /\ r # p => Rebound(F, p, s)[r] = F[r]
           /\ r = p => /\ Rebound(F, p, s)[r].joined
                       /\ Rebound(F, p, s)[r].session = s
                       /\ Rebound(F, p, s)[r].link = F[r].link
<1>1. F[p] \in ParticipantRow
  OBVIOUS
<1>2. Rebound(F, p, s)[r] =
        IF r = p THEN [F[p] EXCEPT !.joined = TRUE, !.session = s] ELSE F[r]
  BY DEF Rebound
<1> QED BY <1>1, <1>2 DEF ParticipantRow

\* The row of a member that connects.
LEMMA LinkedRow ==
    ASSUME NEW F \in [Participants -> ParticipantRow], NEW p \in Participants,
           NEW g, NEW r \in Participants
    PROVE  /\ r # p => Relinked(F, p, g)[r] = F[r]
           /\ r = p => /\ Relinked(F, p, g)[r].joined = F[r].joined
                       /\ Relinked(F, p, g)[r].session = F[r].session
<1>1. F[p] \in ParticipantRow
  OBVIOUS
<1>2. Relinked(F, p, g)[r] =
        IF r = p THEN [F[p] EXCEPT !.generation = g, !.link = "live"] ELSE F[r]
  BY DEF Relinked
<1> QED BY <1>1, <1>2 DEF ParticipantRow

\* Membership and connection steps keep the invariant.
LEMMA MembershipKeepsIInv == IInv /\ Membership => IInv'
<1> SUFFICES ASSUME IInv, Membership PROVE IInv'
  OBVIOUS
<1>1. TypeOK'
  BY MembershipTyped DEF IInv
<1> DEFINE Rest == EmptyRows /\ InFlightOwned
                   /\ LiveActivationOwned /\ ClaimsHaveLiveActivation
<1>2. participants \in [Participants -> ParticipantRow]
  BY DEF IInv, TypeOK
<1>3. \A P : /\ Unlinked(P) \in [Participants -> ParticipantRow]
             /\ \A p \in Participants :
                  /\ Unlinked(P)[p].joined = participants[p].joined
                  /\ Unlinked(P)[p].session = participants[p].session
                  /\ p \in P => Unlinked(P)[p].link = "none"
                  /\ p \notin P => Unlinked(P)[p] = participants[p]
  BY UnlinkedTyped, UnlinkedRow DEF IInv
<1>4. ASSUME NEW p \in Participants, NEW s \in Sessions, Join(p, s)
      PROVE  Members' /\ Rest'
  <2>1. participants[p].link = "none"
    BY <1>4, NoSessionAssumption DEF IInv, Members, Join, Exists
  <2>2. \A r \in Participants :
            /\ participants'[r].link = participants[r].link
            /\ r # p => participants'[r] = participants[r]
            /\ r = p => participants'[r].joined /\ participants'[r].session = s
    BY <1>2, <1>4 DEF Join, ParticipantRow
  <2>3. Members'
    BY <2>2 DEF IInv, Members
  <2> QED BY <1>4, <2>1, <2>2, <2>3, SameOwnersKeepOwnership
          DEF Join, mailVars, wakeVars
<1>5. ASSUME NEW p \in Participants, NEW s \in Sessions, Rejoin(p, s)
      PROVE  Members' /\ Rest'
  <2>1. \A r \in Participants :
            /\ r # p => participants'[r] = participants[r]
            /\ r = p => /\ participants'[r].joined /\ participants'[r].session = s
                        /\ participants'[r].link = "none"
    <3>1. participants' = Rebound(Unlinked({p}), p, s)
      BY <1>5 DEF Rejoin, Rebound
    <3>2. Unlinked({p}) \in [Participants -> ParticipantRow]
      BY UnlinkedTyped DEF IInv
    <3>3. \A r \in Participants :
            /\ r # p => participants'[r] = Unlinked({p})[r]
            /\ r = p => /\ participants'[r].joined /\ participants'[r].session = s
                        /\ participants'[r].link = Unlinked({p})[r].link
      BY <3>1, <3>2, ReboundRow
    <3>4. \A r \in Participants :
            /\ r # p => Unlinked({p})[r] = participants[r]
            /\ Unlinked({p})[r].joined = participants[r].joined
            /\ Unlinked({p})[r].session = participants[r].session
            /\ r = p => Unlinked({p})[r].link = "none"
      BY UnlinkedRow DEF IInv
    <3> QED BY <3>3, <3>4
  <2>2. Members'
    BY <2>1 DEF IInv, Members
  <2> QED BY <1>5, <2>1, <2>2, SeverKeepsOwnership DEF Rejoin
<1>6. ASSUME NEW p \in Participants, Connect(p)
      PROVE  Members' /\ Rest'
  <2>1. \A r \in Participants :
            /\ r # p => participants'[r] = participants[r]
            /\ participants'[r].joined = participants[r].joined
            /\ participants'[r].session = participants[r].session
    <3>1. participants' = Relinked(Unlinked({p}), p, participants[p].generation + 1)
      BY <1>6 DEF Connect, Relinked
    <3>2. Unlinked({p}) \in [Participants -> ParticipantRow]
      BY UnlinkedTyped DEF IInv
    <3>3. \A r \in Participants :
            /\ r # p => participants'[r] = Unlinked({p})[r]
            /\ r = p => /\ participants'[r].joined = Unlinked({p})[r].joined
                        /\ participants'[r].session = Unlinked({p})[r].session
      BY <3>1, <3>2, LinkedRow
    <3>4. \A r \in Participants :
            /\ r # p => Unlinked({p})[r] = participants[r]
            /\ Unlinked({p})[r].joined = participants[r].joined
            /\ Unlinked({p})[r].session = participants[r].session
            /\ r = p => Unlinked({p})[r].link = "none"
      BY UnlinkedRow DEF IInv
    <3> QED BY <3>3, <3>4
  <2>2. Members'
    BY <1>6, <2>1 DEF IInv, Members, Connect
  <2> QED BY <1>6, <2>1, <2>2, SeverKeepsOwnership DEF Connect
<1>7. ASSUME NEW p \in Participants, LeaseLapse(p)
      PROVE  Members' /\ Rest'
  <2>1. \A r \in Participants :
            /\ participants'[r].link # "none" <=> participants[r].link # "none"
            /\ participants'[r].joined = participants[r].joined
            /\ participants'[r].session = participants[r].session
            /\ participants'[r].generation = participants[r].generation
    BY <1>2, <1>7 DEF LeaseLapse, ParticipantRow
  <2>2. Members'
    BY <2>1 DEF IInv, Members
  <2> QED BY <1>7, <2>1, <2>2, SameOwnersKeepOwnership
          DEF LeaseLapse, mailVars, wakeVars
<1>8. ASSUME NEW p \in Participants, Leave(p)
      PROVE  Members' /\ Rest'
  <2>1. \A r \in Participants :
            /\ r # p => participants'[r] = participants[r]
            /\ r = p => participants'[r].link = "none" /\ ~participants'[r].joined
    BY <1>3, <1>8 DEF Leave, ParticipantRow
  <2>2. Members'
    BY <2>1 DEF IInv, Members
  <2> QED BY <1>8, <2>1, <2>2, SeverKeepsOwnership DEF Leave
<1>9. ASSUME NEW p \in Participants, NEW b \in BOOLEAN, Pause(p, b)
      PROVE  Members' /\ Rest'
  <2>1. \A r \in Participants :
            /\ participants'[r].link = participants[r].link
            /\ participants'[r].joined = participants[r].joined
            /\ participants'[r].session = participants[r].session
            /\ participants'[r].generation = participants[r].generation
    BY <1>2, <1>9 DEF Pause, ParticipantRow
  <2>2. Members'
    BY <2>1 DEF IInv, Members
  <2> QED BY <1>9, <2>1, <2>2, SameOwnersKeepOwnership
          DEF Pause, mailVars, wakeVars
<1>10. ASSUME NEW P, participants' = Unlinked(P), Sever(P)
       PROVE  Members' /\ Rest'
  <2>1. Members'
    BY <1>3, <1>10 DEF IInv, Members
  <2> QED BY <1>3, <1>10, <2>1, SeverKeepsOwnership
<1>11. ASSUME UNCHANGED <<participants, roomPaused, mailVars, wakeVars>>
       PROVE  Members' /\ Rest'
  BY <1>11, SameOwnersKeepOwnership DEF IInv, Members, mailVars, wakeVars
<1>12. ASSUME NEW w \in actors, Disconnect(w) PROVE Members' /\ Rest'
  BY <1>10, <1>11, <1>12 DEF Disconnect
<1>13. ASSUME NEW b \in BOOLEAN, PauseRoom(b) PROVE Members' /\ Rest'
  BY <1>13, SameOwnersKeepOwnership DEF IInv, Members, PauseRoom, mailVars, wakeVars
<1>14. ASSUME Expire PROVE Members' /\ Rest'
  BY <1>10, <1>14 DEF Expire
<1>15. ASSUME BrokerRestart PROVE Members' /\ Rest'
  BY <1>10, <1>15 DEF BrokerRestart
<1> QED BY <1>1, <1>4, <1>5, <1>6, <1>7, <1>8, <1>9, <1>12, <1>13, <1>14, <1>15
        DEF Membership, IInv

(***************************************************************************)
(* Ownership under mail                                                    *)
(***************************************************************************)
\* One delivery of a mail becomes another sound row.
LEMMA SetDeliveryKeepsIInv ==
    ASSUME IInv, NEW m \in DOMAIN messages, NEW p \in Participants,
           NEW d \in Delivery, RowFine(d, p), SetDelivery(m, p, d)
    PROVE  IInv'
<1>1. m \in MsgIds /\ deliveries \in [MsgIds -> [Participants -> Delivery]]
  BY MessageIds DEF IInv, TypeOK
<1>2. TypeOK'
  BY <1>1, SetDeliveryTyped DEF IInv
<1>3. \A n \in MsgIds, r \in Participants :
        deliveries'[n][r] = IF n = m /\ r = p THEN d ELSE deliveries[n][r]
  BY <1>1 DEF SetDelivery
<1>4. \A n \in MsgIds, r \in Participants : RowFine(deliveries'[n][r], r)
  BY <1>3, RowsAreFine
<1>5. UNCHANGED <<participants, activations, messages>>
  BY DEF SetDelivery, memberVars, wakeVars
<1>6. EmptyRows'
  BY <1>3, <1>5 DEF IInv, EmptyRows
<1> QED BY <1>2, <1>4, <1>5, <1>6, FineRowsKeepOwnership DEF IInv

\* A stored message keeps the invariant.
LEMMA StoreKeepsIInv ==
    ASSUME IInv, NEW msg \in Message, msg.replyTo \in 0..Len(messages),
           NEW R, NEW answered, Store(msg, R, answered)
    PROVE  IInv'
<1>1. TypeOK'
  BY StoreTyped DEF IInv
<1>2. \A n \in MsgIds, p \in Participants :
        deliveries'[n][p] =
            IF n = Len(messages) + 1 /\ p \in R THEN NewDelivery(msg, p)
            ELSE IF n = msg.replyTo /\ p \in answered THEN Answered(deliveries[n][p])
            ELSE deliveries[n][p]
  BY DEF Store
<1>3. UNCHANGED <<participants, activations>>
  BY DEF Store, memberVars, wakeVars
<1>4. \A n \in MsgIds, p \in Participants : RowFine(deliveries'[n][p], p)
  <2> SUFFICES ASSUME NEW n \in MsgIds, NEW p \in Participants
               PROVE  RowFine(deliveries'[n][p], p)
    OBVIOUS
  <2>1. deliveries[n][p] \in Delivery /\ RowFine(deliveries[n][p], p)
    BY RowTyped, RowsAreFine DEF IInv
  <2>2. RowFine(NewDelivery(msg, p), p)
    <3>1. /\ NewDelivery(msg, p).state = "pending"
          /\ NewDelivery(msg, p).activation = 0
      BY DEF NewDelivery, Absent
    <3> QED BY <3>1 DEF RowFine, InFlight
  <2>3. RowFine(Answered(deliveries[n][p]), p)
    <3> DEFINE d == deliveries[n][p]
    <3>1. /\ Answered(d).activation = d.activation
          /\ Answered(d).session = d.session
          /\ Answered(d).generation = d.generation
          /\ \/ Answered(d).state = d.state
             \/ Answered(d).state = "cancelled"
      BY <2>1 DEF Answered, Delivery
    <3>2. RowFine(d, p)
      BY <2>1
    <3> DEFINE e == Answered(d)
    <3>3. e.state = d.state \/ e.state = "cancelled"
      BY <3>1
    <3>4. /\ e.activation = d.activation
          /\ e.session = d.session /\ e.generation = d.generation
      BY <3>1
    <3> HIDE DEF d, e
    <3>5. RowFine(e, p)
      BY <3>2, <3>3, <3>4, ClosedRowIsFine
    <3> QED BY <3>5 DEF d, e
  <2> QED BY <1>2, <2>1, <2>2, <2>3
<1>5. EmptyRows'
  <2>1. Len(messages) \in Nat /\ DOMAIN messages = 1..Len(messages)
    BY DEF IInv, TypeOK
  <2>2. DOMAIN messages' = 1..Len(messages) + 1
    BY <2>1 DEF IInv, TypeOK, Store
  <2>3. ASSUME NEW n \in MsgIds, n \notin DOMAIN messages'
        PROVE  /\ n \notin DOMAIN messages
               /\ n # Len(messages) + 1 /\ n # msg.replyTo
    BY <2>1, <2>2, <2>3, BoundsAssumption DEF MsgIds
  <2> QED BY <1>2, <2>3 DEF IInv, EmptyRows
<1> QED BY <1>1, <1>3, <1>4, <1>5, FineRowsKeepOwnership DEF IInv

\* Mailbox steps keep the invariant.
LEMMA MailKeepsIInv == IInv /\ Mail => IInv'
<1> SUFFICES ASSUME IInv, Mail PROVE IInv'
  OBVIOUS
<1> USE MessageIds
<1>1. TypeOK' /\ TypeOK
  BY MailTyped DEF IInv
<1>2. ASSUME NEW w \in actors, NEW R \in SUBSET Participants, NEW type \in MessageTypes,
             NEW t \in Threads, NEW q \in 0..Len(messages), NEW k \in Keys,
             Send(w, R, type, t, q, k)
      PROVE  IInv'
  <2> DEFINE msg == [sender |-> w.participant, thread |-> t, type |-> type,
                     human |-> FALSE, replyTo |-> q, key |-> k]
  <2>1. msg \in Message /\ msg.replyTo = q
    BY <1>1, BoundsAssumption DEF TypeOK, Message, WorkerActor
  <2>2. \E answered : Store(msg, R, answered)
    BY <1>2 DEF Send
  <2> HIDE DEF msg
  <2> QED BY <2>1, <2>2, StoreKeepsIInv
<1>3. ASSUME NEW m \in DOMAIN messages, NEW p \in Participants, NEW k \in Keys,
             Answer(m, p, k)
      PROVE  IInv'
  <2> DEFINE msg == [sender |-> messages[m].sender, thread |-> messages[m].thread,
                     type |-> "reply", human |-> TRUE, replyTo |-> m, key |-> k]
  <2>1. messages[m] \in Message /\ m \in 0..MaxMessages /\ m \in 0..Len(messages)
    BY <1>1 DEF TypeOK, MsgIds
  <2>2. msg \in Message /\ msg.replyTo = m
    BY <2>1 DEF Message, MessageTypes
  <2>3. Store(msg, {messages[m].sender, p}, {p})
    BY <1>3 DEF Answer
  <2> HIDE DEF msg
  <2> QED BY <2>1, <2>2, <2>3, StoreKeepsIInv
<1>4. ASSUME NEW m \in DOMAIN messages, NEW p \in Participants, Retry(m, p)
      PROVE  IInv'
  <2> DEFINE e == [deliveries[m][p] EXCEPT !.state = "pending", !.activation = 0]
  <2>1. deliveries[m][p] \in Delivery /\ 0 \in 0..MaxActivations
    BY <1>1, RowTyped, BoundsAssumption
  <2>2. e \in Delivery /\ e.state = "pending" /\ e.activation = 0
    BY <2>1 DEF Delivery, DeliveryStates
  <2>3. SetDelivery(m, p, e)
    BY <1>4 DEF Retry
  <2> HIDE DEF e
  <2>4. RowFine(e, p)
    BY <2>2 DEF RowFine, InFlight
  <2> QED BY <2>2, <2>3, <2>4, SetDeliveryKeepsIInv
<1>5. ASSUME NEW m \in DOMAIN messages, NEW p \in Participants, NEW o \in Obligations
      PROVE  Withdraw(m, p, o) \in Delivery /\ RowFine(Withdraw(m, p, o), p)
  <2>1. deliveries[m][p] \in Delivery
    BY <1>1, RowTyped
  <2>2. /\ Withdraw(m, p, o) \in Delivery
        /\ Withdraw(m, p, o).state \in {"recorded", "cancelled"}
    BY <2>1 DEF Withdraw, Delivery, DeliveryStates
  <2> QED BY <2>2 DEF RowFine, InFlight
<1>6. ASSUME NEW m \in DOMAIN messages, NEW p \in Participants, Cancel(m, p)
      PROVE  IInv'
  <2>1. "none" \in Obligations /\ "cancelled" \in Obligations
    BY DEF Obligations
  <2>2. \E o \in Obligations : SetDelivery(m, p, Withdraw(m, p, o))
    BY <1>6, <2>1 DEF Cancel
  <2> QED BY <1>5, <2>2, SetDeliveryKeepsIInv
<1>7. ASSUME NEW m \in DOMAIN messages, NEW p \in Participants,
             NEW next \in Participants, Redirect(m, p, next)
      PROVE  IInv'
  <2> DEFINE old == Withdraw(m, p, "redirected")
             new == [Absent EXCEPT !.state = "pending",
                                   !.obligation = deliveries[m][p].obligation,
                                   !.wake = deliveries[m][p].wake]
  <2>1. RowFine(old, p)
    BY <1>5 DEF Obligations
  <2>2. new.state = "pending" /\ new.activation = 0
    BY DEF Absent
  <2>3. deliveries' = [deliveries EXCEPT ![m] = [@ EXCEPT ![p] = old, ![next] = new]]
    BY <1>7 DEF Redirect
  <2> HIDE DEF old, new
  <2>4. \A n \in MsgIds, r \in Participants :
          deliveries'[n][r] = IF n = m /\ r = next THEN new
                              ELSE IF n = m /\ r = p THEN old
                              ELSE deliveries[n][r]
    BY <1>1, <2>3 DEF TypeOK
  <2>5. \A n \in MsgIds, r \in Participants : RowFine(deliveries'[n][r], r)
    <3>1. RowFine(new, next)
      BY <2>2 DEF RowFine, InFlight
    <3> QED BY <2>1, <2>4, <3>1, RowsAreFine
  <2>6. UNCHANGED <<participants, activations, messages>>
    BY <1>7 DEF Redirect, memberVars, wakeVars
  <2>7. EmptyRows'
    BY <2>4, <2>6 DEF IInv, EmptyRows
  <2> QED BY <1>1, <2>5, <2>6, <2>7, FineRowsKeepOwnership DEF IInv
<1>8. ASSUME NEW t \in Threads, Resolve(t) PROVE IInv'
  <2> DEFINE closed(m, p) == [deliveries[m][p] EXCEPT
                                !.obligation = IF @ = "open" THEN "resolved" ELSE @,
                                !.state = IF @ = "pending" THEN "cancelled" ELSE @]
  <2>1. \A m \in MsgIds, p \in Participants :
          deliveries'[m][p] = IF m \in DOMAIN messages /\ messages[m].thread = t
                              THEN closed(m, p) ELSE deliveries[m][p]
    BY <1>8 DEF Resolve
  <2>2. \A m \in MsgIds, p \in Participants :
          /\ closed(m, p).activation = deliveries[m][p].activation
          /\ closed(m, p).session = deliveries[m][p].session
          /\ closed(m, p).generation = deliveries[m][p].generation
          /\ \/ closed(m, p).state = deliveries[m][p].state
             \/ closed(m, p).state = "cancelled"
    <3> SUFFICES ASSUME NEW m \in MsgIds, NEW p \in Participants
                 PROVE  /\ closed(m, p).activation = deliveries[m][p].activation
                        /\ closed(m, p).session = deliveries[m][p].session
                        /\ closed(m, p).generation = deliveries[m][p].generation
                        /\ \/ closed(m, p).state = deliveries[m][p].state
                           \/ closed(m, p).state = "cancelled"
      OBVIOUS
    <3>1. deliveries[m][p] \in Delivery
      BY <1>1, RowTyped
    <3> QED BY <3>1 DEF Delivery
  <2> HIDE DEF closed
  <2>3. \A m \in MsgIds, p \in Participants : RowFine(deliveries'[m][p], p)
    <3> SUFFICES ASSUME NEW m \in MsgIds, NEW p \in Participants
                 PROVE  RowFine(deliveries'[m][p], p)
      OBVIOUS
    <3>1. RowFine(deliveries[m][p], p)
      BY RowsAreFine
    <3>2. RowFine(closed(m, p), p)
      BY <2>2, <3>1, ClosedRowIsFine
    <3> QED BY <2>1, <3>1, <3>2
  <2>4. UNCHANGED <<participants, activations, messages>>
    BY <1>8 DEF Resolve, memberVars, wakeVars
  <2>5. EmptyRows'
    BY <2>1, <2>4 DEF IInv, EmptyRows
  <2> QED BY <1>1, <2>3, <2>4, <2>5, FineRowsKeepOwnership DEF IInv
<1>9. ASSUME NEW w \in actors, NEW m \in DOMAIN messages
      PROVE  /\ w.participant \in Participants /\ w \in WorkerActor
             /\ deliveries[m][w.participant] \in Delivery
             /\ RowFine(deliveries[m][w.participant], w.participant)
  BY <1>1, RowTyped, RowsAreFine DEF TypeOK, WorkerActor
<1>10. ASSUME NEW w \in actors, NEW m \in DOMAIN messages, Claim(w, m)
       PROVE  IInv'
  <2> DEFINE e == [deliveries[m][w.participant] EXCEPT !.state = "claimed",
                      !.session = w.session, !.generation = w.generation]
  <2>1. w.session \in Sessions /\ w.generation \in 0..MaxGeneration
    BY <1>9 DEF WorkerActor
  <2>2. /\ e \in Delivery /\ e.state = "claimed"
        /\ e.session = w.session /\ e.generation = w.generation
        /\ e.activation = deliveries[m][w.participant].activation
    BY <1>9, <2>1 DEF Delivery, DeliveryStates
  <2>3. SetDelivery(m, w.participant, e)
    BY <1>10 DEF Claim
  <2> HIDE DEF e
  <2>4. RowFine(e, w.participant)
    BY <1>9, <1>10, <2>2 DEF RowFine, InFlight, Claim, Authorized
  <2> QED BY <1>9, <2>2, <2>3, <2>4, SetDeliveryKeepsIInv
<1>11. ASSUME NEW w \in actors, NEW m \in DOMAIN messages,
              NEW s \in {"queued", "recorded", "uncertain"}, MoveTo(w, m, s),
              s = "queued" => InFlight(deliveries[m][w.participant])
       PROVE  IInv'
  <2> DEFINE e == [deliveries[m][w.participant] EXCEPT !.state = s]
  <2>1. /\ e \in Delivery /\ e.state = s
        /\ e.session = deliveries[m][w.participant].session
        /\ e.generation = deliveries[m][w.participant].generation
        /\ e.activation = deliveries[m][w.participant].activation
    BY <1>9 DEF Delivery, DeliveryStates
  <2>2. SetDelivery(m, w.participant, e)
    BY <1>11 DEF MoveTo
  <2> HIDE DEF e
  <2>3. RowFine(e, w.participant)
    BY <1>9, <1>11, <2>1, MovedRowIsFine
  <2> QED BY <1>9, <2>1, <2>2, <2>3, SetDeliveryKeepsIInv
<1>12. ASSUME NEW w \in actors, NEW m \in DOMAIN messages,
              \/ Queue(w, m) \/ Receipt(w, m) \/ Uncertain(w, m) \/ Reconcile(w, m)
       PROVE  IInv'
  BY <1>11, <1>12 DEF Queue, Receipt, Uncertain, Reconcile, CurrentAttempt,
                      Attempted, InFlight
<1> QED BY <1>2, <1>3, <1>4, <1>6, <1>7, <1>8, <1>10, <1>12 DEF Mail

(***************************************************************************)
(* Ownership under automatic activations                                   *)
(***************************************************************************)

\* What a change of activation a to state s may do to a row d: it stays in
\* flight only under the same owner, and never under an ended activation.
RowFollows(d, e, a, s) ==
    /\ InFlight(e) => /\ InFlight(d)
                      /\ e.activation = d.activation
                      /\ e.session = d.session /\ e.generation = d.generation
                      /\ s \notin LiveStates => e.activation # a
    /\ e.state = "pending" => e.activation = 0

\* A step that moves one activation on, and its rows with it.
LEMMA LedgerKeepsOwnership ==
    ASSUME IInv, NEW a \in DOMAIN activations, NEW s \in ActivationStates,
           s \in LiveStates => IsLive(a),
           activations' = [activations EXCEPT ![a].state = s],
           \A p \in Participants :
                /\ participants'[p].link = participants[p].link
                /\ participants'[p].joined = participants[p].joined
                /\ participants'[p].generation = participants[p].generation
                /\ participants'[p].session = participants[p].session,
           \A m \in MsgIds, p \in Participants :
                RowFollows(deliveries[m][p], deliveries'[m][p], a, s)
    PROVE  /\ Members' /\ InFlightOwned'
           /\ LiveActivationOwned' /\ ClaimsHaveLiveActivation'
<1>1. \A b \in DOMAIN activations : activations[b] \in Activation
  BY DEF IInv, TypeOK
<1>2. DOMAIN activations' = DOMAIN activations
  BY DEF IInv, TypeOK
<1>3. \A b \in DOMAIN activations :
        /\ activations'[b].participant = activations[b].participant
        /\ activations'[b].session = activations[b].session
        /\ activations'[b].generation = activations[b].generation
        /\ activations'[b].state = IF b = a THEN s ELSE activations[b].state
  BY <1>1 DEF Activation
<1>4. Members'
  BY DEF IInv, Members
<1>5. InFlightOwned'
  BY DEF IInv, InFlightOwned, RowFollows, InFlight
<1>6. \A b \in DOMAIN activations :
        /\ activations[b].participant \in Participants
        /\ activations'[b].state \in LiveStates => IsLive(b)
  BY <1>1, <1>3 DEF Activation, IsLive
<1>7. LiveActivationOwned'
  <2>1. ASSUME NEW b \in DOMAIN activations, activations'[b].state \in LiveStates
        PROVE  LET act == activations'[b]
                   row == participants'[act.participant] IN
               /\ row.link # "none" /\ row.joined
               /\ act.generation = row.generation /\ act.session = row.session
    <3>1. LET row == participants[activations[b].participant] IN
          /\ row.link # "none" /\ row.joined
          /\ activations[b].generation = row.generation
          /\ activations[b].session = row.session
      BY <1>6, <2>1 DEF IInv, LiveActivationOwned
    <3> QED BY <1>3, <1>6, <3>1
  <2>2. ASSUME NEW b \in DOMAIN activations, NEW c \in DOMAIN activations,
               activations'[b].state \in LiveStates,
               activations'[c].state \in LiveStates,
               activations'[c].participant = activations'[b].participant
        PROVE  c = b
    BY <1>3, <1>6, <2>2 DEF IInv, LiveActivationOwned
  <2> QED BY <1>2, <2>1, <2>2 DEF LiveActivationOwned, IsLive
<1>8. ClaimsHaveLiveActivation'
  <2> SUFFICES ASSUME NEW m \in MsgIds, NEW p \in Participants,
                      InFlight(deliveries'[m][p]), deliveries'[m][p].activation # 0
               PROVE  LET b == deliveries'[m][p].activation IN
                      /\ b \in DOMAIN activations'
                      /\ activations'[b].state \in LiveStates
                      /\ activations'[b].participant = p
    BY DEF ClaimsHaveLiveActivation, RowFollows, InFlight, IsLive
  <2> DEFINE b == deliveries'[m][p].activation
  <2>1. /\ InFlight(deliveries[m][p]) /\ deliveries[m][p].activation = b
        /\ s \notin LiveStates => b # a
    BY DEF RowFollows
  <2>2. /\ b \in DOMAIN activations /\ IsLive(b)
        /\ activations[b].participant = p
    BY <2>1 DEF IInv, ClaimsHaveLiveActivation
  <2> QED BY <1>2, <1>3, <2>1, <2>2 DEF IsLive
<1> QED BY <1>4, <1>5, <1>7, <1>8

\* Activation ids are never 0.
LEMMA ActivationIds == TypeOK => \A a \in DOMAIN activations : a # 0
  BY DEF TypeOK

\* The rows with evidence: recorded, or untouched.
LEMMA RecordedByRow ==
    ASSUME TypeOK, NEW a, NEW E, NEW m \in MsgIds, NEW p \in Participants
    PROVE  LET d == deliveries[m][p]
               e == RecordedBy(a, E)[m][p] IN
           /\ e.activation = d.activation
           /\ e.session = d.session /\ e.generation = d.generation
           /\ \/ e = d
              \/ e.state = "recorded" /\ d.activation = a
<1>1. deliveries[m][p] \in Delivery
  BY RowTyped
<1>2. RecordedBy(a, E)[m][p] = IF m \in E /\ deliveries[m][p].activation = a
                               THEN [deliveries[m][p] EXCEPT !.state = "recorded"]
                               ELSE deliveries[m][p]
  BY DEF RecordedBy
<1> DEFINE d == deliveries[m][p]
           e == [d EXCEPT !.state = "recorded"]
<1>3. /\ e.activation = d.activation /\ e.session = d.session
      /\ e.generation = d.generation /\ e.state = "recorded"
  BY <1>1 DEF Delivery
<1> HIDE DEF d, e
<1>4. RecordedBy(a, E)[m][p] = IF m \in E /\ d.activation = a THEN e ELSE d
  BY <1>2 DEF d, e
<1>5. CASE m \in E /\ d.activation = a
  BY <1>3, <1>4, <1>5 DEF d
<1>6. CASE ~(m \in E /\ d.activation = a)
  BY <1>4, <1>6 DEF d
<1> QED BY <1>5, <1>6

\* A refund keeps the invariant.
LEMMA RefundKeepsIInv ==
    ASSUME IInv, NEW ds \in [MsgIds -> [Participants -> Delivery]],
           NEW a \in DOMAIN activations, Refund(ds, a),
           \A m \in MsgIds, p \in Participants :
                \/ ds[m][p] = deliveries[m][p]
                \/ /\ ds[m][p].state = "recorded"
                   /\ ds[m][p].activation = deliveries[m][p].activation
                   /\ deliveries[m][p].activation = a
    PROVE  IInv'
<1>1. TypeOK' /\ a # 0
  BY RefundTyped, ActivationIds DEF IInv
<1> DEFINE refunded(m, p) ==
        [ds[m][p] EXCEPT !.state = IF /\ ds[m][p].obligation \in ActiveObligations
                                      /\ ThreadOpen(m)
                                   THEN "pending" ELSE "cancelled",
                         !.activation = 0, !.session = NoSession, !.generation = 0]
<1>2. \A m \in MsgIds, p \in Participants :
        deliveries'[m][p] = IF ds[m][p].activation = a /\ InFlight(ds[m][p])
                            THEN refunded(m, p) ELSE ds[m][p]
  BY DEF Refund
<1>3. \A m \in MsgIds, p \in Participants :
        refunded(m, p).state \in {"pending", "cancelled"} /\ refunded(m, p).activation = 0
  <2> SUFFICES ASSUME NEW m \in MsgIds, NEW p \in Participants
               PROVE  /\ refunded(m, p).state \in {"pending", "cancelled"}
                      /\ refunded(m, p).activation = 0
    OBVIOUS
  <2>1. ds[m][p] \in Delivery
    OBVIOUS
  <2> QED BY <2>1 DEF Delivery
<1> HIDE DEF refunded
<1>4. \A m \in MsgIds, p \in Participants :
        RowFollows(deliveries[m][p], deliveries'[m][p], a, "cancelled")
  <2> SUFFICES ASSUME NEW m \in MsgIds, NEW p \in Participants
               PROVE  RowFollows(deliveries[m][p], deliveries'[m][p], a, "cancelled")
    OBVIOUS
  <2>1. deliveries[m][p].state = "pending" => deliveries[m][p].activation = 0
    BY DEF IInv, ClaimsHaveLiveActivation
  <2>2. CASE ds[m][p].activation = a /\ InFlight(ds[m][p])
    BY <1>2, <1>3, <2>2 DEF RowFollows, InFlight
  <2>3. CASE ~(ds[m][p].activation = a /\ InFlight(ds[m][p]))
    BY <1>2, <2>1, <2>3 DEF RowFollows, InFlight
  <2> QED BY <2>2, <2>3
<1>5. /\ activations' = [activations EXCEPT ![a].state = "cancelled"]
      /\ UNCHANGED <<participants, messages>>
  BY DEF Refund, memberVars
<1>6. EmptyRows'
  <2> SUFFICES ASSUME NEW m \in MsgIds, NEW p \in Participants, m \notin DOMAIN messages
               PROVE  /\ deliveries'[m][p].state = "absent"
                      /\ deliveries'[m][p].activation = 0
    BY <1>5 DEF EmptyRows
  <2>1. deliveries[m][p].state = "absent" /\ deliveries[m][p].activation = 0
    BY DEF IInv, EmptyRows
  <2>2. ds[m][p] = deliveries[m][p]
    BY <1>1, <2>1
  <2> QED BY <1>1, <1>2, <2>1, <2>2
<1>7. "cancelled" \in ActivationStates /\ "cancelled" \notin LiveStates
  BY DEF ActivationStates
<1>8. Members' /\ InFlightOwned' /\ LiveActivationOwned' /\ ClaimsHaveLiveActivation'
  BY <1>4, <1>5, <1>7, LedgerKeepsOwnership
<1> QED BY <1>1, <1>6, <1>8 DEF IInv

\* A reservation keeps the invariant.
LEMMA ReserveKeepsIInv ==
    ASSUME IInv, NEW w \in actors, AutoReserve(w)
    PROVE  IInv'
<1> DEFINE a == Len(activations) + 1
           p0 == w.participant
           act == [participant |-> p0, session |-> w.session,
                   generation |-> w.generation, state |-> "reserved"]
           claimed(m) == [deliveries[m][p0] EXCEPT
                             !.state = "claimed", !.activation = a,
                             !.session = w.session, !.generation = w.generation]
<1>1. TypeOK' /\ TypeOK
  BY ReserveTyped DEF IInv
<1>2. p0 \in Participants /\ w \in WorkerActor
  BY <1>1 DEF TypeOK, WorkerActor
<1>3. /\ participants[p0].link # "none" /\ participants[p0].joined
      /\ w.generation = participants[p0].generation
      /\ w.session = participants[p0].session
  BY DEF AutoReserve, Reservable, Authorized
<1>4. activations' = Append(activations, act)
  BY DEF AutoReserve
<1>5. /\ act.participant = p0 /\ act.session = w.session
      /\ act.generation = w.generation /\ act.state = "reserved"
  OBVIOUS
<1>6. \A m \in MsgIds, r \in Participants :
        deliveries'[m][r] = IF m \in Batch(p0) /\ r = p0
                            THEN claimed(m) ELSE deliveries[m][r]
  BY Zenon DEF AutoReserve
<1>7. \A m \in MsgIds :
        /\ claimed(m).state = "claimed" /\ claimed(m).activation = a
        /\ claimed(m).session = w.session /\ claimed(m).generation = w.generation
  <2> SUFFICES ASSUME NEW m \in MsgIds
               PROVE  /\ claimed(m).state = "claimed" /\ claimed(m).activation = a
                      /\ claimed(m).session = w.session
                      /\ claimed(m).generation = w.generation
    OBVIOUS
  <2>1. deliveries[m][p0] \in Delivery
    BY <1>1, <1>2, RowTyped
  <2> HIDE DEF a, p0
  <2> QED BY <2>1 DEF Delivery
<1>8. UNCHANGED <<participants, messages>>
  BY DEF AutoReserve, memberVars
<1>9. ~HasLiveActivation(p0)
  BY DEF AutoReserve, Reservable
<1>10. activations \in Seq(Activation)
  BY <1>1 DEF TypeOK
<1> HIDE DEF act, claimed, p0
<1>11. act \in Activation
  BY <1>1, <1>4 DEF TypeOK
<1>12. /\ DOMAIN activations' = DOMAIN activations \cup {a}
       /\ a \notin DOMAIN activations /\ activations'[a] = act
       /\ \A b \in DOMAIN activations : activations'[b] = activations[b]
  BY <1>4, <1>10
<1> HIDE DEF a
<1>13. Members'
  BY <1>8 DEF IInv, Members
<1>14. EmptyRows'
  <2>1. Batch(p0) \subseteq DOMAIN messages
    BY DEF Batch, Candidates
  <2> QED BY <1>6, <1>8, <2>1 DEF IInv, EmptyRows
<1>15. InFlightOwned'
  <2> SUFFICES ASSUME NEW m \in MsgIds, NEW r \in Participants,
                      InFlight(deliveries'[m][r])
               PROVE  /\ participants[r].link # "none" /\ participants[r].joined
                      /\ deliveries'[m][r].generation = participants[r].generation
                      /\ deliveries'[m][r].session = participants[r].session
    BY <1>8 DEF InFlightOwned, InFlight
  <2>1. CASE m \in Batch(p0) /\ r = p0
    BY <1>3, <1>6, <1>7, <2>1
  <2>2. CASE ~(m \in Batch(p0) /\ r = p0)
    BY <1>6, <2>2 DEF IInv, InFlightOwned
  <2> QED BY <2>1, <2>2
<1>16. ClaimsHaveLiveActivation'
  <2> SUFFICES ASSUME NEW m \in MsgIds, NEW r \in Participants
               PROVE  LET e == deliveries'[m][r] IN
                      /\ e.state = "pending" => e.activation = 0
                      /\ InFlight(e) /\ e.activation # 0 =>
                            /\ e.activation \in DOMAIN activations'
                            /\ activations'[e.activation].state \in LiveStates
                            /\ activations'[e.activation].participant = r
    BY DEF ClaimsHaveLiveActivation, InFlight, IsLive
  <2>1. CASE m \in Batch(p0) /\ r = p0
    BY <1>5, <1>6, <1>7, <1>12, <2>1
  <2>2. CASE ~(m \in Batch(p0) /\ r = p0)
    BY <1>6, <1>12, <2>2 DEF IInv, ClaimsHaveLiveActivation, IsLive
  <2> QED BY <2>1, <2>2
<1>17. LiveActivationOwned'
  <2>1. ASSUME NEW b \in DOMAIN activations', activations'[b].state \in LiveStates
        PROVE  LET new == activations'[b]
                   row == participants[new.participant] IN
               /\ row.link # "none" /\ row.joined
               /\ new.generation = row.generation /\ new.session = row.session
    <3>1. CASE b = a
      BY <1>3, <1>5, <1>12, <3>1
    <3>2. CASE b \in DOMAIN activations
      <4>1. IsLive(b) /\ activations'[b] = activations[b]
        BY <1>12, <2>1, <3>2 DEF IsLive
      <4> QED BY <3>2, <4>1 DEF IInv, LiveActivationOwned
    <3> QED BY <1>12, <3>1, <3>2
  <2>2. ASSUME NEW b \in DOMAIN activations', NEW c \in DOMAIN activations',
               activations'[b].state \in LiveStates,
               activations'[c].state \in LiveStates,
               activations'[c].participant = activations'[b].participant
        PROVE  c = b
    <3>1. CASE b \in DOMAIN activations /\ c \in DOMAIN activations
      BY <1>12, <2>2, <3>1 DEF IInv, LiveActivationOwned, IsLive
    <3>2. CASE b = a /\ c \in DOMAIN activations
      BY <1>5, <1>9, <1>12, <2>2, <3>2 DEF HasLiveActivation, IsLive
    <3>3. CASE c = a /\ b \in DOMAIN activations
      BY <1>5, <1>9, <1>12, <2>2, <3>3 DEF HasLiveActivation, IsLive
    <3> QED BY <1>12, <3>1, <3>2, <3>3
  <2> QED BY <1>8, <2>1, <2>2 DEF LiveActivationOwned, IsLive
<1> QED BY <1>1, <1>13, <1>14, <1>15, <1>16, <1>17 DEF IInv

\* A dispatch keeps the invariant.
LEMMA DispatchKeepsIInv ==
    ASSUME IInv, NEW w \in actors, NEW a \in DOMAIN activations, AutoDispatch(w, a)
    PROVE  IInv'
<1>1. TypeOK' /\ TypeOK /\ a # 0
  BY DispatchTyped, ActivationIds DEF IInv
<1>2. CASE PausedFor(w.participant) \/ Obsolete(a)
  <2>1. deliveries \in [MsgIds -> [Participants -> Delivery]]
    BY <1>1 DEF TypeOK
  <2> QED BY <1>2, <2>1, RefundKeepsIInv DEF AutoDispatch
<1>3. CASE ~(PausedFor(w.participant) \/ Obsolete(a))
  <2> DEFINE queued(m, p) == [deliveries[m][p] EXCEPT !.state = "queued"]
  <2>1. \A m \in MsgIds, p \in Participants :
          deliveries'[m][p] = IF deliveries[m][p].activation = a
                              THEN queued(m, p) ELSE deliveries[m][p]
    BY <1>3 DEF AutoDispatch
  <2>2. \A m \in MsgIds, p \in Participants :
          /\ queued(m, p).state = "queued"
          /\ queued(m, p).activation = deliveries[m][p].activation
          /\ queued(m, p).session = deliveries[m][p].session
          /\ queued(m, p).generation = deliveries[m][p].generation
    <3>1. \A m \in MsgIds, p \in Participants : deliveries[m][p] \in Delivery
      BY <1>1, RowTyped
    <3> QED BY <3>1 DEF Delivery
  <2> HIDE DEF queued
  <2>3. /\ activations' = [activations EXCEPT ![a].state = "dispatched"]
        /\ UNCHANGED <<participants, messages>>
    BY <1>3 DEF AutoDispatch, memberVars
  <2>4. IsLive(a)
    BY DEF AutoDispatch, IsLive
  <2>5. \A m \in MsgIds, p \in Participants :
          deliveries[m][p].activation = a =>
            m \in DOMAIN messages /\ deliveries[m][p].state = "claimed"
    BY <1>1, <1>3 DEF Obsolete, IInv, EmptyRows
  <2>6. \A m \in MsgIds, p \in Participants :
          RowFollows(deliveries[m][p], deliveries'[m][p], a, "dispatched")
    BY <2>1, <2>2, <2>5 DEF RowFollows, InFlight, IInv, ClaimsHaveLiveActivation
  <2>7. EmptyRows'
    BY <2>1, <2>3, <2>5 DEF IInv, EmptyRows
  <2>8. "dispatched" \in ActivationStates
    BY DEF ActivationStates
  <2>9. Members' /\ InFlightOwned' /\ LiveActivationOwned' /\ ClaimsHaveLiveActivation'
    BY <2>3, <2>4, <2>6, <2>8, LedgerKeepsOwnership
  <2> QED BY <1>1, <2>7, <2>9 DEF IInv
<1> QED BY <1>2, <1>3

\* A finish keeps the invariant.
LEMMA FinishKeepsIInv ==
    ASSUME IInv, NEW w \in actors, NEW a \in DOMAIN activations,
           NEW complete \in BOOLEAN, NEW E, AutoFinish(w, a, complete, E)
    PROVE  IInv'
<1> DEFINE row(m, p) == RecordedBy(a, E)[m][p]
           lost(m, p) == [row(m, p) EXCEPT !.state = "uncertain"]
<1>1. TypeOK' /\ TypeOK /\ a # 0
  BY FinishTyped, ActivationIds DEF IInv
<1>2. \A m \in MsgIds, p \in Participants :
        deliveries'[m][p] = IF row(m, p).activation = a /\ InFlight(row(m, p))
                            THEN lost(m, p) ELSE row(m, p)
  BY DEF AutoFinish
<1>3. \A m \in MsgIds, p \in Participants :
        /\ row(m, p).activation = deliveries[m][p].activation
        /\ row(m, p).session = deliveries[m][p].session
        /\ row(m, p).generation = deliveries[m][p].generation
        /\ \/ row(m, p) = deliveries[m][p]
           \/ row(m, p).state = "recorded" /\ deliveries[m][p].activation = a
  BY <1>1, RecordedByRow
<1>4. \A m \in MsgIds, p \in Participants : lost(m, p).state = "uncertain"
  <2>1. \A m \in MsgIds, p \in Participants : row(m, p) \in Delivery
    BY <1>1, RecordedByTyped
  <2> HIDE DEF row
  <2> QED BY <2>1 DEF Delivery
<1> HIDE DEF row, lost
<1>5. \E s \in {"uncertain", "settled"} :
        activations' = [activations EXCEPT ![a].state = s]
  BY DEF AutoFinish
<1>6. PICK s \in {"uncertain", "settled"} :
        activations' = [activations EXCEPT ![a].state = s]
  BY <1>5
<1>7. \A m \in MsgIds, p \in Participants :
        RowFollows(deliveries[m][p], deliveries'[m][p], a, s)
  <2> SUFFICES ASSUME NEW m \in MsgIds, NEW p \in Participants
               PROVE  RowFollows(deliveries[m][p], deliveries'[m][p], a, s)
    OBVIOUS
  <2>1. deliveries[m][p].state = "pending" => deliveries[m][p].activation = 0
    BY DEF IInv, ClaimsHaveLiveActivation
  <2>2. CASE row(m, p).activation = a /\ InFlight(row(m, p))
    BY <1>2, <1>4, <2>2 DEF RowFollows, InFlight
  <2>3. CASE ~(row(m, p).activation = a /\ InFlight(row(m, p)))
    BY <1>2, <1>3, <2>1, <2>3 DEF RowFollows, InFlight
  <2> QED BY <2>2, <2>3
<1>8. \A p \in Participants :
        /\ participants'[p].link = participants[p].link
        /\ participants'[p].joined = participants[p].joined
        /\ participants'[p].generation = participants[p].generation
        /\ participants'[p].session = participants[p].session
  <2> DEFINE paused == participants[w.participant].paused \/ ~complete
  <2>1. participants \in [Participants -> ParticipantRow]
    BY <1>1 DEF TypeOK
  <2>2. participants' = [participants EXCEPT ![w.participant].paused = paused]
    BY DEF AutoFinish
  <2> HIDE DEF paused
  <2> QED BY <2>1, <2>2 DEF ParticipantRow
<1>9. EmptyRows'
  <2>1. UNCHANGED messages
    BY DEF AutoFinish
  <2> SUFFICES ASSUME NEW m \in MsgIds, NEW p \in Participants, m \notin DOMAIN messages
               PROVE  /\ deliveries'[m][p].state = "absent"
                      /\ deliveries'[m][p].activation = 0
    BY <2>1 DEF EmptyRows
  <2>2. deliveries[m][p].state = "absent" /\ deliveries[m][p].activation = 0
    BY DEF IInv, EmptyRows
  <2> QED BY <1>1, <1>2, <1>3, <2>2
<1>10. s \in ActivationStates /\ s \notin LiveStates
  BY DEF ActivationStates
<1>11. Members' /\ InFlightOwned' /\ LiveActivationOwned' /\ ClaimsHaveLiveActivation'
  BY <1>6, <1>7, <1>8, <1>10, LedgerKeepsOwnership
<1> QED BY <1>1, <1>9, <1>11 DEF IInv

\* Steps of the ledger keep the invariant.
LEMMA AutomationKeepsIInv == IInv /\ Automation => IInv'
<1> SUFFICES ASSUME IInv, Automation PROVE IInv'
  OBVIOUS
<1>1. TypeOK' /\ TypeOK /\ deliveries \in [MsgIds -> [Participants -> Delivery]]
  BY AutomationTyped DEF IInv, TypeOK
<1>2. ASSUME NEW w \in actors, NEW a \in DOMAIN activations, AutoCancel(w, a)
      PROVE  IInv'
  BY <1>1, <1>2, RefundKeepsIInv DEF AutoCancel
<1>3. ASSUME NEW w \in actors, NEW a \in DOMAIN activations, NEW E,
             AutoReconcile(w, a, E)
      PROVE  IInv'
  <2> DEFINE ds == RecordedBy(a, E)
  <2>1. ds \in [MsgIds -> [Participants -> Delivery]]
    BY <1>1, RecordedByTyped
  <2>2. \A m \in MsgIds, p \in Participants :
          \/ ds[m][p] = deliveries[m][p]
          \/ /\ ds[m][p].state = "recorded"
             /\ ds[m][p].activation = deliveries[m][p].activation
             /\ deliveries[m][p].activation = a
    BY <1>1, RecordedByRow
  <2>3. Refund(ds, a)
    BY <1>3 DEF AutoReconcile
  <2> HIDE DEF ds
  <2> QED BY <2>1, <2>2, <2>3, RefundKeepsIInv
<1>4. ASSUME WindowSlides PROVE IInv'
  <2>1. UNCHANGED <<participants, messages, deliveries, activations>>
    BY <1>4 DEF WindowSlides, memberVars, mailVars
  <2>2. \A m \in MsgIds, p \in Participants : RowFine(deliveries'[m][p], p)
    BY <2>1, RowsAreFine
  <2>3. EmptyRows'
    BY <2>1 DEF IInv, EmptyRows
  <2> QED BY <1>1, <2>1, <2>2, <2>3, FineRowsKeepOwnership DEF IInv
<1> QED BY <1>2, <1>3, <1>4, ReserveKeepsIInv, DispatchKeepsIInv, FinishKeepsIInv
        DEF Automation

(***************************************************************************)
(* The theorems                                                            *)
(***************************************************************************)
\* The empty store is sound.
LEMMA InitIInv == Init => IInv
<1> SUFFICES ASSUME Init PROVE IInv
  OBVIOUS
<1>1. /\ participants \in [Participants -> ParticipantRow]
      /\ \A p \in Participants : participants[p].link = "none" /\ ~participants[p].joined
  BY BoundsAssumption DEF Init, ParticipantRow
<1>2. /\ deliveries \in [MsgIds -> [Participants -> Delivery]]
      /\ \A m \in MsgIds, p \in Participants :
            deliveries[m][p].state = "absent" /\ deliveries[m][p].activation = 0
  <2>1. Absent.state = "absent" /\ Absent.activation = 0
    BY DEF Absent
  <2> QED BY <2>1, AbsentTyped DEF Init
<1>3. /\ messages \in Seq(Message) /\ Len(messages) = 0
      /\ activations \in Seq(Activation) /\ Len(activations) = 0
      /\ DOMAIN activations = {}
  BY DEF Init
<1>4. TypeOK
  <2>1. /\ roomPaused = FALSE /\ actors = {} /\ aged = 0
        /\ threads \in [Threads -> {"absent", "open", "resolved"}]
    BY DEF Init
  <2>2. aged \in 0..Len(activations) /\ actors \subseteq WorkerActor
    BY <1>3, <2>1
  <2>3. /\ Len(messages) <= MaxMessages /\ Len(activations) <= MaxActivations
        /\ roomPaused \in BOOLEAN
    <3>1. 0 <= MaxMessages /\ 0 <= MaxActivations
      BY BoundsAssumption
    <3> QED BY <1>3, <2>1, <3>1
  <2> QED BY <1>1, <1>2, <1>3, <2>1, <2>2, <2>3 DEF TypeOK
<1>5. Members /\ EmptyRows
  BY <1>1, <1>2 DEF Members, EmptyRows
<1>6. InFlightOwned /\ LiveActivationOwned /\ ClaimsHaveLiveActivation
  BY <1>2, <1>3 DEF InFlightOwned, LiveActivationOwned, ClaimsHaveLiveActivation, InFlight
<1> QED BY <1>4, <1>5, <1>6 DEF IInv

\* Every step keeps the invariant.
LEMMA StepKeepsIInv == IInv /\ [Next]_vars => IInv'
<1>1. ASSUME IInv, UNCHANGED vars PROVE IInv'
  <2>1. TypeOK' /\ EmptyRows'
    BY <1>1 DEF vars, IInv, TypeOK, EmptyRows
  <2>2. UNCHANGED <<participants, activations, deliveries>>
    BY <1>1 DEF vars
  <2>3. \A m \in MsgIds, p \in Participants : RowFine(deliveries'[m][p], p)
    BY <1>1, <2>2, RowsAreFine
  <2> QED BY <1>1, <2>1, <2>2, <2>3, FineRowsKeepOwnership DEF IInv
<1> QED BY <1>1, MembershipKeepsIInv, MailKeepsIInv, AutomationKeepsIInv DEF Next

\* The inductive invariant holds in every reachable state (store.ts and
\* automation-store.ts).
THEOREM Invariance == Spec => []IInv
BY InitIInv, StepKeepsIInv, PTL DEF Spec

\* Every variable keeps its type, for all limits and bounds.
THEOREM TypeCorrectness == Spec => []TypeOK
<1>1. IInv => TypeOK
  BY DEF IInv
<1> QED BY <1>1, Invariance, PTL

\* Whatever ends a connection, nothing stays claimed or queued for it.
THEOREM InFlightOwnership == Spec => []InFlightOwned
<1>1. IInv => InFlightOwned
  BY DEF IInv
<1> QED BY <1>1, Invariance, PTL

\* A member has at most one live activation, held by its present connection.
THEOREM LiveActivationOwnership == Spec => []LiveActivationOwned
<1>1. IInv => LiveActivationOwned
  BY DEF IInv
<1> QED BY <1>1, Invariance, PTL

\* An automatic claim never outlives its activation.
THEOREM ClaimsFollowActivations == Spec => []ClaimsHaveLiveActivation
<1>1. IInv => ClaimsHaveLiveActivation
  BY DEF IInv
<1> QED BY <1>1, Invariance, PTL
=============================================================================
