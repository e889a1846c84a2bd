--------------------------- MODULE TeamStoreLimits ---------------------------
(***************************************************************************)
(* TLAPS proofs about the two limits of TeamStore: the bounded queue and   *)
(* the room's wake budget.  Only a stored message and a redirect add a row *)
(* to the queue, both after a check of the capacity they need; every other *)
(* action leaves no row occupied that was free.  Only a reservation        *)
(* charges an activation, and none that was refunded is charged again.     *)
(* The last part is about what replies may set off: every answer has its   *)
(* reply, replies that wake never outnumber the requests they answered,    *)
(* and what became obsolete is offered again only by a human's retry.      *)
(***************************************************************************)
EXTENDS TeamStoreProofs, FiniteSetTheorems

USE DEF InFlightStates, UndeliveredStates, LiveStates

\* Row d holds a place in its recipient's queue.
Occupies(d) == d.state \in UndeliveredStates \/ d.obligation = "open"

\* No row takes a place it did not hold.
NoFuller ==
    \A m \in MsgIds, p \in Participants :
        Occupies(deliveries'[m][p]) => Occupies(deliveries[m][p])

\* No activation that was not charged is charged now.
NoCharge ==
    /\ DOMAIN activations' = DOMAIN activations /\ aged' >= aged
    /\ \A a \in DOMAIN activations :
        activations[a].state = "cancelled" => activations'[a].state = "cancelled"

LInv == IInv /\ QueueBounded /\ BudgetNeverExceeded

\* The places taken can be counted.
LEMMA OccupyingFinite ==
    /\ IsFiniteSet(MsgIds \X Participants) /\ IsFiniteSet(Occupying)
    /\ Cardinality(Occupying) \in Nat
<1>0. IsFiniteSet(MsgIds)
  <2>1. 1 \in Int /\ MaxMessages \in Int
    BY BoundsAssumption
  <2> QED BY <2>1, FS_Interval DEF MsgIds
<1>1. IsFiniteSet(MsgIds \X Participants)
  BY <1>0, FinitenessAssumption, FS_Product
<1>2. Occupying \subseteq MsgIds \X Participants
  BY DEF Occupying
<1> QED BY <1>1, <1>2, FS_Subset, FS_CardinalityType

\* A step that takes no place leaves the queue no longer.
LEMMA NoFullerBounds ==
    ASSUME NoFuller
    PROVE  Cardinality(Occupying') <= Cardinality(Occupying)
<1>1. Occupying' \subseteq Occupying
  BY DEF NoFuller, Occupies, Occupying
<1> QED BY <1>1, OccupyingFinite, FS_Subset

\* The charged activations of the window.
Charged == {a \in DOMAIN activations : a > aged /\ activations[a].state # "cancelled"}

\* The charged activations can be counted, and are what the budget counts.
LEMMA ChargedFinite ==
    ASSUME TypeOK
    PROVE  IsFiniteSet(Charged) /\ Cardinality(Charged) \in Nat /\ RoomUsed = Cardinality(Charged)
<1>1. Charged \subseteq 1..Len(activations) /\ Len(activations) \in Nat
  BY DEF Charged, TypeOK
<1>2. IsFiniteSet(1..Len(activations))
  BY <1>1, FS_Interval
<1>3. IsFiniteSet(Charged)
  BY <1>1, <1>2, FS_Subset
<1> QED BY <1>3, FS_CardinalityType DEF RoomUsed, Charged

\* A step that charges nothing leaves the budget no more used.
LEMMA NoChargeBounds ==
    ASSUME TypeOK, TypeOK', NoCharge
    PROVE  RoomUsed' <= RoomUsed
<1>1. Charged' \subseteq Charged
  BY DEF NoCharge, Charged, TypeOK
<1>2. RoomUsed' = Cardinality(Charged')
  BY DEF RoomUsed, Charged
<1> QED BY <1>1, <1>2, ChargedFinite, FS_Subset

\* A step that adds nothing to either limit.
LEMMA QuietStep ==
    ASSUME LInv, IInv', NoFuller, NoCharge PROVE LInv'
<1>1. QueueBounded'
  <2>1. Cardinality(Occupying') \in Nat
    <3>1. Occupying' \subseteq MsgIds \X Participants
      BY DEF Occupying
    <3> QED BY <3>1, OccupyingFinite, FS_Subset, FS_CardinalityType
  <2> QED BY <2>1, NoFullerBounds, OccupyingFinite, BoundsAssumption DEF LInv, QueueBounded
<1>2. BudgetNeverExceeded'
  <2>1. Charged' \subseteq 1..Len(activations') /\ Len(activations') \in Nat
    BY DEF Charged, IInv, TypeOK
  <2>2. IsFiniteSet(Charged')
    <3>1. IsFiniteSet(1..Len(activations'))
      BY <2>1, FS_Interval
    <3> QED BY <2>1, <3>1, FS_Subset
  <2>3. RoomUsed' = Cardinality(Charged') /\ Cardinality(Charged') \in Nat
    BY <2>2, FS_CardinalityType DEF RoomUsed, Charged
  <2> QED BY <2>3, NoChargeBounds, ChargedFinite, BoundsAssumption
          DEF LInv, IInv, BudgetNeverExceeded
<1> QED BY <1>1, <1>2 DEF LInv

\* A step that leaves the ledger alone charges nothing.
LEMMA SameLedgerNoCharge ==
    ASSUME TypeOK, UNCHANGED <<activations, aged>> PROVE NoCharge
  BY DEF NoCharge, TypeOK

\* A step that leaves rows and ledger alone adds nothing to either limit.
LEMMA SameRowsQuiet ==
    ASSUME TypeOK, UNCHANGED <<deliveries, activations, aged>> PROVE NoFuller /\ NoCharge
  BY SameLedgerNoCharge DEF NoFuller

\* One activation that is not a refunded one changes its state.
LEMMA MovedRunNoCharge ==
    ASSUME TypeOK, NEW a \in DOMAIN activations, NEW s,
           activations[a].state # "cancelled" \/ s = "cancelled",
           activations' = [activations EXCEPT ![a].state = s], UNCHANGED aged
    PROVE  NoCharge
<1>1. \A b \in DOMAIN activations : activations[b] \in Activation
  BY DEF TypeOK
<1> QED BY <1>1 DEF NoCharge, Activation, TypeOK

(***************************************************************************)
(* Connections that end                                                    *)
(***************************************************************************)
\* A connection that ends takes no place and charges nothing.
LEMMA SeverQuiet ==
    ASSUME IInv, NEW P, Sever(P) PROVE NoFuller /\ NoCharge
<1>1. NoFuller
  <2> SUFFICES ASSUME NEW m \in MsgIds, NEW p \in Participants, Occupies(deliveries'[m][p])
               PROVE  Occupies(deliveries[m][p])
    BY DEF NoFuller
  <2> DEFINE e == [deliveries[m][p] EXCEPT !.state = "uncertain"]
  <2>1. deliveries'[m][p] = IF p \in P /\ InFlight(deliveries[m][p])
                            THEN e ELSE deliveries[m][p]
    BY DEF Sever, DeliveriesLeftUncertain
  <2> HIDE DEF e
  <2> QED BY <2>1 DEF Occupies, InFlight
<1>2. DOMAIN activations' = DOMAIN activations /\ UNCHANGED aged
  BY SeverTyped DEF IInv, Sever
<1>3. \A a \in DOMAIN activations :
        activations[a].state = "cancelled" => activations'[a].state = "cancelled"
  BY DEF Sever, InterruptedActivations, IsLive
<1> QED BY <1>1, <1>2, <1>3 DEF NoCharge, IInv, TypeOK

\* Membership and connection steps keep both limits.
LEMMA MembershipKeepsLimits == LInv /\ Membership => LInv'
<1> SUFFICES ASSUME LInv, Membership PROVE LInv'
  OBVIOUS
<1>1. (\E P : Sever(P)) \/ UNCHANGED <<deliveries, activations, aged>>
  BY DEF Membership, Join, Rejoin, Connect, Disconnect, LeaseLapse, Expire,
         BrokerRestart, Leave, Pause, PauseRoom, mailVars, wakeVars
<1>2. NoFuller /\ NoCharge
  BY <1>1, SeverQuiet, SameRowsQuiet DEF LInv, IInv
<1> QED BY <1>2, QuietStep, MembershipKeepsIInv DEF LInv

(***************************************************************************)
(* Messages and the human's control                                        *)
(***************************************************************************)

\* Rows New enter a queue that has room for them.
LEMMA RoomForThem ==
    ASSUME LInv, NEW New \in SUBSET (MsgIds \X Participants),
           HasCapacity(Cardinality(New)),
           \A m \in MsgIds, p \in Participants :
                <<m, p>> \notin New /\ Occupies(deliveries'[m][p]) =>
                    Occupies(deliveries[m][p])
    PROVE  QueueBounded'
<1>1. Occupying' \subseteq Occupying \cup New
  BY DEF Occupies, Occupying
<1>2. IsFiniteSet(New) /\ Cardinality(New) \in Nat
  BY OccupyingFinite, FS_Subset, FS_CardinalityType
<1>3. /\ IsFiniteSet(Occupying \cup New)
      /\ Cardinality(Occupying \cup New) <= Cardinality(Occupying) + Cardinality(New)
  <2>1. IsFiniteSet(Occupying \cap New)
    BY <1>2, FS_Subset
  <2>2. Cardinality(Occupying \cap New) \in Nat
    BY <2>1, FS_CardinalityType
  <2>3. /\ IsFiniteSet(Occupying \cup New)
        /\ Cardinality(Occupying \cup New) =
              Cardinality(Occupying) + Cardinality(New) - Cardinality(Occupying \cap New)
    BY <1>2, OccupyingFinite, FS_Union
  <2> QED BY <1>2, <2>2, <2>3, OccupyingFinite
<1>4. IsFiniteSet(Occupying') /\ Cardinality(Occupying') <= Cardinality(Occupying \cup New)
  BY <1>1, <1>3, FS_Subset
<1>5. /\ Cardinality(Occupying') \in Nat /\ Cardinality(Occupying \cup New) \in Nat
  BY <1>3, <1>4, FS_CardinalityType
<1> QED BY <1>2, <1>3, <1>4, <1>5, OccupyingFinite, BoundsAssumption
        DEF HasCapacity, QueueBounded

\* A step that only changes the queue.
LEMMA QueueStep ==
    ASSUME LInv, IInv', UNCHANGED <<activations, aged>>, QueueBounded' PROVE LInv'
<1>1. BudgetNeverExceeded'
  BY DEF LInv, BudgetNeverExceeded, RoomUsed
<1> QED BY <1>1 DEF LInv

\* A stored message was checked against the capacity all its rows need.
LEMMA StoreKeepsLimits ==
    ASSUME LInv, IInv', NEW msg, NEW R \in SUBSET Participants, NEW answered,
           Store(msg, R, answered)
    PROVE  LInv'
<1> DEFINE m == Len(messages) + 1
           New == {m} \X R
<1>1. m \in MsgIds
  <2>1. Len(messages) \in Nat /\ m <= MaxMessages
    BY DEF LInv, IInv, TypeOK, Store
  <2> QED BY <2>1, BoundsAssumption DEF MsgIds
<1>2. IsFiniteSet(R) /\ Cardinality(R) \in Nat
  BY FinitenessAssumption, FS_Subset, FS_CardinalityType
<1>3. Cardinality(New) = Cardinality(R)
  <2>1. IsFiniteSet({m}) /\ Cardinality({m}) = 1
    BY FS_Singleton
  <2>2. Cardinality(New) = Cardinality({m}) * Cardinality(R)
    BY <1>2, <2>1, FS_Product
  <2> QED BY <1>2, <2>1, <2>2
<1>4. HasCapacity(Cardinality(New))
  BY <1>3 DEF Store
<1>5. ASSUME NEW n \in MsgIds, NEW p \in Participants,
             <<n, p>> \notin New, Occupies(deliveries'[n][p])
      PROVE  Occupies(deliveries[n][p])
  <2>1. deliveries'[n][p] \in {Answered(deliveries[n][p]), deliveries[n][p]}
    BY <1>5 DEF Store
  <2>2. deliveries[n][p] \in Delivery
    BY RowTyped DEF LInv, IInv
  <2> QED BY <1>5, <2>1, <2>2 DEF Occupies, Answered, Delivery
<1>6. New \in SUBSET (MsgIds \X Participants)
  BY <1>1
<1> HIDE DEF m, New
<1>7. QueueBounded'
  BY <1>4, <1>5, <1>6, RoomForThem
<1> QED BY <1>7, QueueStep DEF Store, wakeVars

\* A redirect was checked against the capacity of the one row it adds.
LEMMA RedirectKeepsLimits ==
    ASSUME LInv, IInv', NEW m \in DOMAIN messages, NEW p \in Participants,
           NEW next \in Participants, Redirect(m, p, next)
    PROVE  LInv'
<1> DEFINE New == {<<m, next>>}
           old == Withdraw(m, p, "redirected")
           new == [Absent EXCEPT !.state = "pending",
                                 !.obligation = deliveries[m][p].obligation,
                                 !.wake = deliveries[m][p].wake]
<1>1. m \in MsgIds /\ deliveries \in [MsgIds -> [Participants -> Delivery]]
  BY MessageIds DEF LInv, IInv, TypeOK
<1>2. HasCapacity(Cardinality(New))
  <2>1. Cardinality(New) = 1
    BY FS_Singleton
  <2> QED BY <2>1 DEF Redirect
<1>3. ~Occupies(old)
  <2>1. deliveries[m][p] \in Delivery
    BY <1>1, RowTyped DEF LInv, IInv
  <2> QED BY <2>1 DEF Withdraw, Occupies, Delivery
<1>4. deliveries' = [deliveries EXCEPT ![m] = [@ EXCEPT ![p] = old, ![next] = new]]
  BY DEF Redirect
<1> HIDE DEF old, new
<1>5. \A n \in MsgIds, r \in Participants :
        <<n, r>> \notin New =>
            deliveries'[n][r] = IF n = m /\ r = p THEN old ELSE deliveries[n][r]
  BY <1>1, <1>4
<1>6. New \in SUBSET (MsgIds \X Participants)
  BY <1>1
<1> HIDE DEF New
<1>7. QueueBounded'
  BY <1>2, <1>3, <1>5, <1>6, RoomForThem
<1> QED BY <1>7, QueueStep DEF Redirect, wakeVars

\* One row changes and takes no new place.
LEMMA SetDeliveryKeepsLimits ==
    ASSUME LInv, IInv', NEW m \in DOMAIN messages, NEW p \in Participants, NEW d,
           SetDelivery(m, p, d), Occupies(d) => Occupies(deliveries[m][p])
    PROVE  LInv'
<1>1. m \in MsgIds /\ deliveries \in [MsgIds -> [Participants -> Delivery]]
  BY MessageIds DEF LInv, IInv, TypeOK
<1>2. \A n \in MsgIds, r \in Participants :
        deliveries'[n][r] = IF n = m /\ r = p THEN d ELSE deliveries[n][r]
  BY <1>1 DEF SetDelivery
<1>3. NoFuller
  BY <1>2 DEF NoFuller
<1>4. NoCharge
  BY SameLedgerNoCharge DEF SetDelivery, wakeVars, LInv, IInv
<1> QED BY <1>3, <1>4, QuietStep

\* Every step of the mailbox keeps both limits.
LEMMA MailKeepsLimits == LInv /\ Mail => LInv'
<1> SUFFICES ASSUME LInv, Mail PROVE LInv'
  OBVIOUS
<1>0. IInv'
  BY MailKeepsIInv DEF LInv
<1>1. ASSUME NEW w \in actors, NEW R \in SUBSET Participants, NEW type, NEW t, NEW q,
             NEW k, Send(w, R, type, t, q, k)
      PROVE  LInv'
  <2>1. \E msg, answered : Store(msg, R, answered)
    BY <1>1 DEF Send
  <2> QED BY <1>0, <2>1, StoreKeepsLimits
<1>2. ASSUME NEW m \in DOMAIN messages, NEW p \in Participants, NEW k, Answer(m, p, k)
      PROVE  LInv'
  <2>1. messages[m].sender \in Participants
    <3>1. messages[m] \in Message
      BY DEF LInv, IInv, TypeOK
    <3> QED BY <3>1 DEF Message
  <2>2. {messages[m].sender, p} \in SUBSET Participants
    BY <2>1
  <2>3. \E msg, answered : Store(msg, {messages[m].sender, p}, answered)
    BY <1>2 DEF Answer
  <2> QED BY <1>0, <2>2, <2>3, StoreKeepsLimits
<1>3. ASSUME NEW m \in DOMAIN messages, NEW p \in Participants
      PROVE  deliveries[m][p] \in Delivery
  BY MessageIds, RowTyped DEF LInv, IInv
<1>4. ASSUME NEW m \in DOMAIN messages, NEW p \in Participants, Retry(m, p)
      PROVE  LInv'
  <2> DEFINE e == [deliveries[m][p] EXCEPT !.state = "pending", !.activation = 0]
  <2>1. SetDelivery(m, p, e) /\ Occupies(deliveries[m][p])
    BY <1>4 DEF Retry, Occupies
  <2> HIDE DEF e
  <2> QED BY <1>0, <2>1, SetDeliveryKeepsLimits
<1>5. ASSUME NEW m \in DOMAIN messages, NEW p \in Participants, Cancel(m, p)
      PROVE  LInv'
  <2>1. PICK o \in {"none", "cancelled"} : SetDelivery(m, p, Withdraw(m, p, o))
    BY <1>5 DEF Cancel
  <2>2. ~Occupies(Withdraw(m, p, o))
    BY <1>3 DEF Withdraw, Occupies, Delivery
  <2> QED BY <1>0, <2>1, <2>2, SetDeliveryKeepsLimits
<1>6. ASSUME NEW t, Resolve(t) PROVE LInv'
  <2>1. NoFuller
    <3> SUFFICES ASSUME NEW m \in MsgIds, NEW p \in Participants,
                        Occupies(deliveries'[m][p])
                 PROVE  Occupies(deliveries[m][p])
      BY DEF NoFuller
    <3> DEFINE d == deliveries[m][p]
               closed == [d EXCEPT !.obligation = IF @ = "open" THEN "resolved" ELSE @,
                                   !.state = IF @ = "pending" THEN "cancelled" ELSE @]
    <3>1. deliveries'[m][p] = closed \/ deliveries'[m][p] = d
      BY <1>6 DEF Resolve
    <3>2. Occupies(closed) => Occupies(d)
      BY RowTyped DEF LInv, IInv, Occupies, Delivery
    <3> QED BY <3>1, <3>2
  <2>2. NoCharge
    BY <1>6, SameLedgerNoCharge DEF Resolve, wakeVars, LInv, IInv
  <2> QED BY <1>0, <2>1, <2>2, QuietStep
<1>7. ASSUME NEW w \in actors, NEW m \in DOMAIN messages
      PROVE  w.participant \in Participants
  BY DEF LInv, IInv, TypeOK, WorkerActor
<1>8. ASSUME NEW w \in actors, NEW m \in DOMAIN messages,
             \/ Claim(w, m) \/ Queue(w, m) \/ Receipt(w, m)
             \/ Uncertain(w, m) \/ Reconcile(w, m)
      PROVE  LInv'
  <2>1. \E d : SetDelivery(m, w.participant, d) /\ Occupies(deliveries[m][w.participant])
    BY <1>8 DEF Claim, Queue, Receipt, Uncertain, Reconcile, CurrentAttempt,
                Attempted, MoveTo, Occupies
  <2> QED BY <1>0, <1>7, <2>1, SetDeliveryKeepsLimits
<1> QED BY <1>0, <1>1, <1>2, <1>4, <1>5, <1>6, <1>8, RedirectKeepsLimits DEF Mail

(***************************************************************************)
(* Automatic activations                                                   *)
(***************************************************************************)
\* A refund takes no place that was free and charges nothing.
LEMMA RefundQuiet ==
    ASSUME IInv, NEW ds \in [MsgIds -> [Participants -> Delivery]],
           NEW a \in DOMAIN activations, Refund(ds, a),
           \A m \in MsgIds, p \in Participants :
                Occupies(ds[m][p]) => Occupies(deliveries[m][p])
    PROVE  NoFuller /\ NoCharge
<1>1. NoFuller
  <2> SUFFICES ASSUME NEW m \in MsgIds, NEW p \in Participants, Occupies(deliveries'[m][p])
               PROVE  Occupies(deliveries[m][p])
    BY DEF NoFuller
  <2> DEFINE r == ds[m][p]
             e == [r EXCEPT !.state = IF r.obligation \in ActiveObligations /\ ThreadOpen(m)
                                      THEN "pending" ELSE "cancelled",
                            !.activation = 0, !.session = NoSession, !.generation = 0]
  <2>1. deliveries'[m][p] = IF r.activation = a /\ InFlight(r) THEN e ELSE r
    BY Zenon DEF Refund
  <2>2. Occupies(r) => Occupies(deliveries[m][p])
    OBVIOUS
  <2> HIDE DEF r, e
  <2> QED BY <2>1, <2>2 DEF Occupies, InFlight
<1>2. activations' = [activations EXCEPT ![a].state = "cancelled"] /\ UNCHANGED aged
  BY DEF Refund
<1> QED BY <1>1, <1>2, MovedRunNoCharge DEF IInv

\* Evidence only takes rows out of the queue.
LEMMA RecordedByQuiet ==
    ASSUME IInv, NEW a, NEW E, NEW m \in MsgIds, NEW p \in Participants,
           Occupies(RecordedBy(a, E)[m][p])
    PROVE  Occupies(deliveries[m][p])
<1> DEFINE d == deliveries[m][p]
           e == [d EXCEPT !.state = "recorded"]
<1>1. RecordedBy(a, E)[m][p] = e \/ RecordedBy(a, E)[m][p] = d
  BY DEF RecordedBy
<1>2. Occupies(e) => Occupies(d)
  BY RowTyped DEF IInv, Occupies, Delivery
<1> QED BY <1>1, <1>2

\* A dispatch only moves rows that already hold a place.
LEMMA DispatchQuiet ==
    ASSUME IInv, NEW w \in actors, NEW a \in DOMAIN activations, AutoDispatch(w, a)
    PROVE  NoFuller /\ NoCharge
<1>1. CASE PausedFor(w.participant) \/ Obsolete(a)
  <2>1. deliveries \in [MsgIds -> [Participants -> Delivery]]
    BY DEF IInv, TypeOK
  <2> QED BY <1>1, <2>1, RefundQuiet DEF AutoDispatch
<1>2. CASE ~(PausedFor(w.participant) \/ Obsolete(a))
  <2>1. ASSUME NEW m \in MsgIds, NEW p \in Participants, Occupies(deliveries'[m][p])
        PROVE  Occupies(deliveries[m][p])
    <3>1. CASE deliveries[m][p].activation = a
      <4>1. m \in DOMAIN messages
        BY <3>1, ActivationIds DEF IInv, EmptyRows
      <4>2. deliveries[m][p].state = "claimed"
        BY <1>2, <3>1, <4>1 DEF Obsolete
      <4> QED BY <4>2 DEF Occupies
    <3>2. CASE deliveries[m][p].activation # a
      <4>1. deliveries'[m][p] = deliveries[m][p]
        BY <1>2, <3>2 DEF AutoDispatch
      <4> QED BY <2>1, <4>1
    <3> QED BY <3>1, <3>2
  <2>2. activations' = [activations EXCEPT ![a].state = "dispatched"] /\ UNCHANGED aged
    BY <1>2 DEF AutoDispatch
  <2>3. activations[a].state # "cancelled"
    BY DEF AutoDispatch
  <2> QED BY <2>1, <2>2, <2>3, MovedRunNoCharge DEF NoFuller, IInv
<1> QED BY <1>1, <1>2

\* A finish takes no place and charges nothing.
LEMMA FinishQuiet ==
    ASSUME IInv, NEW w \in actors, NEW a \in DOMAIN activations,
           NEW complete \in BOOLEAN, NEW E, AutoFinish(w, a, complete, E)
    PROVE  NoFuller /\ NoCharge
<1>1. ASSUME NEW m \in MsgIds, NEW p \in Participants, Occupies(deliveries'[m][p])
      PROVE  Occupies(deliveries[m][p])
  <2> DEFINE r == RecordedBy(a, E)[m][p]
             e == [r EXCEPT !.state = "uncertain"]
  <2>1. deliveries'[m][p] = IF r.activation = a /\ InFlight(r) THEN e ELSE r
    BY DEF AutoFinish
  <2>2. Occupies(r) => Occupies(deliveries[m][p])
    BY RecordedByQuiet
  <2> HIDE DEF r, e
  <2> QED BY <1>1, <2>1, <2>2 DEF Occupies, InFlight
<1>2. \E s : activations' = [activations EXCEPT ![a].state = s]
  BY DEF AutoFinish
<1>3. activations[a].state # "cancelled" /\ UNCHANGED aged
  BY DEF AutoFinish
<1> QED BY <1>1, <1>2, <1>3, MovedRunNoCharge DEF NoFuller, IInv

\* A reservation charges one activation, and there was room for it.
LEMMA ReserveKeepsLimits ==
    ASSUME LInv, NEW w \in actors, AutoReserve(w)
    PROVE  LInv'
<1> DEFINE a == Len(activations) + 1
           act == [participant |-> w.participant, session |-> w.session,
                   generation |-> w.generation, state |-> "reserved"]
<1>1. IInv'
  BY ReserveKeepsIInv DEF LInv
<1>2. activations' = Append(activations, act) /\ UNCHANGED aged
  BY DEF AutoReserve
<1> HIDE DEF act
<1>3. /\ DOMAIN activations' \subseteq DOMAIN activations \cup {a}
      /\ \A b \in DOMAIN activations : activations'[b] = activations[b]
  BY <1>2 DEF LInv, IInv, TypeOK
<1> HIDE DEF a
<1>4. BudgetNeverExceeded'
  <2>1. Charged' \subseteq Charged \cup {a}
    BY <1>2, <1>3 DEF Charged
  <2>2. /\ IsFiniteSet(Charged \cup {a})
        /\ Cardinality(Charged \cup {a}) <= Cardinality(Charged) + 1
        /\ Cardinality(Charged) \in Nat
    <3>1. IsFiniteSet(Charged) /\ Cardinality(Charged) \in Nat
      BY ChargedFinite DEF LInv, IInv
    <3>2. /\ IsFiniteSet(Charged \cup {a})
          /\ Cardinality(Charged \cup {a}) =
                IF a \in Charged THEN Cardinality(Charged) ELSE Cardinality(Charged) + 1
      BY <3>1, FS_AddElement
    <3> QED BY <3>1, <3>2
  <2>3. IsFiniteSet(Charged') /\ Cardinality(Charged') <= Cardinality(Charged \cup {a})
    BY <2>1, <2>2, FS_Subset
  <2>4. Cardinality(Charged) < WakeLimit
    BY ChargedFinite DEF AutoReserve, Reservable, LInv, IInv
  <2>5. Cardinality(Charged') \in Nat /\ Cardinality(Charged \cup {a}) \in Nat
    BY <2>2, <2>3, FS_CardinalityType
  <2>6. RoomUsed' = Cardinality(Charged')
    BY DEF RoomUsed, Charged
  <2> QED BY <2>2, <2>3, <2>4, <2>5, <2>6, BoundsAssumption DEF BudgetNeverExceeded
<1>5. ASSUME NEW m \in MsgIds, NEW p \in Participants,
             Occupies(deliveries'[m][p])
      PROVE  Occupies(deliveries[m][p])
  <2>1. CASE m \in Batch(w.participant) /\ p = w.participant
    <3>1. deliveries[m][p].state = "pending"
      BY <2>1 DEF Batch, Candidates
    <3> QED BY <3>1 DEF Occupies
  <2>2. CASE ~(m \in Batch(w.participant) /\ p = w.participant)
    <3>1. deliveries'[m][p] = deliveries[m][p]
      BY <2>2, Zenon DEF AutoReserve
    <3> QED BY <1>5, <3>1
  <2> QED BY <2>1, <2>2
<1>6. QueueBounded'
  <2>1. \A m \in MsgIds, p \in Participants : <<m, p>> \notin {} /\
            Occupies(deliveries'[m][p]) => Occupies(deliveries[m][p])
    BY <1>5
  <2>2. {} \in SUBSET (MsgIds \X Participants)
    OBVIOUS
  <2>3. HasCapacity(Cardinality({}))
    BY FS_EmptySet, OccupyingFinite DEF LInv, QueueBounded, HasCapacity
  <2> QED BY <2>1, <2>2, <2>3, RoomForThem
<1> QED BY <1>1, <1>4, <1>6 DEF LInv

\* Of the steps of the ledger only a reservation charges, after a check.
LEMMA AutomationKeepsLimits == LInv /\ Automation => LInv'
<1> SUFFICES ASSUME LInv, Automation PROVE LInv'
  OBVIOUS
<1>0. IInv'
  BY AutomationKeepsIInv DEF LInv
<1>1. deliveries \in [MsgIds -> [Participants -> Delivery]]
  BY DEF LInv, IInv, TypeOK
<1>2. ASSUME NEW w \in actors, NEW a \in DOMAIN activations, AutoCancel(w, a)
      PROVE  NoFuller /\ NoCharge
  BY <1>1, <1>2, RefundQuiet DEF AutoCancel, LInv
<1>3. ASSUME NEW w \in actors, NEW a \in DOMAIN activations, NEW E, AutoReconcile(w, a, E)
      PROVE  NoFuller /\ NoCharge
  <2> DEFINE ds == RecordedBy(a, E)
  <2>1. ds \in [MsgIds -> [Participants -> Delivery]]
    BY RecordedByTyped DEF LInv, IInv
  <2>2. \A m \in MsgIds, p \in Participants :
            Occupies(ds[m][p]) => Occupies(deliveries[m][p])
    BY RecordedByQuiet DEF LInv
  <2>3. Refund(ds, a)
    BY <1>3 DEF AutoReconcile
  <2> HIDE DEF ds
  <2> QED BY <2>1, <2>2, <2>3, RefundQuiet DEF LInv
<1>4. ASSUME WindowSlides PROVE NoFuller /\ NoCharge
  <2>1. UNCHANGED <<deliveries, activations>> /\ aged' = aged + 1
    BY <1>4 DEF WindowSlides, mailVars
  <2> QED BY <2>1 DEF NoFuller, NoCharge, LInv, IInv, TypeOK
<1>5. CASE NoFuller /\ NoCharge
  BY <1>0, <1>5, QuietStep
<1> QED BY <1>2, <1>3, <1>4, <1>5, DispatchQuiet, FinishQuiet, ReserveKeepsLimits
        DEF Automation, LInv

(***************************************************************************)
(* The theorems                                                            *)
(***************************************************************************)
\* The initial state satisfies the invariant.
LEMMA InitLInv == Init => LInv
<1> SUFFICES ASSUME Init PROVE LInv
  OBVIOUS
<1>1. Occupying = {}
  BY DEF Init, Occupying, Absent
<1>2. Charged = {} /\ RoomUsed = Cardinality(Charged)
  BY DEF Init, Charged, RoomUsed
<1> QED BY <1>1, <1>2, InitIInv, FS_EmptySet, BoundsAssumption
        DEF LInv, QueueBounded, BudgetNeverExceeded

\* Every step keeps both limits.
LEMMA StepKeepsLimits == LInv /\ [Next]_vars => LInv'
<1>1. ASSUME LInv, UNCHANGED vars PROVE LInv'
  <2>1. NoFuller /\ NoCharge
    BY <1>1, SameRowsQuiet DEF vars, LInv, IInv
  <2>2. IInv'
    BY <1>1, StepKeepsIInv DEF LInv
  <2> QED BY <1>1, <2>1, <2>2, QuietStep
<1> QED BY <1>1, MembershipKeepsLimits, MailKeepsLimits, AutomationKeepsLimits DEF Next

\* Both limits hold in every reachable state (store.ts: the capacity checks;
\* automation-store.ts: the room budget).
THEOREM LimitInvariance == Spec => []LInv
BY StepKeepsLimits, InitLInv, PTL DEF Spec

\* Accepted work never exceeds the bounded queue, for every limit, whatever is
\* retried, refunded, redirected or reported late.
THEOREM QueueNeverOverflows == Spec => []QueueBounded
<1>1. LInv => QueueBounded
  BY DEF LInv
<1> QED BY <1>1, LimitInvariance, PTL

\* The room never spends more than its wake budget in the rolling window.
THEOREM BudgetIsKept == Spec => []BudgetNeverExceeded
<1>1. LInv => BudgetNeverExceeded
  BY DEF LInv
<1> QED BY <1>1, LimitInvariance, PTL

(***************************************************************************)
(* Requests, replies and offers.  Every step but a stored message and a    *)
(* redirect leaves the requests as they are.  A stored reply turns an open *)
(* request into an answered one in the step that wakes the requester; a    *)
(* redirect takes the waking reply from one member and hands it to one.    *)
(***************************************************************************)
\* What every step but a stored message and a redirect leaves of a request:
\* row d becomes e.
RequestKept(d, e) ==
    /\ e.obligation = "answered" => d.obligation = "answered"
    /\ d.obligation = "answered" => e.obligation = "answered"
    /\ d.obligation = "redirected" => e.obligation = "redirected"
    /\ e.obligation = "open" => d.obligation = "open"
    /\ e.wake => d.wake
    /\ e.state = "absent" => d.state = "absent"
    /\ d.state = "absent" =>
         e.state = "absent" /\ (d.activation = 0 => e.activation = 0)
                            /\ (d.obligation = "none" => e.obligation = "none")

\* Row d becomes e and is only offered while it is wanted, and only taken from
\* the mailbox then; before and after say whether its thread is open, again that
\* a human has just retried it.
OfferKept(d, e, before, after, again) ==
    /\ e.state = "pending" =>
        \/ again
        \/ e.obligation \in ActiveObligations /\ after
        \/ d.state = "pending" /\ e.obligation = d.obligation /\ (before => after)
    /\ d.state = "pending" =>
        \/ d.obligation \in ActiveObligations /\ before
        \/ e.state \in {"pending", "cancelled"}

RequestsKept ==
    /\ UNCHANGED messages
    /\ \A m \in MsgIds, p \in Participants : RequestKept(deliveries[m][p], deliveries'[m][p])
OffersKept ==
    \A m \in DOMAIN messages, p \in Participants :
        OfferKept(deliveries[m][p], deliveries'[m][p], ThreadOpen(m), ThreadOpen(m)',
                  Retry(m, p))

\* A member the message was not sent to has an empty row.
AbsentRows ==
    \A m \in MsgIds, p \in Participants :
        deliveries[m][p].state = "absent" =>
            /\ deliveries[m][p].activation = 0 /\ deliveries[m][p].obligation = "none"
            /\ ~deliveries[m][p].wake

\* A message refers to one sent before it, a reply always to one.
RefersBack ==
    \A m \in DOMAIN messages :
        messages[m].replyTo < m /\ (messages[m].type = "reply" => messages[m].replyTo # 0)

RInv ==
    /\ IInv /\ AbsentRows /\ RefersBack
    /\ AnswersShown /\ RepliesClose /\ RepliesDoNotPingPong

\* A row that stays what it is.
LEMMA SameRequest ==
    ASSUME NEW d, NEW before, NEW again
    PROVE  RequestKept(d, d) /\ OfferKept(d, d, before, before, again)
  BY DEF RequestKept, OfferKept

\* A row that was sent moves within its states, its request untouched.
LEMMA MovedRequest ==
    ASSUME NEW d, NEW e, NEW before, NEW after, NEW again,
           e.obligation = d.obligation, e.wake => d.wake,
           d.state # "absent", e.state # "absent",
           e.state = "pending" => again \/ (d.obligation \in ActiveObligations /\ after),
           d.state = "pending" => d.obligation \in ActiveObligations /\ before
    PROVE  RequestKept(d, e) /\ OfferKept(d, e, before, after, again)
  BY DEF RequestKept, OfferKept

\* A step that leaves the rows, the messages and the threads alone.
LEMMA SameRequests ==
    ASSUME UNCHANGED <<threads, messages, deliveries>> PROVE RequestsKept /\ OffersKept
<1>1. \A m : ThreadOpen(m)' = ThreadOpen(m)
  BY DEF ThreadOpen
<1> QED BY <1>1, SameRequest DEF RequestsKept, OffersKept

\* One row changes.
LEMMA SetDeliveryRequests ==
    ASSUME IInv, NEW m \in DOMAIN messages, NEW p \in Participants, NEW d,
           SetDelivery(m, p, d), RequestKept(deliveries[m][p], d),
           OfferKept(deliveries[m][p], d, ThreadOpen(m), ThreadOpen(m), Retry(m, p))
    PROVE  RequestsKept /\ OffersKept
<1>1. m \in MsgIds /\ deliveries \in [MsgIds -> [Participants -> Delivery]]
  BY MessageIds DEF IInv, TypeOK
<1>2. \A n \in MsgIds, r \in Participants :
        deliveries'[n][r] = IF n = m /\ r = p THEN d ELSE deliveries[n][r]
  BY <1>1 DEF SetDelivery
<1>3. UNCHANGED <<threads, messages>>
  BY DEF SetDelivery
<1>4. \A n : ThreadOpen(n)' = ThreadOpen(n)
  BY <1>3 DEF ThreadOpen
<1>5. RequestsKept
  BY <1>2, <1>3, SameRequest DEF RequestsKept
<1>6. OffersKept
  BY <1>2, <1>4, SameRequest, MessageIds DEF OffersKept, IInv
<1> QED BY <1>5, <1>6

(***************************************************************************)
(* Connections that end                                                    *)
(***************************************************************************)
\* A connection that ends leaves requests alone and offers nothing.
LEMMA SeverRequests ==
    ASSUME IInv, NEW P, Sever(P) PROVE RequestsKept /\ OffersKept
<1>1. UNCHANGED <<threads, messages>>
  BY DEF Sever
<1>2. \A m : ThreadOpen(m)' = ThreadOpen(m)
  BY <1>1 DEF ThreadOpen
<1>3. ASSUME NEW m \in MsgIds, NEW p \in Participants
      PROVE  /\ RequestKept(deliveries[m][p], deliveries'[m][p])
             /\ OfferKept(deliveries[m][p], deliveries'[m][p], ThreadOpen(m), ThreadOpen(m),
                          Retry(m, p))
  <2> DEFINE d == deliveries[m][p]
             e == [d EXCEPT !.state = "uncertain"]
  <2>1. deliveries'[m][p] = d \/ (deliveries'[m][p] = e /\ InFlight(d))
    BY DEF Sever, DeliveriesLeftUncertain
  <2>2. d \in Delivery
    BY RowTyped DEF IInv
  <2>3. e.state = "uncertain" /\ e.obligation = d.obligation
    BY <2>2 DEF Delivery
  <2>4. e.wake => d.wake
    BY <2>2 DEF Delivery
  <2> HIDE DEF d, e
  <2>5. CASE deliveries'[m][p] = d
    BY <2>5, SameRequest DEF d
  <2>6. CASE deliveries'[m][p] = e /\ InFlight(d)
    BY <2>3, <2>4, <2>6, MovedRequest DEF d, InFlight
  <2> QED BY <2>1, <2>5, <2>6
<1> QED BY <1>1, <1>2, <1>3, MessageIds DEF RequestsKept, OffersKept, IInv

\* Membership and connection steps leave requests and offers alone.
LEMMA MembershipRequests == IInv /\ Membership => RequestsKept /\ OffersKept
<1> SUFFICES ASSUME IInv, Membership PROVE RequestsKept /\ OffersKept
  OBVIOUS
<1>1. (\E P : Sever(P)) \/ UNCHANGED <<threads, messages, deliveries>>
  BY DEF Membership, Join, Rejoin, Connect, Disconnect, LeaseLapse, Expire,
         BrokerRestart, Leave, Pause, PauseRoom, mailVars, wakeVars
<1> QED BY <1>1, SeverRequests, SameRequests

(***************************************************************************)
(* Automatic activations                                                   *)
(***************************************************************************)
\* A refund offers a message again only while it is wanted.
LEMMA RefundRequests ==
    ASSUME IInv, AbsentRows, NEW ds \in [MsgIds -> [Participants -> Delivery]],
           NEW a \in DOMAIN activations, Refund(ds, a),
           \A m \in MsgIds, p \in Participants :
                \/ ds[m][p] = deliveries[m][p]
                \/ /\ deliveries[m][p].activation = a
                   /\ ds[m][p] = [deliveries[m][p] EXCEPT !.state = "recorded"]
    PROVE  RequestsKept /\ OffersKept
<1>1. UNCHANGED <<threads, messages>>
  BY DEF Refund
<1>2. \A m : ThreadOpen(m)' = ThreadOpen(m)
  BY <1>1 DEF ThreadOpen
<1>3. ASSUME NEW m \in MsgIds, NEW p \in Participants
      PROVE  /\ RequestKept(deliveries[m][p], deliveries'[m][p])
             /\ OfferKept(deliveries[m][p], deliveries'[m][p], ThreadOpen(m), ThreadOpen(m),
                          Retry(m, p))
  <2> DEFINE d == deliveries[m][p]
             r == ds[m][p]
             e == [r EXCEPT !.state = IF r.obligation \in ActiveObligations /\ ThreadOpen(m)
                                      THEN "pending" ELSE "cancelled",
                            !.activation = 0, !.session = NoSession, !.generation = 0]
  <2>1. deliveries'[m][p] = r \/ (deliveries'[m][p] = e /\ InFlight(r))
    BY Zenon DEF Refund
  <2>2. d \in Delivery /\ r \in Delivery
    BY RowTyped DEF IInv
  <2>3. /\ e.state = "pending" => r.obligation \in ActiveObligations /\ ThreadOpen(m)
        /\ e.state # "absent" /\ e.obligation = r.obligation
    BY <2>2 DEF Delivery
  <2>4. e.wake => r.wake
    BY <2>2 DEF Delivery
  <2>5. a # 0
    BY ActivationIds DEF IInv
  <2>6. r = d \/ (d.activation = a /\ r = [d EXCEPT !.state = "recorded"])
    OBVIOUS
  <2> HIDE DEF r, e, d
  <2>7. r.obligation = d.obligation /\ (r.wake => d.wake)
    BY <2>2, <2>6 DEF Delivery
  <2>8. r = d \/ (r.state = "recorded" /\ d.state \notin {"absent", "pending"})
    BY <2>2, <2>5, <2>6 DEF Delivery, AbsentRows, IInv, ClaimsHaveLiveActivation, d
  <2>9. CASE r = d /\ deliveries'[m][p] = r
    BY <2>9, SameRequest DEF d
  <2>10. CASE r # d /\ deliveries'[m][p] = r
    BY <2>7, <2>8, <2>10, MovedRequest DEF d
  <2>11. CASE deliveries'[m][p] = e /\ InFlight(r)
    <3>1. d.state \notin {"absent", "pending"}
      BY <2>8, <2>11 DEF InFlight
    <3> QED BY <2>3, <2>4, <2>7, <2>11, <3>1, MovedRequest DEF d
  <2> QED BY <2>1, <2>9, <2>10, <2>11
<1> QED BY <1>1, <1>2, <1>3, MessageIds DEF RequestsKept, OffersKept, IInv

\* Evidence touches the state of rows of the run only.
LEMMA RecordedRow ==
    ASSUME TypeOK, NEW a, NEW E, NEW m \in MsgIds, NEW p \in Participants
    PROVE  \/ RecordedBy(a, E)[m][p] = deliveries[m][p]
           \/ /\ deliveries[m][p].activation = a
              /\ RecordedBy(a, E)[m][p] = [deliveries[m][p] EXCEPT !.state = "recorded"]
  BY DEF RecordedBy

\* A dispatch queues rows that were sent.
LEMMA DispatchRequests ==
    ASSUME IInv, AbsentRows, NEW w \in actors, NEW a \in DOMAIN activations,
           AutoDispatch(w, a)
    PROVE  RequestsKept /\ OffersKept
<1>1. CASE PausedFor(w.participant) \/ Obsolete(a)
  <2>1. deliveries \in [MsgIds -> [Participants -> Delivery]]
    BY DEF IInv, TypeOK
  <2> QED BY <1>1, <2>1, RefundRequests DEF AutoDispatch
<1>2. CASE ~(PausedFor(w.participant) \/ Obsolete(a))
  <2>1. UNCHANGED <<threads, messages>>
    BY <1>2 DEF AutoDispatch
  <2>2. \A m : ThreadOpen(m)' = ThreadOpen(m)
    BY <2>1 DEF ThreadOpen
  <2>3. ASSUME NEW m \in MsgIds, NEW p \in Participants
        PROVE  /\ RequestKept(deliveries[m][p], deliveries'[m][p])
               /\ OfferKept(deliveries[m][p], deliveries'[m][p], ThreadOpen(m),
                            ThreadOpen(m), Retry(m, p))
    <3> DEFINE d == deliveries[m][p]
               e == [d EXCEPT !.state = "queued"]
    <3>1. deliveries'[m][p] = d \/ (deliveries'[m][p] = e /\ d.activation = a)
      BY <1>2 DEF AutoDispatch
    <3>2. d \in Delivery
      BY RowTyped DEF IInv
    <3>3. e.state = "queued" /\ e.obligation = d.obligation
      BY <3>2 DEF Delivery
    <3>4. e.wake => d.wake
      BY <3>2 DEF Delivery
    <3>5. d.activation = a => d.state \notin {"absent", "pending"}
      BY ActivationIds DEF IInv, AbsentRows, ClaimsHaveLiveActivation
    <3> HIDE DEF d, e
    <3>6. CASE deliveries'[m][p] = d
      BY <3>6, SameRequest DEF d
    <3>7. CASE deliveries'[m][p] = e /\ d.activation = a
      BY <3>3, <3>4, <3>5, <3>7, MovedRequest DEF d
    <3> QED BY <3>1, <3>6, <3>7
  <2> QED BY <2>1, <2>2, <2>3, MessageIds DEF RequestsKept, OffersKept, IInv
<1> QED BY <1>1, <1>2

\* A finish moves rows that were sent, and offers none.
LEMMA FinishRequests ==
    ASSUME IInv, AbsentRows, NEW w \in actors, NEW a \in DOMAIN activations,
           NEW complete \in BOOLEAN, NEW E, AutoFinish(w, a, complete, E)
    PROVE  RequestsKept /\ OffersKept
<1>1. UNCHANGED <<threads, messages>>
  BY DEF AutoFinish
<1>2. \A m : ThreadOpen(m)' = ThreadOpen(m)
  BY <1>1 DEF ThreadOpen
<1>3. ASSUME NEW m \in MsgIds, NEW p \in Participants
      PROVE  /\ RequestKept(deliveries[m][p], deliveries'[m][p])
             /\ OfferKept(deliveries[m][p], deliveries'[m][p], ThreadOpen(m), ThreadOpen(m),
                          Retry(m, p))
  <2> DEFINE d == deliveries[m][p]
             r == RecordedBy(a, E)[m][p]
             e == [r EXCEPT !.state = "uncertain"]
  <2>1. deliveries'[m][p] = r \/ (deliveries'[m][p] = e /\ InFlight(r))
    BY DEF AutoFinish
  <2>2. d \in Delivery /\ r \in Delivery
    BY RowTyped, RecordedByTyped DEF IInv
  <2>3. e.state = "uncertain" /\ e.obligation = r.obligation
    BY <2>2 DEF Delivery
  <2>4. e.wake => r.wake
    BY <2>2 DEF Delivery
  <2>5. a # 0
    BY ActivationIds DEF IInv
  <2>6. r = d \/ (d.activation = a /\ r = [d EXCEPT !.state = "recorded"])
    BY RecordedRow DEF IInv
  <2> HIDE DEF r, e, d
  <2>7. r.obligation = d.obligation /\ (r.wake => d.wake)
    BY <2>2, <2>6 DEF Delivery
  <2>8. r = d \/ (r.state = "recorded" /\ d.state \notin {"absent", "pending"})
    BY <2>2, <2>5, <2>6 DEF Delivery, AbsentRows, IInv, ClaimsHaveLiveActivation, d
  <2>9. CASE r = d /\ deliveries'[m][p] = r
    BY <2>9, SameRequest DEF d
  <2>10. CASE r # d /\ deliveries'[m][p] = r
    BY <2>7, <2>8, <2>10, MovedRequest DEF d
  <2>11. CASE deliveries'[m][p] = e /\ InFlight(r)
    <3>1. d.state \notin {"absent", "pending"}
      BY <2>8, <2>11 DEF InFlight
    <3> QED BY <2>3, <2>4, <2>7, <2>11, <3>1, MovedRequest DEF d
  <2> QED BY <2>1, <2>9, <2>10, <2>11
<1> QED BY <1>1, <1>2, <1>3, MessageIds DEF RequestsKept, OffersKept, IInv

\* A reservation claims rows that were offered.
LEMMA ReserveRequests ==
    ASSUME IInv, NEW w \in actors, AutoReserve(w)
    PROVE  RequestsKept /\ OffersKept
<1>1. UNCHANGED <<threads, messages>>
  BY DEF AutoReserve
<1>2. \A m : ThreadOpen(m)' = ThreadOpen(m)
  BY <1>1 DEF ThreadOpen
<1>3. ASSUME NEW m \in MsgIds, NEW p \in Participants
      PROVE  /\ RequestKept(deliveries[m][p], deliveries'[m][p])
             /\ OfferKept(deliveries[m][p], deliveries'[m][p], ThreadOpen(m), ThreadOpen(m),
                          Retry(m, p))
  <2> DEFINE d == deliveries[m][p]
             e == [d EXCEPT !.state = "claimed", !.activation = Len(activations) + 1,
                            !.session = w.session, !.generation = w.generation]
  <2>1. \/ deliveries'[m][p] = d
        \/ deliveries'[m][p] = e /\ m \in Batch(w.participant) /\ p = w.participant
    BY Zenon DEF AutoReserve
  <2>2. d \in Delivery
    BY RowTyped DEF IInv
  <2>3. e.state = "claimed" /\ e.obligation = d.obligation
    BY <2>2 DEF Delivery
  <2>4. e.wake => d.wake
    BY <2>2 DEF Delivery
  <2>5. m \in Batch(w.participant) /\ p = w.participant =>
            d.state = "pending" /\ d.obligation \in ActiveObligations /\ ThreadOpen(m)
    BY DEF Batch, Candidates
  <2> HIDE DEF d, e
  <2>6. CASE deliveries'[m][p] = d
    BY <2>6, SameRequest DEF d
  <2>7. CASE /\ deliveries'[m][p] = e /\ d.state = "pending"
             /\ d.obligation \in ActiveObligations /\ ThreadOpen(m)
    BY <2>3, <2>4, <2>7, MovedRequest DEF d
  <2> QED BY <2>1, <2>5, <2>6, <2>7
<1> QED BY <1>1, <1>2, <1>3, MessageIds DEF RequestsKept, OffersKept, IInv

\* The steps of the ledger leave requests alone and offer only what is wanted.
LEMMA AutomationRequests == IInv /\ AbsentRows /\ Automation => RequestsKept /\ OffersKept
<1> SUFFICES ASSUME IInv, AbsentRows, Automation PROVE RequestsKept /\ OffersKept
  OBVIOUS
<1>1. deliveries \in [MsgIds -> [Participants -> Delivery]]
  BY DEF IInv, TypeOK
<1>2. ASSUME NEW w \in actors, NEW a \in DOMAIN activations, AutoCancel(w, a)
      PROVE  RequestsKept /\ OffersKept
  BY <1>1, <1>2, RefundRequests DEF AutoCancel
<1>3. ASSUME NEW w \in actors, NEW a \in DOMAIN activations, NEW E, AutoReconcile(w, a, E)
      PROVE  RequestsKept /\ OffersKept
  <2> DEFINE ds == RecordedBy(a, E)
  <2>1. ds \in [MsgIds -> [Participants -> Delivery]]
    BY RecordedByTyped DEF IInv
  <2>2. Refund(ds, a)
    BY <1>3 DEF AutoReconcile
  <2>3. \A m \in MsgIds, p \in Participants :
                \/ ds[m][p] = deliveries[m][p]
                \/ /\ deliveries[m][p].activation = a
                   /\ ds[m][p] = [deliveries[m][p] EXCEPT !.state = "recorded"]
    BY RecordedRow DEF IInv
  <2> HIDE DEF ds
  <2> QED BY <2>1, <2>2, <2>3, RefundRequests
<1>4. ASSUME WindowSlides PROVE RequestsKept /\ OffersKept
  BY <1>4, SameRequests DEF WindowSlides, mailVars
<1> QED BY <1>2, <1>3, <1>4, DispatchRequests, FinishRequests, ReserveRequests
        DEF Automation

(***************************************************************************)
(* Messages and the human's control                                        *)
(***************************************************************************)
\* A row that is withdrawn is no longer offered; only a redirect marks it so.
LEMMA WithdrawnRequest ==
    ASSUME IInv, NEW m \in DOMAIN messages, NEW p \in Participants,
           NEW o, Present(m, p), deliveries[m][p].obligation \in ActiveObligations,
           o \notin {"answered", "open"}, NEW before, NEW again
    PROVE  /\ RequestKept(deliveries[m][p], Withdraw(m, p, o))
           /\ OfferKept(deliveries[m][p], Withdraw(m, p, o), before, before, again)
<1> DEFINE d == deliveries[m][p]
           e == Withdraw(m, p, o)
<1>1. d \in Delivery
  BY MessageIds, RowTyped DEF IInv
<1>2. /\ e.obligation = o /\ e.state \in {"recorded", "cancelled"}
      /\ e.state = "recorded" => d.state = "recorded"
  BY <1>1 DEF Withdraw, Delivery
<1>3. e.wake => d.wake
  BY <1>1 DEF Withdraw, Delivery
<1>4. d.state # "absent" /\ d.obligation \in ActiveObligations
  BY DEF Present
<1> HIDE DEF d, e
<1>5. RequestKept(d, e) /\ OfferKept(d, e, before, before, again)
  BY <1>2, <1>3, <1>4 DEF RequestKept, OfferKept, ActiveObligations
<1> QED BY <1>5 DEF d, e

\* Resolving a thread takes back what it still offered.
LEMMA ResolveRequests ==
    ASSUME IInv, NEW t, Resolve(t) PROVE RequestsKept /\ OffersKept
<1>1. UNCHANGED messages /\ threads' = [threads EXCEPT ![t] = "resolved"]
  BY DEF Resolve
<1>2. ASSUME NEW m \in MsgIds, NEW p \in Participants
      PROVE  /\ RequestKept(deliveries[m][p], deliveries'[m][p])
             /\ m \in DOMAIN messages =>
                OfferKept(deliveries[m][p], deliveries'[m][p], ThreadOpen(m), ThreadOpen(m)',
                          Retry(m, p))
  <2> DEFINE d == deliveries[m][p]
             closed == [d EXCEPT !.obligation = IF @ = "open" THEN "resolved" ELSE @,
                                 !.state = IF @ = "pending" THEN "cancelled" ELSE @]
             mine == m \in DOMAIN messages /\ messages[m].thread = t
  <2>1. deliveries'[m][p] = IF mine THEN closed ELSE d
    BY DEF Resolve
  <2>2. d \in Delivery
    BY RowTyped DEF IInv
  <2>3. /\ closed.obligation = IF d.obligation = "open" THEN "resolved" ELSE d.obligation
        /\ closed.state = IF d.state = "pending" THEN "cancelled" ELSE d.state
        /\ closed.activation = d.activation
    BY <2>2 DEF Delivery
  <2>4. closed.wake => d.wake
    BY <2>2 DEF Delivery
  <2>5. m \in DOMAIN messages /\ ~mine => (ThreadOpen(m) => ThreadOpen(m)')
    <3> SUFFICES ASSUME m \in DOMAIN messages, ~mine, ThreadOpen(m) PROVE ThreadOpen(m)'
      OBVIOUS
    <3>1. messages[m] \in Message /\ threads \in [Threads -> {"absent", "open", "resolved"}]
      BY DEF IInv, TypeOK
    <3>2. messages[m].thread \in Threads
      BY <3>1 DEF Message
    <3> QED BY <1>1, <3>1, <3>2 DEF ThreadOpen
  <2> HIDE DEF d, closed, mine
  <2>6. RequestKept(d, closed)
    BY <2>3, <2>4 DEF RequestKept
  <2>7. ASSUME NEW before, NEW after, NEW again PROVE OfferKept(d, closed, before, after, again)
    BY <2>3 DEF OfferKept
  <2>8. ASSUME NEW before, NEW after, NEW again, before => after
        PROVE  RequestKept(d, d) /\ OfferKept(d, d, before, after, again)
    BY <2>8 DEF RequestKept, OfferKept
  <2>9. CASE mine
    BY <2>1, <2>6, <2>7, <2>9 DEF d
  <2>10. CASE ~mine
    <3>1. deliveries'[m][p] = d
      BY <2>1, <2>10
    <3>2. RequestKept(d, d)
      BY SameRequest
    <3> QED BY <2>5, <2>8, <2>10, <3>1, <3>2 DEF d
  <2> QED BY <2>9, <2>10
<1> QED BY <1>1, <1>2, MessageIds DEF RequestsKept, OffersKept, IInv

\* A manual attempt that moves on.
LEMMA MoveRequests ==
    ASSUME IInv, NEW w \in actors, NEW m \in DOMAIN messages,
           NEW s \in {"queued", "recorded", "uncertain"}, MoveTo(w, m, s), Attempted(w, m)
    PROVE  RequestsKept /\ OffersKept
<1> DEFINE p == w.participant
           d == deliveries[m][p]
           e == [d EXCEPT !.state = s]
<1>1. p \in Participants /\ d \in Delivery
  BY MessageIds, RowTyped DEF IInv, TypeOK, WorkerActor
<1>2. e.state = s /\ e.obligation = d.obligation
  BY <1>1 DEF Delivery
<1>3. e.wake => d.wake
  BY <1>1 DEF Delivery
<1>4. d.state \notin {"absent", "pending"}
  BY DEF Attempted
<1>5. SetDelivery(m, p, e)
  BY DEF MoveTo
<1> HIDE DEF p, d, e
<1>6. /\ RequestKept(d, e)
      /\ OfferKept(d, e, ThreadOpen(m), ThreadOpen(m), Retry(m, p))
  BY <1>2, <1>3, <1>4, MovedRequest
<1> QED BY <1>1, <1>5, <1>6, SetDeliveryRequests DEF d

\* A human's retry, which alone may offer what is obsolete.
LEMMA RetryRequests ==
    ASSUME IInv, NEW m \in DOMAIN messages, NEW p \in Participants, Retry(m, p)
    PROVE  RequestsKept /\ OffersKept
<1> DEFINE d == deliveries[m][p]
           e == [d EXCEPT !.state = "pending", !.activation = 0]
<1>1. d \in Delivery
  BY MessageIds, RowTyped DEF IInv
<1>2. e.state = "pending" /\ e.obligation = d.obligation
  BY <1>1 DEF Delivery
<1>3. e.wake => d.wake
  BY <1>1 DEF Delivery
<1>4. SetDelivery(m, p, e) /\ d.state = "uncertain"
  BY DEF Retry
<1> HIDE DEF d, e
<1>5. /\ RequestKept(d, e)
      /\ OfferKept(d, e, ThreadOpen(m), ThreadOpen(m), Retry(m, p))
  BY <1>2, <1>3, <1>4, MovedRequest
<1> QED BY <1>4, <1>5, SetDeliveryRequests DEF d

\* A claim takes a row that was offered.
LEMMA ClaimRequests ==
    ASSUME IInv, NEW w \in actors, NEW m \in DOMAIN messages, Claim(w, m)
    PROVE  RequestsKept /\ OffersKept
<1> DEFINE p == w.participant
           d == deliveries[m][p]
           e == [d EXCEPT !.state = "claimed", !.session = w.session,
                          !.generation = w.generation]
<1>1. p \in Participants /\ m \in MsgIds /\ d \in Delivery
  BY MessageIds, RowTyped DEF IInv, TypeOK, WorkerActor
<1>2. e.state = "claimed" /\ e.obligation = d.obligation
  BY <1>1 DEF Delivery
<1>3. e.wake => d.wake
  BY <1>1 DEF Delivery
<1>4. /\ SetDelivery(m, p, e) /\ d.state = "pending"
      /\ d.obligation \in ActiveObligations /\ ThreadOpen(m)
  BY DEF Claim
<1> HIDE DEF p, d, e
<1>5. /\ RequestKept(d, e)
      /\ OfferKept(d, e, ThreadOpen(m), ThreadOpen(m), Retry(m, p))
  BY <1>2, <1>3, <1>4, MovedRequest
<1> QED BY <1>1, <1>4, <1>5, SetDeliveryRequests DEF d

\* A human's cancellation.
LEMMA CancelRequests ==
    ASSUME IInv, NEW m \in DOMAIN messages, NEW p \in Participants, Cancel(m, p)
    PROVE  RequestsKept /\ OffersKept
<1>1. PICK o \in {"none", "cancelled"} : SetDelivery(m, p, Withdraw(m, p, o))
  BY DEF Cancel
<1>2. Present(m, p) /\ deliveries[m][p].obligation \in ActiveObligations
  BY DEF Cancel
<1>3. /\ RequestKept(deliveries[m][p], Withdraw(m, p, o))
      /\ OfferKept(deliveries[m][p], Withdraw(m, p, o), ThreadOpen(m), ThreadOpen(m),
                   Retry(m, p))
  BY <1>2, WithdrawnRequest
<1> QED BY <1>1, <1>3, SetDeliveryRequests

\* A step of the mailbox is a stored message, a redirect, or leaves the
\* requests as they are.
LEMMA MailRequests ==
    ASSUME IInv, Mail
    PROVE  \/ RequestsKept /\ OffersKept
           \/ \E m \in DOMAIN messages, p \in Participants, next \in Participants :
                Redirect(m, p, next)
           \/ \E w \in actors, R \in SUBSET Participants, type \in MessageTypes,
                 t \in Threads, q \in 0..Len(messages), k \in Keys :
                   Send(w, R, type, t, q, k)
           \/ \E m \in DOMAIN messages, p \in Participants, k \in Keys : Answer(m, p, k)
<1>1. ASSUME NEW w \in actors, NEW m \in DOMAIN messages,
             \/ Queue(w, m) \/ Receipt(w, m) \/ Uncertain(w, m) \/ Reconcile(w, m)
      PROVE  RequestsKept /\ OffersKept
  BY <1>1, MoveRequests DEF Queue, Receipt, Uncertain, Reconcile, CurrentAttempt
<1> QED BY <1>1, RetryRequests, CancelRequests, ClaimRequests, ResolveRequests DEF Mail

(***************************************************************************)
(* Answers and the replies that wake                                       *)
(***************************************************************************)
\* The recipients whose request q was answered.
Answerers(q) == {p \in Participants : deliveries[q][p].obligation = "answered"}

\* Waking replies and answered requests can be counted.
LEMMA RepliesFinite ==
    ASSUME TypeOK, NEW q
    PROVE  /\ IsFiniteSet(WakingReplies(q)) /\ Cardinality(WakingReplies(q)) \in Nat
           /\ IsFiniteSet(Answerers(q)) /\ Cardinality(Answerers(q)) \in Nat
<1>1. WakingReplies(q) \subseteq MsgIds \X Participants
  BY MessageIds DEF WakingReplies
<1>2. Answerers(q) \subseteq Participants
  BY DEF Answerers
<1> QED BY <1>1, <1>2, OccupyingFinite, FinitenessAssumption, FS_Subset, FS_CardinalityType

\* A row that was sent stays sent, and replies are only ever added.
LEMMA AnswersKept ==
    ASSUME TypeOK, AnswersShown, DOMAIN messages \subseteq DOMAIN messages',
           \A m \in DOMAIN messages : messages'[m] = messages[m],
           \A m \in DOMAIN messages, p \in Participants :
                deliveries'[m][p].state = "absent" => deliveries[m][p].state = "absent",
           NEW q \in DOMAIN messages, NEW p \in Participants,
           deliveries[q][p].obligation = "answered"
    PROVE  \E m \in DOMAIN messages' :
                /\ messages'[m].replyTo = q /\ messages'[m].type = "reply"
                /\ IF messages'[m].human THEN Present(m, p)'
                   ELSE messages'[m].sender = p
<1>1. PICK m \in DOMAIN messages :
        /\ messages[m].replyTo = q /\ messages[m].type = "reply"
        /\ IF messages[m].human THEN Present(m, p) ELSE messages[m].sender = p
  BY DEF AnswersShown
<1>2. m \in DOMAIN messages' /\ messages'[m] = messages[m]
  OBVIOUS
<1>3. Present(m, p) => Present(m, p)'
  BY DEF Present
<1> QED BY <1>1, <1>2, <1>3

\* A member's reply refers to a row that was sent to it and is not open.
LEMMA RepliedRow ==
    ASSUME RInv, NEW m \in DOMAIN messages, messages[m].type = "reply", ~messages[m].human
    PROVE  /\ messages[m].replyTo \in MsgIds /\ messages[m].sender \in Participants
           /\ deliveries[messages[m].replyTo][messages[m].sender].state # "absent"
           /\ deliveries[messages[m].replyTo][messages[m].sender].obligation # "open"
<1>1. /\ deliveries[messages[m].replyTo][messages[m].sender].state # "absent"
      /\ deliveries[messages[m].replyTo][messages[m].sender].obligation # "open"
  BY DEF RInv, RepliesClose
<1>2. messages[m] \in Message
  BY DEF RInv, IInv, TypeOK
<1>3. messages[m].sender \in Participants /\ messages[m].replyTo \in 0..MaxMessages
  BY <1>2 DEF Message
<1>4. messages[m].replyTo # 0
  BY DEF RInv, RefersBack
<1> QED BY <1>1, <1>3, <1>4, BoundsAssumption DEF MsgIds

\* A step that leaves the requests alone keeps what is said of replies.
LEMMA KeptRequests ==
    ASSUME RInv, IInv', RequestsKept PROVE RInv'
<1> USE DEF RequestsKept, RequestKept
<1>0. DOMAIN messages \subseteq MsgIds
  BY MessageIds DEF RInv, IInv
<1>1. AbsentRows' /\ RefersBack'
  BY DEF RInv, AbsentRows, RefersBack
<1>2. AnswersShown'
  <2> SUFFICES ASSUME NEW q \in DOMAIN messages', NEW p \in Participants,
                      deliveries'[q][p].obligation = "answered"
               PROVE  \E m \in DOMAIN messages' :
                        /\ messages'[m].replyTo = q /\ messages'[m].type = "reply"
                        /\ IF messages'[m].human THEN Present(m, p)'
                           ELSE messages'[m].sender = p
    BY DEF AnswersShown
  <2>1. q \in DOMAIN messages /\ q \in MsgIds
    BY <1>0
  <2>2. deliveries[q][p].obligation = "answered"
    BY <2>1
  <2>3. \A m \in DOMAIN messages, r \in Participants :
            deliveries'[m][r].state = "absent" => deliveries[m][r].state = "absent"
    BY <1>0
  <2>4. TypeOK /\ AnswersShown
    BY DEF RInv, IInv
  <2> QED BY <2>1, <2>2, <2>3, <2>4, AnswersKept
<1>4. RepliesClose'
  <2> SUFFICES ASSUME NEW m \in DOMAIN messages, messages[m].type = "reply",
                      ~messages[m].human
               PROVE  /\ deliveries'[messages[m].replyTo][messages[m].sender].state # "absent"
                      /\ deliveries'[messages[m].replyTo][messages[m].sender].obligation # "open"
    BY DEF RepliesClose
  <2> QED BY RepliedRow
<1>3. RepliesDoNotPingPong'
  <2> SUFFICES ASSUME NEW q \in DOMAIN messages
               PROVE  Cardinality(WakingReplies(q)') <= Cardinality(Answerers(q)')
    BY DEF RepliesDoNotPingPong, Answerers
  <2>1. WakingReplies(q)' \subseteq WakingReplies(q)
    BY <1>0 DEF WakingReplies
  <2>2. Answerers(q)' = Answerers(q)
    BY <1>0 DEF Answerers
  <2>3. Cardinality(WakingReplies(q)') <= Cardinality(WakingReplies(q))
    BY <2>1, RepliesFinite, FS_Subset DEF RInv, IInv
  <2>4. Cardinality(WakingReplies(q)') \in Nat
    BY <2>1, RepliesFinite, FS_Subset, FS_CardinalityType DEF RInv, IInv
  <2>5. Cardinality(WakingReplies(q)) <= Cardinality(Answerers(q))
    BY DEF RInv, RepliesDoNotPingPong, Answerers
  <2> QED BY <2>2, <2>3, <2>4, <2>5, RepliesFinite DEF RInv, IInv
<1> QED BY <1>1, <1>2, <1>3, <1>4 DEF RInv

\* A redirect hands one waking reply on and keeps no second one.
LEMMA RedirectRequests ==
    ASSUME RInv, IInv', NEW m \in DOMAIN messages, NEW p \in Participants,
           NEW next \in Participants, Redirect(m, p, next)
    PROVE  RInv' /\ OffersKept
<1> DEFINE d == deliveries[m][p]
           old == Withdraw(m, p, "redirected")
           new == [Absent EXCEPT !.state = "pending", !.obligation = d.obligation,
                                 !.wake = d.wake]
<1>0. m \in MsgIds /\ DOMAIN messages \subseteq MsgIds
  BY MessageIds DEF RInv, IInv
<1>1. d \in Delivery
  BY <1>0, RowTyped DEF RInv, IInv
<1>2. /\ UNCHANGED <<threads, messages>>
      /\ d.state # "absent" /\ d.obligation \in ActiveObligations
      /\ ThreadOpen(m) /\ next # p
      /\ deliveries[m][next].state = "absent"
      /\ deliveries' = [deliveries EXCEPT ![m] = [@ EXCEPT ![p] = old, ![next] = new]]
  BY DEF Redirect, Present
<1>3. /\ old.obligation = "redirected" /\ old.state \in {"recorded", "cancelled"}
  BY <1>1 DEF Withdraw, Delivery
<1>4. /\ new.obligation = d.obligation /\ new.state = "pending"
  BY DEF Absent
<1>5. new.wake => d.wake
  BY DEF Absent
<1>6. deliveries[m][next].obligation = "none" /\ ~deliveries[m][next].wake
  BY <1>0, <1>2 DEF RInv, AbsentRows
<1> HIDE DEF old, new
<1>7. \A n \in MsgIds, r \in Participants :
        deliveries'[n][r] = IF n = m /\ r = next THEN new
                            ELSE IF n = m /\ r = p THEN old
                            ELSE deliveries[n][r]
  BY <1>2, <1>0 DEF RInv, IInv, TypeOK
<1>8. \A n \in MsgIds, r \in Participants :
        <<n, r>> \notin {<<m, p>>, <<m, next>>} => deliveries'[n][r] = deliveries[n][r]
  BY <1>7
<1>9. deliveries'[m][p] = old /\ deliveries'[m][next] = new
  BY <1>0, <1>2, <1>7
<1>10. \A n \in MsgIds, r \in Participants :
        deliveries'[n][r].obligation = "answered" <=> deliveries[n][r].obligation = "answered"
  BY <1>2, <1>3, <1>4, <1>6, <1>7 DEF ActiveObligations
<1>11. \A n \in MsgIds, r \in Participants :
        deliveries'[n][r].state = "absent" => deliveries[n][r].state = "absent"
  BY <1>3, <1>4, <1>7
<1>12. AbsentRows'
  <2> SUFFICES ASSUME NEW n \in MsgIds, NEW r \in Participants,
                      deliveries'[n][r].state = "absent"
               PROVE  /\ deliveries'[n][r].activation = 0
                      /\ deliveries'[n][r].obligation = "none"
                      /\ ~deliveries'[n][r].wake
    BY DEF AbsentRows
  <2>1. deliveries'[n][r] = deliveries[n][r]
    BY <1>3, <1>4, <1>7
  <2> QED BY <2>1 DEF RInv, AbsentRows
<1>13. RefersBack'
  BY <1>2 DEF RInv, RefersBack
<1>14. AnswersShown'
  <2> SUFFICES ASSUME NEW q \in DOMAIN messages', NEW r \in Participants,
                      deliveries'[q][r].obligation = "answered"
               PROVE  \E n \in DOMAIN messages' :
                        /\ messages'[n].replyTo = q /\ messages'[n].type = "reply"
                        /\ IF messages'[n].human THEN Present(n, r)'
                           ELSE messages'[n].sender = r
    BY DEF AnswersShown
  <2>1. q \in DOMAIN messages /\ q \in MsgIds
    BY <1>0, <1>2
  <2>2. deliveries[q][r].obligation = "answered"
    BY <1>10, <2>1
  <2>3. \A n \in DOMAIN messages, s \in Participants :
            deliveries'[n][s].state = "absent" => deliveries[n][s].state = "absent"
    BY <1>0, <1>11
  <2>4. TypeOK /\ AnswersShown
    BY DEF RInv, IInv
  <2> QED BY <1>2, <2>1, <2>2, <2>3, <2>4, AnswersKept
<1>17. RepliesClose'
  <2> SUFFICES ASSUME NEW n \in DOMAIN messages, messages[n].type = "reply",
                      ~messages[n].human
               PROVE  /\ deliveries'[messages[n].replyTo][messages[n].sender].state # "absent"
                      /\ deliveries'[messages[n].replyTo][messages[n].sender].obligation # "open"
    BY <1>2 DEF RepliesClose
  <2> DEFINE q == messages[n].replyTo
             r == messages[n].sender
  <2>1. /\ q \in MsgIds /\ r \in Participants
        /\ deliveries[q][r].state # "absent" /\ deliveries[q][r].obligation # "open"
    BY RepliedRow
  <2> HIDE DEF q, r
  <2>2. ~(q = m /\ r = next)
    BY <1>2, <2>1
  <2>3. deliveries'[q][r] = old \/ deliveries'[q][r] = deliveries[q][r]
    BY <1>7, <2>1, <2>2
  <2>4. deliveries'[q][r].state # "absent" /\ deliveries'[q][r].obligation # "open"
    BY <1>3, <2>1, <2>3
  <2> QED BY <2>4 DEF q, r
<1>15. RepliesDoNotPingPong'
  <2> SUFFICES ASSUME NEW q \in DOMAIN messages
               PROVE  Cardinality(WakingReplies(q)') <= Cardinality(Answerers(q)')
    BY <1>2 DEF RepliesDoNotPingPong, Answerers
  <2>1. Answerers(q)' = Answerers(q)
    BY <1>0, <1>10 DEF Answerers
  <2>2. Cardinality(WakingReplies(q)) <= Cardinality(Answerers(q))
    BY DEF RInv, RepliesDoNotPingPong, Answerers
  <2> DEFINE W == WakingReplies(q)
             one == <<m, p>>
             other == <<m, next>>
  <2>3. IsFiniteSet(W) /\ Cardinality(W) \in Nat
    BY RepliesFinite DEF RInv, IInv
  <2>4. WakingReplies(q)' \subseteq (W \ {one}) \cup {other}
    <3> SUFFICES ASSUME NEW x \in WakingReplies(q)' PROVE x \in (W \ {one}) \cup {other}
      OBVIOUS
    <3>1. PICK n \in DOMAIN messages, r \in Participants : x = <<n, r>>
      BY <1>2 DEF WakingReplies
    <3>2. /\ messages[n].replyTo = q /\ messages[n].type = "reply"
          /\ deliveries'[n][r].wake /\ deliveries'[n][r].obligation # "redirected"
      BY <1>2, <3>1 DEF WakingReplies
    <3>3. x # one
      BY <1>3, <1>9, <3>1, <3>2
    <3>4. x # other => deliveries'[n][r] = deliveries[n][r]
      BY <1>0, <1>8, <3>1, <3>3
    <3> QED BY <3>1, <3>2, <3>3, <3>4 DEF WakingReplies
  <2>5. one \notin W => WakingReplies(q)' \subseteq W
    <3> SUFFICES ASSUME one \notin W PROVE other \notin WakingReplies(q)'
      BY <2>4
    <3> SUFFICES ASSUME other \in WakingReplies(q)' PROVE FALSE
      OBVIOUS
    <3>1. /\ messages[m].replyTo = q /\ messages[m].type = "reply"
          /\ deliveries'[m][next].wake
      BY <1>2 DEF WakingReplies
    <3>2. d.wake /\ d.obligation # "redirected"
      BY <1>2, <1>5, <1>9, <3>1 DEF ActiveObligations
    <3> QED BY <3>1, <3>2 DEF WakingReplies
  <2> HIDE DEF W, one, other
  <2>6. Cardinality(WakingReplies(q)') <= Cardinality(W)
    <3>1. CASE one \in W
      <4>1. IsFiniteSet(W \ {one}) /\ Cardinality(W \ {one}) = Cardinality(W) - 1
        BY <2>3, <3>1, FS_RemoveElement
      <4>2. /\ IsFiniteSet((W \ {one}) \cup {other})
            /\ Cardinality((W \ {one}) \cup {other}) <= Cardinality(W \ {one}) + 1
        <5>1. Cardinality(W \ {one}) \in Nat
          BY <4>1, FS_CardinalityType
        <5>2. /\ IsFiniteSet((W \ {one}) \cup {other})
              /\ Cardinality((W \ {one}) \cup {other}) =
                    IF other \in W \ {one} THEN Cardinality(W \ {one})
                    ELSE Cardinality(W \ {one}) + 1
          BY <4>1, FS_AddElement
        <5> QED BY <5>1, <5>2
      <4>3. /\ IsFiniteSet(WakingReplies(q)')
            /\ Cardinality(WakingReplies(q)') <= Cardinality((W \ {one}) \cup {other})
        BY <2>4, <4>2, FS_Subset
      <4>4. /\ Cardinality(WakingReplies(q)') \in Nat
            /\ Cardinality((W \ {one}) \cup {other}) \in Nat
        BY <4>2, <4>3, FS_CardinalityType
      <4> QED BY <2>3, <4>1, <4>2, <4>3, <4>4
    <3>2. CASE one \notin W
      BY <2>3, <2>5, <3>2, FS_Subset
    <3> QED BY <3>1, <3>2
  <2>7. Cardinality(WakingReplies(q)') \in Nat
    <3>1. IsFiniteSet((W \ {one}) \cup {other})
      BY <2>3, FS_RemoveElement, FS_AddElement, FS_Subset
    <3> QED BY <2>4, <3>1, FS_Subset, FS_CardinalityType
  <2>8. Cardinality(Answerers(q)) \in Nat
    BY RepliesFinite DEF RInv, IInv
  <2> QED BY <2>1, <2>2, <2>3, <2>6, <2>7, <2>8 DEF W
<1>16. OffersKept
  <2>1. \A n : ThreadOpen(n)' = ThreadOpen(n)
    BY <1>2 DEF ThreadOpen
  <2> SUFFICES ASSUME NEW n \in DOMAIN messages, NEW r \in Participants
               PROVE  OfferKept(deliveries[n][r], deliveries'[n][r], ThreadOpen(n),
                                ThreadOpen(n), Retry(n, r))
    BY <2>1 DEF OffersKept
  <2>2. CASE n = m /\ r = next
    BY <1>2, <1>4, <1>9, <2>2 DEF OfferKept
  <2>3. CASE n = m /\ r = p
    BY <1>2, <1>3, <1>9, <2>3 DEF OfferKept, d
  <2>4. CASE ~(n = m /\ r = next) /\ ~(n = m /\ r = p)
    <3>1. deliveries'[n][r] = deliveries[n][r]
      BY <1>0, <1>7, <2>4
    <3> QED BY <3>1, SameRequest
  <2> QED BY <2>2, <2>3, <2>4
<1> QED BY <1>12, <1>13, <1>14, <1>15, <1>16, <1>17 DEF RInv

\* A stored message: the reply that wakes its requester has just answered an
\* open request, and every answer leaves its reply behind.
LEMMA StoreRequests ==
    ASSUME RInv, IInv', NEW msg \in Message, msg.replyTo \in 0..Len(messages),
           NEW R \in SUBSET Participants, NEW answered \in SUBSET Participants,
           Store(msg, R, answered),
           answered # {} => msg.type = "reply",
           \A r \in answered : IF msg.human THEN r \in R ELSE r = msg.sender,
           ReplyWakes(msg) => \E r \in answered : deliveries[msg.replyTo][r].obligation = "open",
           msg.type = "reply" /\ ~msg.human => msg.sender \in answered
    PROVE  RInv' /\ OffersKept
<1> DEFINE top == Len(messages) + 1
           q0 == msg.replyTo
<1>0. /\ Len(messages) \in Nat /\ DOMAIN messages = 1..Len(messages)
      /\ DOMAIN messages \subseteq MsgIds /\ MsgIds = 1..MaxMessages
  BY MessageIds DEF RInv, IInv, TypeOK, MsgIds
<1>1. /\ messages' = Append(messages, msg) /\ top \in MsgIds
      /\ threads' = [threads EXCEPT ![msg.thread] = "open"]
      /\ threads[msg.thread] # "resolved"
      /\ q0 \in Nat /\ q0 <= Len(messages)
  BY <1>0, BoundsAssumption DEF Store
<1>2. /\ DOMAIN messages' = DOMAIN messages \cup {top}
      /\ top \notin DOMAIN messages
      /\ messages'[top] = msg
      /\ \A m \in DOMAIN messages : messages'[m] = messages[m]
  BY <1>0, <1>1 DEF RInv, IInv, TypeOK
<1>3. \A n \in MsgIds, p \in Participants :
        deliveries'[n][p] =
            IF n = top /\ p \in R THEN NewDelivery(msg, p)
            ELSE IF n = q0 /\ p \in answered THEN Answered(deliveries[n][p])
            ELSE deliveries[n][p]
  BY DEF Store
<1>4. \A p \in Participants :
        deliveries[top][p].state = "absent" /\ deliveries[top][p].activation = 0
  BY <1>1, <1>2 DEF RInv, IInv, EmptyRows
<1>5. q0 # top
  BY <1>0, <1>1
<1>6. ASSUME NEW n \in MsgIds, NEW p \in Participants
      PROVE  /\ Answered(deliveries[n][p]).obligation =
                    IF deliveries[n][p].obligation = "open" THEN "answered"
                    ELSE deliveries[n][p].obligation
             /\ Answered(deliveries[n][p]).activation = deliveries[n][p].activation
             /\ Answered(deliveries[n][p]).state \in {deliveries[n][p].state, "cancelled"}
             /\ Answered(deliveries[n][p]).state = "pending" =>
                    Answered(deliveries[n][p]) = deliveries[n][p]
             /\ deliveries[n][p].obligation = "none" =>
                    Answered(deliveries[n][p]) = deliveries[n][p]
             /\ Answered(deliveries[n][p]).state = "absent" => deliveries[n][p].state = "absent"
  BY RowTyped DEF RInv, IInv, Delivery, Answered
<1>7. ASSUME NEW n \in MsgIds, NEW p \in Participants
      PROVE  Answered(deliveries[n][p]).wake => deliveries[n][p].wake
  BY RowTyped DEF RInv, IInv, Delivery, Answered
<1>8. ASSUME NEW p \in Participants
      PROVE  /\ NewDelivery(msg, p).state = "pending"
             /\ NewDelivery(msg, p).obligation = IF msg.type = "question" THEN "open" ELSE "none"
             /\ NewDelivery(msg, p).wake =>
                    \/ msg.type = "question"
                    \/ ReplyWakes(msg) /\ p = messages[q0].sender
  BY DEF NewDelivery, Absent
<1>9. \A n \in MsgIds, p \in Participants :
        /\ deliveries'[n][p].state = "absent" => deliveries[n][p].state = "absent"
        /\ deliveries[n][p].obligation = "answered" /\ n # top =>
                deliveries'[n][p].obligation = "answered"
        /\ deliveries'[n][p].obligation = "answered" =>
                \/ n # top /\ deliveries[n][p].obligation = "answered"
                \/ /\ n = q0 /\ p \in answered
                   /\ deliveries[n][p].obligation = "open"
  <2> SUFFICES ASSUME NEW n \in MsgIds, NEW p \in Participants
               PROVE  /\ deliveries'[n][p].state = "absent" => deliveries[n][p].state = "absent"
                      /\ deliveries[n][p].obligation = "answered" /\ n # top =>
                            deliveries'[n][p].obligation = "answered"
                      /\ deliveries'[n][p].obligation = "answered" =>
                            \/ n # top /\ deliveries[n][p].obligation = "answered"
                            \/ /\ n = q0 /\ p \in answered
                               /\ deliveries[n][p].obligation = "open"
    OBVIOUS
  <2>1. CASE n = top /\ p \in R
    <3>1. deliveries'[n][p] = NewDelivery(msg, p)
      BY <1>3, <2>1
    <3> QED BY <1>8, <2>1, <3>1
  <2>2. CASE n = q0 /\ p \in answered
    <3>1. deliveries'[n][p] = Answered(deliveries[n][p])
      BY <1>3, <1>5, <2>2
    <3> QED BY <1>5, <1>6, <2>2, <3>1
  <2>3. CASE ~(n = top /\ p \in R) /\ ~(n = q0 /\ p \in answered)
    <3>1. deliveries'[n][p] = deliveries[n][p]
      BY <1>3, <2>3
    <3>2. n = top => deliveries[n][p].obligation = "none"
      BY <1>4 DEF RInv, AbsentRows
    <3> QED BY <3>1, <3>2
  <2> QED BY <2>1, <2>2, <2>3
<1> HIDE DEF top
<1>10. AbsentRows'
  <2> SUFFICES ASSUME NEW n \in MsgIds, NEW p \in Participants,
                      deliveries'[n][p].state = "absent"
               PROVE  /\ deliveries'[n][p].activation = 0
                      /\ deliveries'[n][p].obligation = "none"
                      /\ ~deliveries'[n][p].wake
    BY DEF AbsentRows
  <2>1. /\ deliveries[n][p].state = "absent"
        /\ deliveries[n][p].activation = 0 /\ deliveries[n][p].obligation = "none"
        /\ ~deliveries[n][p].wake
    BY <1>9 DEF RInv, AbsentRows
  <2>2. deliveries'[n][p] = deliveries[n][p]
    BY <1>3, <1>6, <1>8, <2>1
  <2> QED BY <2>1, <2>2
<1>11. RefersBack'
  <2> SUFFICES ASSUME NEW n \in DOMAIN messages'
               PROVE  /\ messages'[n].replyTo < n
                      /\ messages'[n].type = "reply" => messages'[n].replyTo # 0
    BY DEF RefersBack
  <2>1. CASE n = top
    <3>1. msg.type = "reply" => q0 # 0
      BY DEF Store
    <3> QED BY <1>0, <1>1, <1>2, <2>1, <3>1 DEF top
  <2>2. CASE n \in DOMAIN messages
    BY <1>2, <2>2 DEF RInv, RefersBack
  <2> QED BY <1>2, <2>1, <2>2
<1>12. AnswersShown'
  <2> SUFFICES ASSUME NEW q \in DOMAIN messages', NEW p \in Participants,
                      deliveries'[q][p].obligation = "answered"
               PROVE  \E n \in DOMAIN messages' :
                        /\ messages'[n].replyTo = q /\ messages'[n].type = "reply"
                        /\ IF messages'[n].human THEN deliveries'[n][p].state # "absent"
                           ELSE messages'[n].sender = p
    BY DEF AnswersShown, Present
  <2>1. q \in MsgIds
    BY <1>0, <1>1, <1>2
  <2>2. CASE q # top /\ deliveries[q][p].obligation = "answered"
    <3>1. q \in DOMAIN messages
      BY <1>2, <2>2
    <3>2. \A n \in DOMAIN messages, s \in Participants :
            deliveries'[n][s].state = "absent" => deliveries[n][s].state = "absent"
      BY <1>0, <1>9
    <3>3. TypeOK /\ AnswersShown
      BY DEF RInv, IInv
    <3>4. DOMAIN messages \subseteq DOMAIN messages'
      BY <1>2
    <3> QED BY <1>2, <2>2, <3>1, <3>2, <3>3, <3>4, AnswersKept DEF Present
  <2>3. CASE q = q0 /\ p \in answered
    <3>1. top \in DOMAIN messages' /\ messages'[top] = msg /\ msg.type = "reply"
      BY <1>2, <2>3
    <3>2. IF msg.human THEN p \in R ELSE msg.sender = p
      BY <2>3
    <3>3. p \in R => deliveries'[top][p] = NewDelivery(msg, p)
      BY <1>1, <1>3
    <3>4. p \in R => deliveries'[top][p].state # "absent"
      BY <1>8, <3>3
    <3> QED BY <2>3, <3>1, <3>2, <3>4
  <2> QED BY <1>9, <2>1, <2>2, <2>3
<1>15. RepliesClose'
  <2> SUFFICES ASSUME NEW n \in DOMAIN messages', messages'[n].type = "reply",
                      ~messages'[n].human
               PROVE  LET d == deliveries'[messages'[n].replyTo][messages'[n].sender] IN
                      d.state # "absent" /\ d.obligation # "open"
    BY DEF RepliesClose
  <2> DEFINE q == messages'[n].replyTo
             r == messages'[n].sender
  <2>1. CASE n = top
    <3>1. q = q0 /\ r = msg.sender /\ r \in answered /\ ~msg.human /\ msg.type = "reply"
      BY <1>2, <2>1
    <3>2. q0 # 0 /\ CurrentRecipient(q0, msg.sender)
      BY <3>1 DEF Store
    <3>3. q0 \in MsgIds /\ deliveries[q0][r].state # "absent"
      BY <1>0, <1>1, <3>1, <3>2 DEF CurrentRecipient, Present
    <3>4. deliveries'[q0][r] = Answered(deliveries[q0][r])
      BY <1>3, <1>5, <3>1, <3>3
    <3> QED BY <1>6, <3>1, <3>3, <3>4
  <2>2. CASE n \in DOMAIN messages
    <3>1. messages'[n] = messages[n]
      BY <1>2, <2>2
    <3>2. /\ q \in MsgIds /\ r \in Participants
          /\ deliveries[q][r].state # "absent" /\ deliveries[q][r].obligation # "open"
      BY <2>2, <3>1, RepliedRow
    <3> HIDE DEF q, r
    <3>3. q # top
      BY <1>4, <3>2
    <3>4. deliveries'[q][r] \in {deliveries[q][r], Answered(deliveries[q][r])}
      BY <1>3, <3>2, <3>3
    <3>5. deliveries'[q][r].state # "absent" /\ deliveries'[q][r].obligation # "open"
      BY <1>6, <3>2, <3>4
    <3> QED BY <3>5 DEF q, r
  <2> QED BY <1>2, <2>1, <2>2
<1>13. RepliesDoNotPingPong'
  <2> SUFFICES ASSUME NEW q \in DOMAIN messages'
               PROVE  Cardinality(WakingReplies(q)') <= Cardinality(Answerers(q)')
    BY DEF RepliesDoNotPingPong, Answerers
  <2>1. q \in MsgIds
    BY <1>0, <1>1, <1>2
  <2> DEFINE W == WakingReplies(q)
             A == Answerers(q)
             one == <<top, messages[q0].sender>>
  <2>2. IsFiniteSet(W) /\ Cardinality(W) \in Nat /\ IsFiniteSet(A) /\ Cardinality(A) \in Nat
    BY RepliesFinite DEF RInv, IInv
  <2>3. Cardinality(W) <= Cardinality(A)
    <3>1. CASE q \in DOMAIN messages
      BY <3>1 DEF RInv, RepliesDoNotPingPong, Answerers
    <3>2. CASE q = top
      <4>1. \A n \in DOMAIN messages : messages[n].replyTo # top
        <5> SUFFICES ASSUME NEW n \in DOMAIN messages PROVE messages[n].replyTo # top
          OBVIOUS
        <5>1. messages[n] \in Message
          BY DEF RInv, IInv, TypeOK
        <5>2. messages[n].replyTo \in Nat /\ messages[n].replyTo < n
          BY <5>1, BoundsAssumption DEF RInv, RefersBack, Message
        <5> QED BY <1>0, <5>2 DEF top
      <4>2. W = {}
        BY <3>2, <4>1 DEF WakingReplies
      <4> QED BY <2>2, <4>2, FS_EmptySet
    <3> QED BY <1>2, <3>1, <3>2
  <2>4. WakingReplies(q)' \subseteq W \cup (IF q = q0 /\ ReplyWakes(msg) THEN {one} ELSE {})
    <3> SUFFICES ASSUME NEW x \in WakingReplies(q)'
                 PROVE  x \in W \/ (x = one /\ q = q0 /\ ReplyWakes(msg))
      OBVIOUS
    <3>1. PICK n \in DOMAIN messages', r \in Participants : x = <<n, r>>
      BY DEF WakingReplies
    <3>2. /\ messages'[n].replyTo = q /\ messages'[n].type = "reply"
          /\ deliveries'[n][r].wake /\ deliveries'[n][r].obligation # "redirected"
      BY <3>1 DEF WakingReplies
    <3>3. CASE n = top
      <4>1. msg.replyTo = q /\ msg.type = "reply"
        BY <1>2, <3>2, <3>3
      <4>2. r \in R
        <5>1. r \notin R => deliveries'[n][r] = deliveries[n][r]
          BY <1>1, <1>3, <1>5, <3>3
        <5>2. ~deliveries[n][r].wake
          BY <1>1, <1>4, <3>3 DEF RInv, AbsentRows
        <5> QED BY <3>2, <5>1, <5>2
      <4>3. deliveries'[n][r] = NewDelivery(msg, r)
        BY <1>1, <1>3, <3>3, <4>2
      <4>4. ReplyWakes(msg) /\ r = messages[q0].sender
        BY <1>8, <3>2, <4>1, <4>3
      <4> QED BY <3>1, <3>3, <4>1, <4>4
    <3>4. CASE n \in DOMAIN messages
      <4>1. messages[n].replyTo = q /\ messages[n].type = "reply" /\ n # top /\ n \in MsgIds
        BY <1>0, <1>2, <3>2, <3>4
      <4>2. deliveries'[n][r] \in {deliveries[n][r], Answered(deliveries[n][r])}
        BY <1>3, <4>1
      <4>3. deliveries[n][r].wake
        BY <1>7, <3>2, <4>1, <4>2
      <4>4. deliveries[n][r].obligation # "redirected"
        BY <1>6, <3>2, <4>1, <4>2
      <4> QED BY <3>1, <3>4, <4>1, <4>3, <4>4 DEF WakingReplies
    <3> QED BY <1>2, <3>3, <3>4
  <2>5. A \subseteq Answerers(q)'
    <3>1. q = top => A = {}
      BY <1>1, <1>4 DEF RInv, AbsentRows, Answerers
    <3> QED BY <1>9, <2>1, <3>1 DEF Answerers
  <2>6. IsFiniteSet(Answerers(q)') /\ Cardinality(Answerers(q)') \in Nat
    <3>1. Answerers(q)' \subseteq Participants
      BY DEF Answerers
    <3> QED BY <3>1, FinitenessAssumption, FS_Subset, FS_CardinalityType
  <2>7. CASE q = q0 /\ ReplyWakes(msg)
    <3>1. PICK r \in answered : deliveries[q0][r].obligation = "open"
      BY <2>7
    <3>2. deliveries'[q][r] = Answered(deliveries[q][r])
      BY <1>3, <1>5, <2>1, <2>7, <3>1
    <3>3. r \in Answerers(q)' /\ r \notin A
      BY <1>6, <2>1, <2>7, <3>1, <3>2 DEF Answerers
    <3>4. /\ Cardinality(A \cup {r}) = Cardinality(A) + 1
          /\ IsFiniteSet(A \cup {r})
      BY <2>2, <3>3, FS_AddElement
    <3>5. Cardinality(A \cup {r}) <= Cardinality(Answerers(q)')
      BY <2>5, <2>6, <3>3, FS_Subset
    <3>6. WakingReplies(q)' \subseteq W \cup {one}
      BY <2>4, <2>7
    <3> HIDE DEF W, A, one
    <3>7. /\ IsFiniteSet(W \cup {one})
          /\ Cardinality(W \cup {one}) <= Cardinality(W) + 1
      <4>1. /\ IsFiniteSet(W \cup {one})
            /\ Cardinality(W \cup {one}) =
                    IF one \in W THEN Cardinality(W) ELSE Cardinality(W) + 1
        BY <2>2, FS_AddElement
      <4> QED BY <2>2, <4>1
    <3>8. /\ IsFiniteSet(WakingReplies(q)')
          /\ Cardinality(WakingReplies(q)') <= Cardinality(W \cup {one})
      BY <3>6, <3>7, FS_Subset
    <3>9. Cardinality(WakingReplies(q)') \in Nat /\ Cardinality(W \cup {one}) \in Nat
      BY <3>7, <3>8, FS_CardinalityType
    <3> QED BY <2>2, <2>3, <2>6, <3>4, <3>5, <3>7, <3>8, <3>9
  <2>8. CASE ~(q = q0 /\ ReplyWakes(msg))
    <3>1. WakingReplies(q)' \subseteq W
      BY <2>4, <2>8
    <3> HIDE DEF W, A, one
    <3>2. Cardinality(WakingReplies(q)') <= Cardinality(W) /\ IsFiniteSet(WakingReplies(q)')
      BY <2>2, <3>1, FS_Subset
    <3>3. Cardinality(A) <= Cardinality(Answerers(q)')
      BY <2>5, <2>6, FS_Subset
    <3>4. Cardinality(WakingReplies(q)') \in Nat
      BY <3>2, FS_CardinalityType
    <3> QED BY <2>2, <2>3, <2>6, <3>2, <3>3, <3>4
  <2> QED BY <2>7, <2>8
<1>14. OffersKept
  <2> SUFFICES ASSUME NEW n \in DOMAIN messages, NEW p \in Participants
               PROVE  OfferKept(deliveries[n][p], deliveries'[n][p], ThreadOpen(n),
                                ThreadOpen(n)', Retry(n, p))
    BY DEF OffersKept
  <2>1. n \in MsgIds /\ n # top /\ messages'[n] = messages[n]
    BY <1>0, <1>2
  <2>2. ThreadOpen(n) => ThreadOpen(n)'
    <3>1. messages[n] \in Message /\ threads \in [Threads -> {"absent", "open", "resolved"}]
      BY DEF RInv, IInv, TypeOK
    <3>2. messages[n].thread \in Threads
      BY <3>1 DEF Message
    <3> QED BY <1>1, <2>1, <3>1, <3>2 DEF ThreadOpen
  <2>3. deliveries'[n][p] \in {deliveries[n][p], Answered(deliveries[n][p])}
    BY <1>3, <2>1
  <2>4. deliveries'[n][p].state = "pending" => deliveries'[n][p] = deliveries[n][p]
    BY <1>6, <2>1, <2>3
  <2>5. deliveries'[n][p].state \in {deliveries[n][p].state, "cancelled"}
    BY <1>6, <2>1, <2>3
  <2> QED BY <2>2, <2>4, <2>5 DEF OfferKept
<1> QED BY <1>10, <1>11, <1>12, <1>13, <1>14, <1>15 DEF RInv

(***************************************************************************)
(* The theorems                                                            *)
(***************************************************************************)
\* The initial state satisfies the invariant.
LEMMA InitRInv == Init => RInv
<1> SUFFICES ASSUME Init PROVE RInv
  OBVIOUS
<1>1. DOMAIN messages = {}
  BY DEF Init
<1>2. \A m \in MsgIds, p \in Participants : deliveries[m][p] = Absent
  BY DEF Init
<1>3. AbsentRows
  BY <1>2 DEF AbsentRows, Absent
<1> QED BY <1>1, <1>3, InitIInv DEF RInv, RefersBack, AnswersShown, RepliesClose,
                              RepliesDoNotPingPong

\* Every step keeps the invariant of replies and offers only what is wanted.
LEMMA StepKeepsReplies == RInv /\ [Next]_vars => RInv' /\ OffersKept
<1> SUFFICES ASSUME RInv, [Next]_vars PROVE RInv' /\ OffersKept
  OBVIOUS
<1>0. IInv' /\ IInv /\ AbsentRows
  BY StepKeepsIInv DEF RInv
<1>1. CASE RequestsKept /\ OffersKept
  BY <1>0, <1>1, KeptRequests
<1>2. CASE UNCHANGED vars
  BY <1>1, <1>2, SameRequests DEF vars
<1>3. ASSUME NEW w \in actors, NEW R \in SUBSET Participants, NEW type \in MessageTypes,
             NEW t \in Threads, NEW q \in 0..Len(messages), NEW k \in Keys,
             Send(w, R, type, t, q, k)
      PROVE  RInv' /\ OffersKept
  <2> DEFINE msg == [sender |-> w.participant, thread |-> t, type |-> type,
                     human |-> FALSE, replyTo |-> q, key |-> k]
             answered == IF type = "reply" THEN {w.participant} ELSE {}
  <2>1. msg \in Message /\ w.participant \in Participants
    BY <1>0, BoundsAssumption DEF IInv, TypeOK, Message, WorkerActor
  <2>2. /\ msg.replyTo = q /\ msg.type = type /\ msg.sender = w.participant
        /\ ~msg.human
    OBVIOUS
  <2>3. Store(msg, R, answered)
    BY <1>3 DEF Send
  <2> HIDE DEF msg
  <2>4. answered \in SUBSET Participants
    BY <2>1
  <2>5. ReplyWakes(msg) => \E r \in answered : deliveries[q][r].obligation = "open"
    BY <2>2 DEF ReplyWakes
  <2>6. /\ answered # {} => msg.type = "reply"
        /\ \A r \in answered : IF msg.human THEN r \in R ELSE r = msg.sender
        /\ msg.type = "reply" /\ ~msg.human => msg.sender \in answered
    BY <2>2
  <2> HIDE DEF answered
  <2> QED BY <1>0, <2>1, <2>2, <2>3, <2>4, <2>5, <2>6, StoreRequests
<1>4. ASSUME NEW m \in DOMAIN messages, NEW p \in Participants, NEW k \in Keys,
             Answer(m, p, k)
      PROVE  RInv' /\ OffersKept
  <2> DEFINE msg == [sender |-> messages[m].sender, thread |-> messages[m].thread,
                     type |-> "reply", human |-> TRUE, replyTo |-> m, key |-> k]
             R == {messages[m].sender, p}
  <2>1. messages[m] \in Message /\ m \in 0..MaxMessages /\ m \in 0..Len(messages)
    BY <1>0, BoundsAssumption DEF IInv, TypeOK
  <2>2. msg \in Message /\ R \in SUBSET Participants
    BY <2>1 DEF Message, MessageTypes
  <2>3. msg.replyTo = m /\ msg.type = "reply" /\ msg.human /\ p \in R
    OBVIOUS
  <2>4. Store(msg, R, {p}) /\ deliveries[m][p].obligation = "open"
    BY <1>4 DEF Answer
  <2> HIDE DEF msg, R
  <2>5. \A r \in {p} : IF msg.human THEN r \in R ELSE r = msg.sender
    BY <2>3
  <2>6. ReplyWakes(msg) => \E r \in {p} : deliveries[msg.replyTo][r].obligation = "open"
    BY <2>3, <2>4
  <2>7. {p} \in SUBSET Participants
    OBVIOUS
  <2> QED BY <1>0, <2>1, <2>2, <2>3, <2>4, <2>5, <2>6, <2>7, StoreRequests
<1> QED BY <1>0, <1>1, <1>2, <1>3, <1>4, RedirectRequests, MembershipRequests,
           MailRequests, AutomationRequests DEF Next

\* The invariant of replies holds in every reachable state.
THEOREM ReplyInvariance == Spec => []RInv
<1>1. RInv /\ [Next]_vars => RInv'
  BY StepKeepsReplies
<1> QED BY <1>1, InitRInv, PTL DEF Spec

\* Every answered request has a reply to show for it, written by the recipient
\* or by the human for that recipient, whatever is redirected, cancelled or
\* resolved meanwhile (store.ts: answerObligations).
THEOREM AnswersAreShown == Spec => []AnsweredHasReply
<1>1. RInv => AnsweredHasReply
  BY DEF RInv, AnsweredHasReply
<1> QED BY <1>1, ReplyInvariance, PTL

\* Replies that wake never outnumber the requests they answered, so two agents
\* cannot keep each other awake, for any number of members and messages.
THEOREM ExchangesEnd == Spec => []RepliesDoNotPingPong
<1>1. RInv => RepliesDoNotPingPong
  BY DEF RInv
<1> QED BY <1>1, ReplyInvariance, PTL

\* Wherever a behaviour starts: while the invariant holds, the store's steps put
\* obsolete work back only for a human retry.
LEMMA StepsKeepObsoleteOut == []RInv /\ [][Next]_vars => ObsoletePendingOnlyByRetry
<1> DEFINE Step == \A m \in DOMAIN messages, p \in Participants :
        IF WantedPending(m, p) THEN WantedPending(m, p)' \/ Retry(m, p)
        ELSE deliveries'[m][p].state \in {"pending", "cancelled"}
<1>1. OffersKept => Step
  <2> SUFFICES ASSUME OffersKept, NEW m \in DOMAIN messages, NEW p \in Participants
               PROVE  IF WantedPending(m, p) THEN WantedPending(m, p)' \/ Retry(m, p)
                      ELSE deliveries'[m][p].state \in {"pending", "cancelled"}
    OBVIOUS
  <2>1. OfferKept(deliveries[m][p], deliveries'[m][p], ThreadOpen(m), ThreadOpen(m)',
                  Retry(m, p))
    BY DEF OffersKept
  <2> QED BY <2>1 DEF OfferKept, WantedPending
<1>2. RInv /\ [Next]_vars => [Step]_vars
  BY <1>1, StepKeepsReplies
<1>3. ObsoletePendingOnlyByRetry <=> [][Step]_vars
  BY DEF ObsoletePendingOnlyByRetry
<1> HIDE DEF Step
<1> QED BY <1>2, <1>3, PTL

\* Obsolete work returns to the mailbox only by a human retry.
THEOREM ObsoleteStaysOut == Spec => ObsoletePendingOnlyByRetry
BY StepsKeepObsoleteOut, ReplyInvariance, PTL DEF Spec

=============================================================================
