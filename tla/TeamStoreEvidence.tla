-------------------------- MODULE TeamStoreEvidence --------------------------
(***************************************************************************)
(* TLAPS proofs about the evidence TeamStore keeps: what is recorded stays *)
(* recorded and was recorded on the word of its own session, what is       *)
(* uncertain is replayed only by a human, and a settled run is proven.     *)
(* Every action is shown to leave each row's evidence alone (RowKept) and  *)
(* each run settled or not as it was (RunsKept); the two exceptions, a     *)
(* reservation and a finish, are treated by themselves.                    *)
(*                                                                         *)
(* The second part is about what a step may do to a run: start it only     *)
(* after a last look at all of its batch, and doubt it only by pausing its *)
(* member.  Of all actions only a dispatch turns a run dispatched; a run   *)
(* turns uncertain where a connection ends, which pauses, and in a finish. *)
(***************************************************************************)
EXTENDS TeamStoreProofs

USE DEF InFlightStates, LiveStates

\* A row that names a run is a row of that run's member and session.
RowsOfRuns ==
    \A m \in MsgIds, p \in Participants :
        LET d == deliveries[m][p] IN
        d.activation # 0 =>
            /\ d.activation \in DOMAIN activations
            /\ activations[d.activation].participant = p
            /\ activations[d.activation].session = d.session

EInv == IInv /\ RowsOfRuns /\ SettledIsProven

\* The row keeps its run, or has none any more.
SameRun(d, e) == e.activation # 0 => e.activation = d.activation /\ e.session = d.session

\* Member p's row d becomes e and keeps its evidence; again says that a human
\* has just asked for the message to be offered again.
RowKept(d, e, p, again) ==
    /\ d.state = "recorded" => e.state = "recorded"
    /\ d.state # "recorded" /\ e.state = "recorded" =>
            d.session = participants[p].session
    /\ d.state = "uncertain" /\ e.state \in {"pending", "claimed", "queued"} => again

RowsKept ==
    \A m \in MsgIds, p \in Participants :
        RowKept(deliveries[m][p], deliveries'[m][p], p, Retry(m, p))

SameRuns ==
    \A m \in MsgIds, p \in Participants : SameRun(deliveries[m][p], deliveries'[m][p])

RunsKept ==
    /\ DOMAIN activations' = DOMAIN activations
    /\ \A a \in DOMAIN activations :
        /\ activations'[a].participant = activations[a].participant
        /\ activations'[a].session = activations[a].session
        /\ activations'[a].state = "settled" => activations[a].state = "settled"

Kept == RowsKept /\ SameRuns /\ RunsKept

\* A step that keeps the rows and the runs keeps what settled runs rest on.
LEMMA KeptKeepsRuns == EInv /\ Kept => RowsOfRuns' /\ SettledIsProven'
<1> SUFFICES ASSUME EInv, Kept PROVE RowsOfRuns' /\ SettledIsProven'
  OBVIOUS
<1>1. RowsOfRuns'
  BY DEF EInv, Kept, SameRuns, SameRun, RunsKept, RowsOfRuns
<1>2. SettledIsProven'
  <2> SUFFICES ASSUME NEW a \in DOMAIN activations', activations'[a].state = "settled",
                      NEW m \in MsgIds, NEW p \in Participants,
                      deliveries'[m][p].activation = a
               PROVE  deliveries'[m][p].state = "recorded"
    BY DEF SettledIsProven
  <2>1. a \in DOMAIN activations /\ activations[a].state = "settled" /\ a # 0
    BY ActivationIds DEF Kept, RunsKept, EInv, IInv
  <2>2. deliveries[m][p].activation = a
    BY <2>1 DEF Kept, SameRuns, SameRun
  <2>3. deliveries[m][p].state = "recorded"
    BY <2>1, <2>2 DEF EInv, SettledIsProven
  <2> QED BY <2>3 DEF Kept, RowsKept, RowKept
<1> QED BY <1>1, <1>2

\* Steps that leave the ledger alone keep the runs.
LEMMA SameLedgerKept ==
    ASSUME UNCHANGED activations PROVE RunsKept
  BY DEF RunsKept

\* A row that stays what it is.
LEMMA SameRowKept ==
    ASSUME NEW d, NEW p, NEW again PROVE SameRun(d, d) /\ RowKept(d, d, p, again)
  BY DEF SameRun, RowKept

\* A step that leaves rows and runs alone keeps both.
LEMMA SameRowsKept ==
    ASSUME UNCHANGED <<deliveries, activations>> PROVE Kept
  BY SameLedgerKept, SameRowKept DEF Kept, RowsKept, SameRuns

\* One row changes.
LEMMA SetDeliveryKept ==
    ASSUME IInv, NEW m \in DOMAIN messages, NEW p \in Participants, NEW d,
           SetDelivery(m, p, d), SameRun(deliveries[m][p], d),
           RowKept(deliveries[m][p], d, p, Retry(m, p))
    PROVE  Kept
<1>1. m \in MsgIds /\ deliveries \in [MsgIds -> [Participants -> Delivery]]
  BY MessageIds DEF IInv, TypeOK
<1>2. \A n \in MsgIds, r \in Participants :
        deliveries'[n][r] = IF n = m /\ r = p THEN d ELSE deliveries[n][r]
  BY <1>1 DEF SetDelivery
<1>3. UNCHANGED activations
  BY DEF SetDelivery, wakeVars
<1> QED BY <1>2, <1>3, SameLedgerKept, SameRowKept DEF Kept, RowsKept, SameRuns

(***************************************************************************)
(* Connections that end                                                    *)
(***************************************************************************)
\* A connection that ends keeps the evidence.
LEMMA SeverKept ==
    ASSUME IInv, NEW P, Sever(P) PROVE Kept
<1>1. \A m \in MsgIds, p \in Participants :
        /\ SameRun(deliveries[m][p], deliveries'[m][p])
        /\ RowKept(deliveries[m][p], deliveries'[m][p], p, Retry(m, p))
  <2> SUFFICES ASSUME NEW m \in MsgIds, NEW p \in Participants
               PROVE  /\ SameRun(deliveries[m][p], deliveries'[m][p])
                      /\ RowKept(deliveries[m][p], deliveries'[m][p], p, Retry(m, p))
    OBVIOUS
  <2> DEFINE e == [deliveries[m][p] EXCEPT !.state = "uncertain"]
  <2>1. deliveries'[m][p] = IF p \in P /\ InFlight(deliveries[m][p])
                            THEN e ELSE deliveries[m][p]
    BY DEF Sever, DeliveriesLeftUncertain
  <2>2. /\ e.state = "uncertain" /\ e.activation = deliveries[m][p].activation
        /\ e.session = deliveries[m][p].session
    BY RowTyped DEF IInv, Delivery
  <2> HIDE DEF e
  <2> QED BY <2>1, <2>2 DEF SameRun, RowKept, InFlight
<1>2. DOMAIN activations' = DOMAIN activations
  BY SeverTyped DEF IInv
<1>3. \A a \in DOMAIN activations :
        /\ activations'[a].participant = activations[a].participant
        /\ activations'[a].session = activations[a].session
        /\ activations'[a].state = "settled" => activations[a].state = "settled"
  <2> SUFFICES ASSUME NEW a \in DOMAIN activations
               PROVE  /\ activations'[a].participant = activations[a].participant
                      /\ activations'[a].session = activations[a].session
                      /\ activations'[a].state = "settled" =>
                            activations[a].state = "settled"
    OBVIOUS
  <2>1. activations[a] \in Activation
    BY DEF IInv, TypeOK
  <2>2. activations'[a] = IF activations[a].participant \in P /\ IsLive(a)
                          THEN [activations[a] EXCEPT !.state = "uncertain"]
                          ELSE activations[a]
    BY DEF Sever, InterruptedActivations
  <2> QED BY <2>1, <2>2 DEF Activation
<1> QED BY <1>1, <1>2, <1>3 DEF Kept, RowsKept, SameRuns, RunsKept

\* Membership and connection steps keep the evidence.
LEMMA MembershipKept == IInv /\ Membership => Kept
<1> SUFFICES ASSUME IInv, Membership PROVE Kept
  OBVIOUS
<1>1. (\E P : Sever(P)) \/ UNCHANGED <<deliveries, activations>>
  BY DEF Membership, Join, Rejoin, Connect, Disconnect, LeaseLapse, Expire,
         BrokerRestart, Leave, Pause, PauseRoom, mailVars, wakeVars
<1> QED BY <1>1, SeverKept, SameRowsKept

(***************************************************************************)
(* Messages and the human's control                                        *)
(***************************************************************************)
\* A stored message keeps the evidence.
LEMMA StoreKept ==
    ASSUME IInv, NEW msg \in Message, msg.replyTo \in 0..Len(messages),
           NEW R, NEW answered, Store(msg, R, answered)
    PROVE  Kept
<1>1. UNCHANGED activations
  BY DEF Store, wakeVars
<1>2. ASSUME NEW n \in MsgIds, NEW p \in Participants
      PROVE  /\ SameRun(deliveries[n][p], deliveries'[n][p])
             /\ RowKept(deliveries[n][p], deliveries'[n][p], p, Retry(n, p))
  <2> DEFINE d == deliveries[n][p]
             closed == Answered(d)
             new == NewDelivery(msg, p)
  <2>1. deliveries'[n][p] =
            IF n = Len(messages) + 1 /\ p \in R THEN new
            ELSE IF n = msg.replyTo /\ p \in answered THEN closed ELSE d
    BY DEF Store
  <2>2. /\ closed.activation = d.activation /\ closed.session = d.session
        /\ closed.state \in {d.state, "cancelled"}
        /\ d.state = "recorded" => closed.state = "recorded"
    BY RowTyped DEF IInv, Answered, Delivery
  <2>3. new.state = "pending" /\ new.activation = 0
    BY DEF NewDelivery, Absent
  <2>4. n = Len(messages) + 1 => d.state = "absent"
    <3>1. Len(messages) \in Nat /\ DOMAIN messages = 1..Len(messages)
      BY DEF IInv, TypeOK
    <3> QED BY <3>1 DEF IInv, EmptyRows
  <2> HIDE DEF d, closed, new
  <2>5. SameRun(d, deliveries'[n][p]) /\ RowKept(d, deliveries'[n][p], p, Retry(n, p))
    BY <2>1, <2>2, <2>3, <2>4 DEF SameRun, RowKept
  <2> QED BY <2>5 DEF d
<1> QED BY <1>1, <1>2, SameLedgerKept DEF Kept, RowsKept, SameRuns

\* A row that is withdrawn keeps its evidence.
LEMMA WithdrawKept ==
    ASSUME IInv, NEW m \in DOMAIN messages, NEW p \in Participants, NEW o
    PROVE  /\ SameRun(deliveries[m][p], Withdraw(m, p, o))
           /\ RowKept(deliveries[m][p], Withdraw(m, p, o), p, Retry(m, p))
<1>1. deliveries[m][p] \in Delivery
  BY MessageIds, RowTyped DEF IInv
<1>2. /\ Withdraw(m, p, o).activation = deliveries[m][p].activation
      /\ Withdraw(m, p, o).session = deliveries[m][p].session
      /\ Withdraw(m, p, o).state =
            IF deliveries[m][p].state = "recorded" THEN "recorded" ELSE "cancelled"
  BY <1>1 DEF Withdraw, Delivery
<1> QED BY <1>2 DEF SameRun, RowKept

\* A redirect withdraws one row and offers another afresh.
LEMMA RedirectKept ==
    ASSUME IInv, NEW m \in DOMAIN messages, NEW p \in Participants,
           NEW next \in Participants, Redirect(m, p, next)
    PROVE  Kept
<1> DEFINE old == Withdraw(m, p, "redirected")
           new == [Absent EXCEPT !.state = "pending",
                                 !.obligation = deliveries[m][p].obligation,
                                 !.wake = deliveries[m][p].wake]
<1>1. new.state = "pending" /\ new.activation = 0
  BY DEF Absent
<1>2. /\ deliveries' = [deliveries EXCEPT ![m] = [@ EXCEPT ![p] = old, ![next] = new]]
      /\ deliveries[m][next].state = "absent"
      /\ UNCHANGED activations
  BY DEF Redirect, Present, wakeVars
<1>3. SameRun(deliveries[m][p], old) /\ RowKept(deliveries[m][p], old, p, Retry(m, p))
  BY WithdrawKept
<1> HIDE DEF old, new
<1>4. \A n \in MsgIds, r \in Participants :
        deliveries'[n][r] = IF n = m /\ r = next THEN new
                            ELSE IF n = m /\ r = p THEN old
                            ELSE deliveries[n][r]
  BY <1>2, MessageIds DEF IInv, TypeOK
<1>5. /\ SameRun(deliveries[m][next], new)
      /\ RowKept(deliveries[m][next], new, next, Retry(m, next))
  BY <1>1, <1>2 DEF SameRun, RowKept
<1>6. RowsKept /\ SameRuns
  BY <1>3, <1>4, <1>5, SameRowKept DEF RowsKept, SameRuns
<1> QED BY <1>2, <1>6, SameLedgerKept DEF Kept

\* Resolving a thread withdraws only rows that were never inserted.
LEMMA ResolveKept ==
    ASSUME IInv, NEW t, Resolve(t) PROVE Kept
<1>1. UNCHANGED activations
  BY DEF Resolve, wakeVars
<1>2. ASSUME NEW m \in MsgIds, NEW p \in Participants
      PROVE  /\ SameRun(deliveries[m][p], deliveries'[m][p])
             /\ RowKept(deliveries[m][p], deliveries'[m][p], p, Retry(m, p))
  <2> DEFINE d == deliveries[m][p]
             closed == [d EXCEPT !.obligation = IF @ = "open" THEN "resolved" ELSE @,
                                 !.state = IF @ = "pending" THEN "cancelled" ELSE @]
  <2>1. deliveries'[m][p] = closed \/ deliveries'[m][p] = d
    BY DEF Resolve
  <2>2. /\ closed.activation = d.activation /\ closed.session = d.session
        /\ closed.state = IF d.state = "pending" THEN "cancelled" ELSE d.state
    BY RowTyped DEF IInv, Delivery
  <2> HIDE DEF d, closed
  <2>3. SameRun(d, deliveries'[m][p]) /\ RowKept(d, deliveries'[m][p], p, Retry(m, p))
    BY <2>1, <2>2 DEF SameRun, RowKept
  <2> QED BY <2>3 DEF d
<1> QED BY <1>1, <1>2, SameLedgerKept DEF Kept, RowsKept, SameRuns

\* A manual attempt that moves on; only its own session proves it.
LEMMA MoveKept ==
    ASSUME IInv, NEW w \in actors, NEW m \in DOMAIN messages,
           NEW s \in {"queued", "recorded", "uncertain"}, MoveTo(w, m, s), Attempted(w, m),
           s = "queued" => deliveries[m][w.participant].state # "uncertain"
    PROVE  Kept
<1> DEFINE p == w.participant
           d == deliveries[m][p]
           e == [d EXCEPT !.state = s]
<1>1. p \in Participants /\ d \in Delivery
  BY MessageIds, RowTyped DEF IInv, TypeOK, WorkerActor
<1>2. e.state = s /\ e.activation = d.activation /\ e.session = d.session
  BY <1>1 DEF Delivery
<1>3. d.session = participants[p].session /\ d.state # "recorded"
  BY DEF Attempted, Authorized
<1>4. d.state = "uncertain" => s # "queued"
  OBVIOUS
<1>5. SetDelivery(m, p, e)
  BY DEF MoveTo
<1> HIDE DEF p, d, e
<1>6. SameRun(d, e) /\ RowKept(d, e, p, Retry(m, p))
  BY <1>2, <1>3, <1>4 DEF SameRun, RowKept
<1> QED BY <1>1, <1>5, <1>6, SetDeliveryKept DEF d

\* Every step of the mailbox keeps the evidence.
LEMMA MailKept == IInv /\ Mail => Kept
<1> SUFFICES ASSUME IInv, Mail PROVE Kept
  OBVIOUS
<1>1. ASSUME NEW w \in actors, NEW R \in SUBSET Participants, NEW type \in MessageTypes,
             NEW t \in Threads, NEW q \in 0..Len(messages), NEW k \in Keys,
             Send(w, R, type, t, q, k)
      PROVE  Kept
  <2> DEFINE msg == [sender |-> w.participant, thread |-> t, type |-> type,
                     human |-> FALSE, replyTo |-> q, key |-> k]
  <2>1. msg \in Message /\ msg.replyTo = q
    BY BoundsAssumption DEF IInv, TypeOK, Message, WorkerActor
  <2>2. \E answered : Store(msg, R, answered)
    BY <1>1 DEF Send
  <2> HIDE DEF msg
  <2> QED BY <2>1, <2>2, StoreKept
<1>2. ASSUME NEW m \in DOMAIN messages, NEW p \in Participants, NEW k \in Keys,
             Answer(m, p, k)
      PROVE  Kept
  <2> DEFINE msg == [sender |-> messages[m].sender, thread |-> messages[m].thread,
                     type |-> "reply", human |-> TRUE, replyTo |-> m, key |-> k]
  <2>1. messages[m] \in Message /\ m \in 0..MaxMessages /\ m \in 0..Len(messages)
    BY BoundsAssumption DEF IInv, TypeOK
  <2>2. msg \in Message /\ msg.replyTo = m
    BY <2>1 DEF Message, MessageTypes
  <2>3. Store(msg, {messages[m].sender, p}, {p})
    BY <1>2 DEF Answer
  <2> HIDE DEF msg
  <2> QED BY <2>1, <2>2, <2>3, StoreKept
<1>3. ASSUME NEW m \in DOMAIN messages, NEW p \in Participants, Retry(m, p)
      PROVE  Kept
  <2> DEFINE d == deliveries[m][p]
             e == [d EXCEPT !.state = "pending", !.activation = 0]
  <2>1. d \in Delivery
    BY MessageIds, RowTyped DEF IInv
  <2>2. e.state = "pending" /\ e.activation = 0
    BY <2>1 DEF Delivery
  <2>3. SetDelivery(m, p, e) /\ d.state = "uncertain"
    BY <1>3 DEF Retry
  <2> HIDE DEF d, e
  <2>4. SameRun(d, e) /\ RowKept(d, e, p, Retry(m, p))
    BY <1>3, <2>2, <2>3 DEF SameRun, RowKept
  <2> QED BY <2>3, <2>4, SetDeliveryKept DEF d
<1>4. ASSUME NEW m \in DOMAIN messages, NEW p \in Participants, Cancel(m, p)
      PROVE  Kept
  <2>1. \E o : SetDelivery(m, p, Withdraw(m, p, o))
    BY <1>4 DEF Cancel
  <2> QED BY <2>1, WithdrawKept, SetDeliveryKept
<1>5. ASSUME NEW w \in actors, NEW m \in DOMAIN messages, Claim(w, m)
      PROVE  Kept
  <2> DEFINE p == w.participant
             d == deliveries[m][p]
             e == [d EXCEPT !.state = "claimed", !.session = w.session,
                            !.generation = w.generation]
  <2>1. p \in Participants /\ m \in MsgIds /\ d \in Delivery
    BY MessageIds, RowTyped DEF IInv, TypeOK, WorkerActor
  <2>2. e.state = "claimed" /\ e.activation = d.activation
    BY <2>1 DEF Delivery
  <2>3. SetDelivery(m, p, e) /\ d.state = "pending"
    BY <1>5 DEF Claim
  <2>4. d.activation = 0
    BY <2>1, <2>3 DEF IInv, ClaimsHaveLiveActivation
  <2> HIDE DEF p, d, e
  <2>5. SameRun(d, e) /\ RowKept(d, e, p, Retry(m, p))
    BY <2>2, <2>3, <2>4 DEF SameRun, RowKept
  <2> QED BY <2>1, <2>3, <2>5, SetDeliveryKept DEF d
<1>6. ASSUME NEW w \in actors, NEW m \in DOMAIN messages,
             \/ Queue(w, m) \/ Receipt(w, m) \/ Uncertain(w, m) \/ Reconcile(w, m)
      PROVE  Kept
  BY <1>6, MoveKept DEF Queue, Receipt, Uncertain, Reconcile, CurrentAttempt
<1> QED BY <1>1, <1>2, <1>3, <1>4, <1>5, <1>6, RedirectKept, ResolveKept DEF Mail

(***************************************************************************)
(* Automatic activations                                                   *)
(***************************************************************************)

\* A caller that owns a run is in the session its rows were attempted in.
LEMMA OwnRows ==
    ASSUME EInv, NEW w \in actors, NEW a \in DOMAIN activations, Own(w, a),
           NEW m \in MsgIds, NEW p \in Participants, deliveries[m][p].activation = a
    PROVE  deliveries[m][p].session = participants[p].session
<1>1. a # 0
  BY ActivationIds DEF EInv, IInv
<1> QED BY <1>1 DEF EInv, RowsOfRuns, Own, Authorized

\* What a change of run a's state does to the runs.
LEMMA RunMoves ==
    ASSUME IInv, NEW a \in DOMAIN activations, NEW s \in ActivationStates,
           activations' = [activations EXCEPT ![a].state = s]
    PROVE  /\ DOMAIN activations' = DOMAIN activations
           /\ \A b \in DOMAIN activations :
                /\ activations'[b].participant = activations[b].participant
                /\ activations'[b].session = activations[b].session
                /\ activations'[b].state = IF b = a THEN s ELSE activations[b].state
<1>1. \A b \in DOMAIN activations : activations[b] \in Activation
  BY DEF IInv, TypeOK
<1> QED BY <1>1 DEF Activation

\* A refund of rows of which some have just been recorded.
LEMMA RefundKept ==
    ASSUME EInv, NEW ds \in [MsgIds -> [Participants -> Delivery]],
           NEW a \in DOMAIN activations, Refund(ds, a),
           \A m \in MsgIds, p \in Participants :
                \/ ds[m][p] = deliveries[m][p]
                \/ /\ ds[m][p].state = "recorded"
                   /\ ds[m][p].activation = deliveries[m][p].activation
                   /\ ds[m][p].session = deliveries[m][p].session
                   /\ deliveries[m][p].session = participants[p].session
    PROVE  Kept
<1>1. ASSUME NEW m \in MsgIds, NEW p \in Participants
      PROVE  /\ SameRun(deliveries[m][p], deliveries'[m][p])
             /\ RowKept(deliveries[m][p], deliveries'[m][p], p, Retry(m, p))
  <2> DEFINE d == deliveries[m][p]
             r == ds[m][p]
             e == [r EXCEPT !.state = IF r.obligation \in ActiveObligations /\ ThreadOpen(m)
                                      THEN "pending" ELSE "cancelled",
                            !.activation = 0, !.session = NoSession, !.generation = 0]
  <2>1. deliveries'[m][p] = IF r.activation = a /\ InFlight(r) THEN e ELSE r
    BY Zenon DEF Refund
  <2>2. e.activation = 0 /\ e.state \in {"pending", "cancelled"}
    <3>1. r \in Delivery
      OBVIOUS
    <3> HIDE DEF r
    <3> QED BY <3>1 DEF Delivery
  <2>3. r = d \/ /\ r.state = "recorded" /\ r.activation = d.activation
                 /\ r.session = d.session /\ d.session = participants[p].session
    OBVIOUS
  <2> HIDE DEF d, r, e
  <2>4. SameRun(d, deliveries'[m][p]) /\ RowKept(d, deliveries'[m][p], p, Retry(m, p))
    BY <2>1, <2>2, <2>3 DEF SameRun, RowKept, InFlight
  <2> QED BY <2>4 DEF d
<1>2. RunsKept
  <2>1. activations' = [activations EXCEPT ![a].state = "cancelled"]
    BY DEF Refund
  <2>2. "cancelled" \in ActivationStates
    BY DEF ActivationStates
  <2> QED BY <2>1, <2>2, RunMoves DEF RunsKept, EInv
<1> QED BY <1>1, <1>2 DEF Kept, RowsKept, SameRuns

\* A dispatch, or the refund it turns into, keeps the evidence.
LEMMA DispatchKept ==
    ASSUME EInv, NEW w \in actors, NEW a \in DOMAIN activations, AutoDispatch(w, a)
    PROVE  Kept
<1>1. CASE PausedFor(w.participant) \/ Obsolete(a)
  <2>1. deliveries \in [MsgIds -> [Participants -> Delivery]]
    BY DEF EInv, IInv, TypeOK
  <2> QED BY <1>1, <2>1, RefundKept DEF AutoDispatch
<1>2. CASE ~(PausedFor(w.participant) \/ Obsolete(a))
  <2>1. ASSUME NEW m \in MsgIds, NEW p \in Participants
        PROVE  /\ SameRun(deliveries[m][p], deliveries'[m][p])
               /\ RowKept(deliveries[m][p], deliveries'[m][p], p, Retry(m, p))
    <3> DEFINE d == deliveries[m][p]
               e == [d EXCEPT !.state = "queued"]
    <3>1. deliveries'[m][p] = IF d.activation = a THEN e ELSE d
      BY <1>2 DEF AutoDispatch
    <3>2. e.state = "queued" /\ e.activation = d.activation /\ e.session = d.session
      BY RowTyped DEF EInv, IInv, Delivery
    <3>3. d.activation = a => d.state = "claimed"
      <4>1. d.activation = a => m \in DOMAIN messages
        BY ActivationIds DEF EInv, IInv, EmptyRows
      <4> QED BY <1>2, <4>1 DEF Obsolete
    <3> HIDE DEF d, e
    <3>4. SameRun(d, deliveries'[m][p]) /\ RowKept(d, deliveries'[m][p], p, Retry(m, p))
      BY <3>1, <3>2, <3>3 DEF SameRun, RowKept
    <3> QED BY <3>4 DEF d
  <2>2. RunsKept
    <3>1. activations' = [activations EXCEPT ![a].state = "dispatched"]
      BY <1>2 DEF AutoDispatch
    <3>2. "dispatched" \in ActivationStates
      BY DEF ActivationStates
    <3> QED BY <3>1, <3>2, RunMoves DEF RunsKept, EInv
  <2> QED BY <2>1, <2>2 DEF Kept, RowsKept, SameRuns
<1> QED BY <1>1, <1>2

\* A reconciliation records only what the session file proves.
LEMMA ReconcileKept ==
    ASSUME EInv, NEW w \in actors, NEW a \in DOMAIN activations, NEW E,
           AutoReconcile(w, a, E)
    PROVE  Kept
<1> DEFINE ds == RecordedBy(a, E)
<1>1. ds \in [MsgIds -> [Participants -> Delivery]]
  BY RecordedByTyped DEF EInv, IInv
<1>2. \A m \in MsgIds, p \in Participants :
        \/ ds[m][p] = deliveries[m][p]
        \/ /\ ds[m][p].state = "recorded"
           /\ ds[m][p].activation = deliveries[m][p].activation
           /\ ds[m][p].session = deliveries[m][p].session
           /\ deliveries[m][p].session = participants[p].session
  BY RecordedByRow, OwnRows DEF EInv, IInv, AutoReconcile, OwnCurrent
<1>3. Refund(ds, a)
  BY DEF AutoReconcile
<1> HIDE DEF ds
<1> QED BY <1>1, <1>2, <1>3, RefundKept

\* A finish settles only what is recorded in full.
LEMMA FinishKept ==
    ASSUME EInv, NEW w \in actors, NEW a \in DOMAIN activations,
           NEW complete \in BOOLEAN, NEW E, AutoFinish(w, a, complete, E)
    PROVE  RowsKept /\ RowsOfRuns' /\ SettledIsProven'
<1>1. ASSUME NEW m \in MsgIds, NEW p \in Participants
      PROVE  /\ SameRun(deliveries[m][p], deliveries'[m][p])
             /\ RowKept(deliveries[m][p], deliveries'[m][p], p, Retry(m, p))
  <2> DEFINE d == deliveries[m][p]
             r == RecordedBy(a, E)[m][p]
             e == [r EXCEPT !.state = "uncertain"]
  <2>1. deliveries'[m][p] = IF r.activation = a /\ InFlight(r) THEN e ELSE r
    BY DEF AutoFinish
  <2>2. r \in Delivery
    BY RecordedByTyped DEF EInv, IInv
  <2>3. /\ r.activation = d.activation /\ r.session = d.session
        /\ r = d \/ (r.state = "recorded" /\ d.activation = a)
    BY RecordedByRow DEF EInv, IInv
  <2>4. d.activation = a => d.session = participants[p].session
    BY OwnRows DEF AutoFinish
  <2> HIDE DEF d, r
  <2>5. e.state = "uncertain" /\ e.activation = r.activation /\ e.session = r.session
    BY <2>2 DEF Delivery
  <2> HIDE DEF e
  <2>6. SameRun(d, deliveries'[m][p]) /\ RowKept(d, deliveries'[m][p], p, Retry(m, p))
    BY <2>1, <2>3, <2>4, <2>5 DEF SameRun, RowKept, InFlight
  <2> QED BY <2>6 DEF d
<1>2. RowsKept /\ SameRuns
  BY <1>1 DEF RowsKept, SameRuns
<1> DEFINE missing == \E m \in MsgIds, p \in Participants :
                         /\ deliveries'[m][p].activation = a
                         /\ deliveries'[m][p].state # "recorded"
           s == IF missing \/ ~complete THEN "uncertain" ELSE "settled"
<1>3. activations' = [activations EXCEPT ![a].state = s]
  BY DEF AutoFinish
<1>4. s \in ActivationStates
  BY DEF ActivationStates
<1>5. s = "settled" =>
        \A m \in MsgIds, p \in Participants :
            deliveries'[m][p].activation = a => deliveries'[m][p].state = "recorded"
  OBVIOUS
<1> HIDE DEF missing, s
<1>6. /\ DOMAIN activations' = DOMAIN activations
      /\ \A b \in DOMAIN activations :
            /\ activations'[b].participant = activations[b].participant
            /\ activations'[b].session = activations[b].session
            /\ activations'[b].state = IF b = a THEN s ELSE activations[b].state
  BY <1>3, <1>4, RunMoves DEF EInv
<1>7. RowsOfRuns'
  BY <1>2, <1>6 DEF EInv, SameRuns, SameRun, RowsOfRuns
<1>8. SettledIsProven'
  <2> SUFFICES ASSUME NEW b \in DOMAIN activations', activations'[b].state = "settled",
                      NEW m \in MsgIds, NEW p \in Participants,
                      deliveries'[m][p].activation = b
               PROVE  deliveries'[m][p].state = "recorded"
    BY DEF SettledIsProven
  <2>1. b \in DOMAIN activations /\ b # 0
    BY <1>6, ActivationIds DEF EInv, IInv
  <2>2. CASE b = a
    BY <1>5, <1>6, <2>1, <2>2
  <2>3. CASE b # a
    <3>1. deliveries[m][p].activation = b /\ activations[b].state = "settled"
      BY <1>2, <1>6, <2>1, <2>3 DEF SameRuns, SameRun
    <3>2. deliveries[m][p].state = "recorded"
      BY <2>1, <3>1 DEF EInv, SettledIsProven
    <3> QED BY <1>2, <3>2 DEF RowsKept, RowKept
  <2> QED BY <2>2, <2>3
<1> QED BY <1>2, <1>7, <1>8

\* A reservation takes pending rows into a run that is new.
LEMMA ReserveKept ==
    ASSUME EInv, NEW w \in actors, AutoReserve(w)
    PROVE  RowsKept /\ RowsOfRuns' /\ SettledIsProven'
<1> DEFINE a == Len(activations) + 1
           p0 == w.participant
           act == [participant |-> p0, session |-> w.session,
                   generation |-> w.generation, state |-> "reserved"]
           claimed(m) == [deliveries[m][p0] EXCEPT
                             !.state = "claimed", !.activation = a,
                             !.session = w.session, !.generation = w.generation]
<1>1. p0 \in Participants
  BY DEF EInv, IInv, TypeOK, WorkerActor
<1>2. \A m \in MsgIds, r \in Participants :
        deliveries'[m][r] = IF m \in Batch(p0) /\ r = p0
                            THEN claimed(m) ELSE deliveries[m][r]
  BY Zenon DEF AutoReserve
<1>3. \A m \in MsgIds : /\ claimed(m).state = "claimed" /\ claimed(m).activation = a
                        /\ claimed(m).session = w.session
  <2> SUFFICES ASSUME NEW m \in MsgIds
               PROVE  /\ claimed(m).state = "claimed" /\ claimed(m).activation = a
                      /\ claimed(m).session = w.session
    OBVIOUS
  <2>1. deliveries[m][p0] \in Delivery
    BY <1>1, RowTyped DEF EInv, IInv
  <2> HIDE DEF a, p0
  <2> QED BY <2>1 DEF Delivery
<1>4. \A m \in Batch(p0) : deliveries[m][p0].state = "pending"
  BY DEF Batch, Candidates
<1>5. act.participant = p0 /\ act.session = w.session /\ act.state = "reserved"
  OBVIOUS
<1>6. activations' = Append(activations, act) /\ activations \in Seq(Activation)
  BY DEF AutoReserve, EInv, IInv, TypeOK
<1> HIDE DEF act, claimed, p0
<1>7. /\ DOMAIN activations' = DOMAIN activations \cup {a}
      /\ a \notin DOMAIN activations /\ activations'[a] = act /\ a # 0
      /\ \A b \in DOMAIN activations : activations'[b] = activations[b]
  <2>1. Len(activations) \in Nat /\ DOMAIN activations = 1..Len(activations)
    BY <1>6
  <2> QED BY <1>6, <2>1
<1> HIDE DEF a
<1>8. RowsKept
  BY <1>2, <1>3, <1>4, SameRowKept DEF RowsKept, RowKept
<1>9. RowsOfRuns'
  <2> SUFFICES ASSUME NEW m \in MsgIds, NEW r \in Participants,
                      deliveries'[m][r].activation # 0
               PROVE  LET e == deliveries'[m][r] IN
                      /\ e.activation \in DOMAIN activations'
                      /\ activations'[e.activation].participant = r
                      /\ activations'[e.activation].session = e.session
    BY DEF RowsOfRuns
  <2>1. CASE m \in Batch(p0) /\ r = p0
    BY <1>2, <1>3, <1>5, <1>7, <2>1
  <2>2. CASE ~(m \in Batch(p0) /\ r = p0)
    BY <1>2, <1>7, <2>2 DEF EInv, RowsOfRuns
  <2> QED BY <2>1, <2>2
<1>10. SettledIsProven'
  <2> SUFFICES ASSUME NEW b \in DOMAIN activations', activations'[b].state = "settled",
                      NEW m \in MsgIds, NEW r \in Participants,
                      deliveries'[m][r].activation = b
               PROVE  deliveries'[m][r].state = "recorded"
    BY DEF SettledIsProven
  <2>1. b \in DOMAIN activations /\ activations[b].state = "settled" /\ b # a
    BY <1>5, <1>7
  <2>2. deliveries'[m][r] = deliveries[m][r]
    BY <1>2, <1>3, <2>1
  <2> QED BY <2>1, <2>2 DEF EInv, SettledIsProven
<1> QED BY <1>8, <1>9, <1>10

(***************************************************************************)
(* The theorems                                                            *)
(***************************************************************************)
\* Nothing is on record in the empty store.
LEMMA InitEInv == Init => EInv
<1> SUFFICES ASSUME Init PROVE EInv
  OBVIOUS
<1>1. DOMAIN activations = {}
  BY DEF Init
<1>2. \A m \in MsgIds, p \in Participants : deliveries[m][p].activation = 0
  BY DEF Init, Absent
<1> QED BY <1>1, <1>2, InitIInv DEF EInv, RowsOfRuns, SettledIsProven

\* Every step keeps the invariant and the evidence of every row.
LEMMA StepKeepsEvidence == EInv /\ [Next]_vars => EInv' /\ RowsKept
<1> SUFFICES ASSUME EInv, [Next]_vars PROVE EInv' /\ RowsKept
  OBVIOUS
<1>1. IInv'
  BY StepKeepsIInv DEF EInv
<1>2. RowsKept /\ RowsOfRuns' /\ SettledIsProven'
  <2>1. CASE UNCHANGED vars
    <3>1. Kept
      BY <2>1, SameRowsKept DEF vars
    <3> QED BY <3>1, KeptKeepsRuns DEF Kept
  <2>2. CASE Membership
    BY <2>2, MembershipKept, KeptKeepsRuns DEF Kept, EInv
  <2>3. CASE Mail
    BY <2>3, MailKept, KeptKeepsRuns DEF Kept, EInv
  <2>4. ASSUME NEW w \in actors, NEW a \in DOMAIN activations, AutoCancel(w, a)
        PROVE  Kept
    <3>1. deliveries \in [MsgIds -> [Participants -> Delivery]]
      BY DEF EInv, IInv, TypeOK
    <3> QED BY <2>4, <3>1, RefundKept DEF AutoCancel
  <2>5. ASSUME WindowSlides PROVE Kept
    BY <2>5, SameRowsKept DEF WindowSlides, mailVars
  <2>6. CASE Automation
    <3>1. CASE Kept
      BY <3>1, KeptKeepsRuns DEF Kept
    <3> QED BY <2>4, <2>5, <2>6, <3>1, DispatchKept, ReconcileKept, FinishKept,
               ReserveKept DEF Automation
  <2> QED BY <2>1, <2>2, <2>3, <2>6 DEF Next
<1> QED BY <1>1, <1>2 DEF EInv

\* The evidence invariant holds in every reachable state (store.ts and
\* automation-store.ts: every write of a delivery row).
THEOREM EvidenceInvariance == Spec => []EInv
<1>1. EInv /\ [Next]_vars => EInv'
  BY StepKeepsEvidence
<1> QED BY <1>1, InitEInv, PTL DEF Spec

\* A settled run has proof of recording for every message that still counts as
\* its own, whatever was interrupted, refunded, retried or reported late.
THEOREM SettledRunsAreProven == Spec => []SettledIsProven
<1>1. EInv => SettledIsProven
  BY DEF EInv
<1> QED BY <1>1, EvidenceInvariance, PTL

\* Wherever a behaviour starts: while the invariant holds, the store's steps replay
\* nothing silently.
LEMMA StepsReplayNothing == []EInv /\ [][Next]_vars => NoSilentReplay
<1> DEFINE Silent == \A m \in MsgIds, p \in Participants :
        /\ deliveries[m][p].state = "recorded" => deliveries'[m][p].state = "recorded"
        /\ deliveries[m][p].state = "uncertain" /\ deliveries'[m][p].state \in
             {"pending", "claimed", "queued"} => Retry(m, p)
<1>1. EInv /\ [Next]_vars => [Silent]_vars
  BY StepKeepsEvidence DEF RowsKept, RowKept
<1>2. NoSilentReplay <=> [][Silent]_vars
  BY DEF NoSilentReplay
<1> HIDE DEF Silent
<1> QED BY <1>1, <1>2, PTL

\* What is recorded is never offered again, and uncertain work returns to the
\* mailbox only by a human retry.
THEOREM NothingReplayedSilently == Spec => NoSilentReplay
BY StepsReplayNothing, EvidenceInvariance, PTL DEF Spec

\* Wherever a behaviour starts: while the invariant holds, a delivery is recorded
\* only on the word of its session.
LEMMA StepsRecordBySession == []EInv /\ [][Next]_vars => EvidenceFromAttemptSession
<1> DEFINE Owned == \A m \in MsgIds, p \in Participants :
        deliveries[m][p].state # "recorded" /\ deliveries'[m][p].state = "recorded" =>
            deliveries[m][p].session = participants[p].session
<1>1. EInv /\ [Next]_vars => [Owned]_vars
  BY StepKeepsEvidence DEF RowsKept, RowKept
<1>2. EvidenceFromAttemptSession <=> [][Owned]_vars
  BY DEF EvidenceFromAttemptSession
<1> HIDE DEF Owned
<1> QED BY <1>1, <1>2, PTL

\* A delivery is recorded only on the word of the session it was attempted in.
THEOREM RecordedByItsSession == Spec => EvidenceFromAttemptSession
BY StepsRecordBySession, EvidenceInvariance, PTL DEF Spec

(***************************************************************************)
(* What a step may do to a run                                             *)
(***************************************************************************)
\* Run a starts, or is doubted, in this step.
Starts(a) == activations[a].state = "reserved" /\ activations'[a].state = "dispatched"
Doubted(a) == IsLive(a) /\ activations'[a].state = "uncertain"

LeavesPaused(P) ==
    \A p \in P \cap Participants : HasLiveActivation(p) => participants'[p].paused

\* A step that leaves the ledger alone starts and doubts nothing.
LEMMA SameLedgerStep ==
    ASSUME UNCHANGED activations, NEW a PROVE ~Starts(a) /\ ~Doubted(a)
BY DEF Starts, Doubted, IsLive

\* What a change of run a's state does to the runs.
LEMMA RunStateMoves ==
    ASSUME IInv, NEW a \in DOMAIN activations, NEW s,
           activations' = [activations EXCEPT ![a].state = s]
    PROVE  \A b \in DOMAIN activations :
                activations'[b].state = IF b = a THEN s ELSE activations[b].state
<1>1. \A b \in DOMAIN activations : activations[b] \in Activation
  BY DEF IInv, TypeOK
<1> QED BY <1>1 DEF Activation

(***************************************************************************)
(* Connections that end                                                    *)
(***************************************************************************)
\* Whatever ends the connections of members P pauses those with a live run.
LEMMA UnlinkedPauses ==
    ASSUME IInv, NEW P, NEW p \in P \cap Participants, HasLiveActivation(p)
    PROVE  Unlinked(P)[p].paused /\ Unlinked(P)[p] \in ParticipantRow
<1>1. participants[p] \in ParticipantRow
  BY DEF IInv, TypeOK
<1>2. Unlinked(P)[p] = [participants[p] EXCEPT !.link = "none",
                                               !.paused = @ \/ HasLiveActivation(p)]
  BY DEF Unlinked
<1> QED BY <1>1, <1>2 DEF ParticipantRow

\* An end of connections starts no run and doubts only runs of paused members.
LEMMA SeverStep ==
    ASSUME IInv, NEW P, Sever(P), LeavesPaused(P), NEW a \in DOMAIN activations
    PROVE  /\ ~Starts(a)
           /\ Doubted(a) => participants'[activations[a].participant].paused
<1>1. activations[a] \in Activation
  BY DEF IInv, TypeOK
<1>2. activations'[a] = IF activations[a].participant \in P /\ IsLive(a)
                        THEN [activations[a] EXCEPT !.state = "uncertain"]
                        ELSE activations[a]
  BY DEF Sever, InterruptedActivations
<1>3. ~Starts(a)
  BY <1>1, <1>2 DEF Starts, Activation
<1>4. ASSUME Doubted(a) PROVE participants'[activations[a].participant].paused
  <2>1. activations[a].participant \in P \cap Participants
    BY <1>1, <1>2, <1>4 DEF Doubted, IsLive, Activation
  <2>2. HasLiveActivation(activations[a].participant)
    BY <1>4 DEF Doubted, HasLiveActivation
  <2> QED BY <2>1, <2>2 DEF LeavesPaused
<1> QED BY <1>3, <1>4

\* A membership step leaves the ledger alone or ends connections with a pause.
LEMMA MembershipSevers ==
    ASSUME IInv, Membership
    PROVE  UNCHANGED activations \/ \E P : Sever(P) /\ LeavesPaused(P)
<1>1. ASSUME NEW P, participants' = Unlinked(P) PROVE LeavesPaused(P)
  BY <1>1, UnlinkedPauses DEF LeavesPaused
<1>2. ASSUME NEW p \in Participants, NEW s \in Sessions, Rejoin(p, s)
      PROVE  LeavesPaused({p})
  <2> DEFINE row == Unlinked({p})[p]
  <2>1. participants'[p] = [row EXCEPT !.joined = TRUE, !.session = s]
    BY <1>2 DEF Rejoin, Unlinked
  <2>2. HasLiveActivation(p) => participants'[p].paused
    <3> HAVE HasLiveActivation(p)
    <3>1. row \in ParticipantRow /\ row.paused
      BY UnlinkedPauses
    <3> HIDE DEF row
    <3> QED BY <2>1, <3>1 DEF ParticipantRow
  <2> QED BY <2>2 DEF LeavesPaused
<1>3. ASSUME NEW p \in Participants, Connect(p)
      PROVE  LeavesPaused({p})
  <2> DEFINE row == Unlinked({p})[p]
  <2>1. participants'[p] = [row EXCEPT !.generation = participants[p].generation + 1,
                                     !.link = "live"]
    BY <1>3 DEF Connect, Unlinked
  <2>2. HasLiveActivation(p) => participants'[p].paused
    <3> HAVE HasLiveActivation(p)
    <3>1. row \in ParticipantRow /\ row.paused
      BY UnlinkedPauses
    <3> HIDE DEF row
    <3> QED BY <2>1, <3>1 DEF ParticipantRow
  <2> QED BY <2>2 DEF LeavesPaused
<1>4. ASSUME NEW p \in Participants, Leave(p)
      PROVE  LeavesPaused({p})
  <2> DEFINE row == Unlinked({p})[p]
  <2>1. participants'[p] = [row EXCEPT !.joined = FALSE]
    BY <1>4 DEF Leave, Unlinked
  <2>2. HasLiveActivation(p) => participants'[p].paused
    <3> HAVE HasLiveActivation(p)
    <3>1. row \in ParticipantRow /\ row.paused
      BY UnlinkedPauses
    <3> HIDE DEF row
    <3> QED BY <2>1, <3>1 DEF ParticipantRow
  <2> QED BY <2>2 DEF LeavesPaused
<1> QED
  BY <1>1, <1>2, <1>3, <1>4
  DEF Membership, Join, Rejoin, Connect, Disconnect, LeaseLapse, Expire, BrokerRestart,
      Leave, Pause, PauseRoom, wakeVars

\* No step of the mailbox touches the ledger.
LEMMA MailSameLedger == Mail => UNCHANGED activations
<1>1. ASSUME NEW msg, NEW R, NEW answered, Store(msg, R, answered)
      PROVE  UNCHANGED activations
  BY <1>1 DEF Store, wakeVars
<1>2. ASSUME NEW m, NEW p, NEW d, SetDelivery(m, p, d) PROVE UNCHANGED activations
  BY <1>2 DEF SetDelivery, wakeVars
<1>3. ASSUME NEW w \in actors, NEW m, NEW s, MoveTo(w, m, s) PROVE UNCHANGED activations
  BY <1>2, <1>3 DEF MoveTo
<1>4. ASSUME NEW m, NEW p, NEW k, Answer(m, p, k) PROVE UNCHANGED activations
  BY <1>1, <1>4 DEF Answer
<1>5. ASSUME NEW w, NEW R, NEW type, NEW t, NEW q, NEW k, Send(w, R, type, t, q, k)
      PROVE  UNCHANGED activations
  BY <1>1, <1>5 DEF Send
<1>6. ASSUME NEW m, NEW p, Retry(m, p) \/ Cancel(m, p) PROVE UNCHANGED activations
  BY <1>2, <1>6 DEF Retry, Cancel
<1>7. ASSUME NEW m, NEW p, NEW next, Redirect(m, p, next) PROVE UNCHANGED activations
  BY <1>7 DEF Redirect, wakeVars
<1>8. ASSUME NEW t, Resolve(t) PROVE UNCHANGED activations
  BY <1>8 DEF Resolve, wakeVars
<1>9. ASSUME NEW w \in actors, NEW m, Claim(w, m) PROVE UNCHANGED activations
  BY <1>2, <1>9 DEF Claim
<1>10. ASSUME NEW w \in actors, NEW m,
              Queue(w, m) \/ Receipt(w, m) \/ Uncertain(w, m) \/ Reconcile(w, m)
       PROVE  UNCHANGED activations
  BY <1>3, <1>10 DEF Queue, Receipt, Uncertain, Reconcile
<1> QED BY <1>4, <1>5, <1>6, <1>7, <1>8, <1>9, <1>10 DEF Mail

(***************************************************************************)
(* Automatic activations                                                   *)
(***************************************************************************)
\* What the last look of a dispatch has made sure of.
LastLook(a) ==
    /\ ~PausedFor(activations[a].participant)
    /\ \A m \in MsgIds, p \in Participants :
         deliveries[m][p].activation = a =>
            /\ deliveries[m][p].obligation \in ActiveObligations
            /\ ThreadOpen(m) /\ deliveries'[m][p].state = "queued"

\* A refund starts and doubts nothing.
LEMMA RefundStep ==
    ASSUME IInv, NEW ds, NEW b \in DOMAIN activations, Refund(ds, b),
           NEW a \in DOMAIN activations
    PROVE  ~Starts(a) /\ ~Doubted(a)
<1>1. activations' = [activations EXCEPT ![b].state = "cancelled"]
  BY DEF Refund
<1>2. activations'[a].state = IF a = b THEN "cancelled" ELSE activations[a].state
  BY <1>1, RunStateMoves
<1> QED BY <1>2 DEF Starts, Doubted, IsLive

\* A reservation starts and doubts nothing.
LEMMA ReserveStep ==
    ASSUME IInv, NEW w \in actors, AutoReserve(w), NEW a \in DOMAIN activations
    PROVE  ~Starts(a) /\ ~Doubted(a)
<1>1. activations \in Seq(Activation)
  BY DEF IInv, TypeOK
<1>2. PICK new : activations' = Append(activations, new)
  BY DEF AutoReserve
<1>3. activations'[a] = activations[a]
  BY <1>1, <1>2
<1> QED BY <1>3 DEF Starts, Doubted, IsLive

\* A dispatch starts a run after the last look, and doubts none.
LEMMA DispatchStep ==
    ASSUME IInv, NEW w \in actors, NEW b \in DOMAIN activations, AutoDispatch(w, b),
           NEW a \in DOMAIN activations
    PROVE  (Starts(a) => LastLook(a)) /\ ~Doubted(a)
<1>1. CASE PausedFor(w.participant) \/ Obsolete(b)
  <2>1. Refund(deliveries, b)
    BY <1>1 DEF AutoDispatch
  <2> QED BY <2>1, RefundStep
<1>2. CASE ~(PausedFor(w.participant) \/ Obsolete(b))
  <2>1. /\ activations' = [activations EXCEPT ![b].state = "dispatched"]
        /\ \A m \in MsgIds, p \in Participants :
             deliveries'[m][p] = IF deliveries[m][p].activation = b
                                 THEN [deliveries[m][p] EXCEPT !.state = "queued"]
                                 ELSE deliveries[m][p]
    BY <1>2 DEF AutoDispatch
  <2>2. activations'[a].state = IF a = b THEN "dispatched" ELSE activations[a].state
    BY <2>1, RunStateMoves
  <2>3. ASSUME Starts(a) PROVE LastLook(a)
    <3>1. a = b /\ a # 0
      BY <2>2, <2>3, ActivationIds DEF Starts, IInv
    <3>2. ~PausedFor(activations[a].participant)
      BY <1>2, <3>1 DEF AutoDispatch, OwnCurrent, Own
    <3>3. ASSUME NEW m \in MsgIds, NEW p \in Participants, deliveries[m][p].activation = a
          PROVE  /\ deliveries[m][p].obligation \in ActiveObligations
                 /\ ThreadOpen(m) /\ deliveries'[m][p].state = "queued"
      <4>1. m \in DOMAIN messages
        BY <3>1, <3>3 DEF IInv, EmptyRows
      <4>2. deliveries[m][p].obligation \in ActiveObligations /\ ThreadOpen(m)
        BY <1>2, <3>1, <3>3, <4>1 DEF Obsolete
      <4>3. deliveries'[m][p].state = "queued"
        BY <2>1, <3>1, <3>3, RowTyped DEF IInv, Delivery
      <4> QED BY <4>2, <4>3
    <3> QED BY <3>2, <3>3 DEF LastLook
  <2> QED BY <2>2, <2>3 DEF Doubted, IsLive
<1> QED BY <1>1, <1>2

\* A finish starts none, and doubts only its own run.
LEMMA FinishStep ==
    ASSUME IInv, NEW w \in actors, NEW b \in DOMAIN activations,
           NEW complete \in BOOLEAN, NEW E \in SUBSET DOMAIN messages,
           AutoFinish(w, b, complete, E), NEW a \in DOMAIN activations
    PROVE  /\ ~Starts(a)
           /\ Doubted(a) => \/ participants'[activations[a].participant].paused
                            \/ AutoFinish(w, a, TRUE, E)
<1>1. \E s \in {"uncertain", "settled"} :
        activations' = [activations EXCEPT ![b].state = s]
  BY DEF AutoFinish
<1>2. PICK s \in {"uncertain", "settled"} :
        \A c \in DOMAIN activations :
            activations'[c].state = IF c = b THEN s ELSE activations[c].state
  BY <1>1, RunStateMoves
<1>3. ~Starts(a)
  BY <1>2 DEF Starts
<1>4. ASSUME Doubted(a), ~AutoFinish(w, a, TRUE, E)
      PROVE  participants'[activations[a].participant].paused
  <2>1. a = b
    BY <1>2, <1>4 DEF Doubted, IsLive
  <2>2. ~complete
    BY <1>4, <2>1
  <2>3. w.participant \in Participants /\ participants[w.participant] \in ParticipantRow
    BY DEF IInv, TypeOK, WorkerActor
  <2>4. /\ activations[a].participant = w.participant
        /\ participants' = [participants EXCEPT ![w.participant].paused = @ \/ ~complete]
    BY <2>1 DEF AutoFinish, Own
  <2> QED BY <2>2, <2>3, <2>4 DEF IInv, TypeOK, ParticipantRow
<1> QED BY <1>3, <1>4

(***************************************************************************)
(* Theorems                                                                *)
(***************************************************************************)
\* What any step may do to run a.
LEMMA StepRevalidatesAndPauses ==
    ASSUME IInv, [Next]_vars, NEW a \in DOMAIN activations
    PROVE  /\ Starts(a) => LastLook(a)
           /\ Doubted(a) => \/ participants'[activations[a].participant].paused
                            \/ \E w \in actors, E \in SUBSET DOMAIN messages :
                                 AutoFinish(w, a, TRUE, E)
<1>1. CASE UNCHANGED activations
  BY <1>1, SameLedgerStep
<1>2. CASE Membership
  BY <1>2, MembershipSevers, SeverStep, SameLedgerStep
<1>3. CASE Mail
  BY <1>1, <1>3, MailSameLedger
<1>4. CASE Automation
  <2> DEFINE Goal == /\ Starts(a) => LastLook(a)
                     /\ Doubted(a) => \/ participants'[activations[a].participant].paused
                                      \/ \E w \in actors, E \in SUBSET DOMAIN messages :
                                           AutoFinish(w, a, TRUE, E)
  <2>1. ASSUME NEW w \in actors, AutoReserve(w) PROVE Goal
    BY <2>1, ReserveStep
  <2>2. ASSUME NEW w \in actors, NEW b \in DOMAIN activations,
               AutoCancel(w, b) \/ \E E \in SUBSET DOMAIN messages : AutoReconcile(w, b, E)
        PROVE  Goal
    <3>1. \E ds : Refund(ds, b)
      BY <2>2 DEF AutoCancel, AutoReconcile
    <3> QED BY <3>1, RefundStep
  <2>3. ASSUME NEW w \in actors, NEW b \in DOMAIN activations, AutoDispatch(w, b)
        PROVE  Goal
    BY <2>3, DispatchStep
  <2>4. ASSUME NEW w \in actors, NEW b \in DOMAIN activations, NEW complete \in BOOLEAN,
               NEW E \in SUBSET DOMAIN messages, AutoFinish(w, b, complete, E)
        PROVE  Goal
    BY <2>4, FinishStep
  <2>5. WindowSlides => Goal
    BY SameLedgerStep DEF WindowSlides
  <2> HIDE DEF Goal
  <2>6. Goal
    BY <1>4, <2>1, <2>2, <2>3, <2>4, <2>5 DEF Automation
  <2> QED BY <2>6 DEF Goal
<1>5. UNCHANGED vars => UNCHANGED activations
  BY DEF vars, wakeVars
<1> QED BY <1>1, <1>2, <1>3, <1>4, <1>5 DEF Next

\* Wherever a behaviour starts: while the store's invariant holds, every dispatch
\* looks at its batch again.
LEMMA StepsRevalidate == []IInv /\ [][Next]_vars => DispatchRevalidates
<1> DEFINE Revalidated == \A a \in DOMAIN activations :
        activations[a].state = "reserved" /\ activations'[a].state = "dispatched" =>
            /\ ~PausedFor(activations[a].participant)
            /\ \A m \in MsgIds, p \in Participants :
                 deliveries[m][p].activation = a =>
                    /\ deliveries[m][p].obligation \in ActiveObligations
                    /\ ThreadOpen(m) /\ deliveries'[m][p].state = "queued"
<1>1. IInv /\ [Next]_vars => [Revalidated]_vars
  BY StepRevalidatesAndPauses DEF Starts, LastLook
<1>2. DispatchRevalidates <=> [][Revalidated]_vars
  BY DEF DispatchRevalidates
<1> HIDE DEF Revalidated
<1> QED BY <1>1, <1>2, PTL

\* A run is dispatched only while its member is not paused and every message
\* of its batch is still wanted, whatever happened since the reservation
\* (automation-store.ts: dispatch).
THEOREM RevalidatesBeforeInsertion == Spec => DispatchRevalidates
BY StepsRevalidate, Invariance, PTL DEF Spec

\* Wherever a behaviour starts: while the store's invariant holds, a doubtful end
\* pauses the member.
LEMMA StepsPauseOnDoubt == []IInv /\ [][Next]_vars => InterruptionPauses
<1> DEFINE Pauses == \A a \in DOMAIN activations :
        IsLive(a) /\ activations'[a].state = "uncertain" =>
            \/ participants'[activations[a].participant].paused
            \/ \E w \in actors, E \in SUBSET DOMAIN messages : AutoFinish(w, a, TRUE, E)
<1>1. IInv /\ [Next]_vars => [Pauses]_vars
  BY StepRevalidatesAndPauses DEF Doubted
<1>2. InterruptionPauses <=> [][Pauses]_vars
  BY DEF InterruptionPauses
<1> HIDE DEF Pauses
<1> QED BY <1>1, <1>2, PTL

\* A live run that turns uncertain leaves its member paused, unless a report of
\* a complete run itself lacked a recording (automation-store.ts: interrupt and
\* finish; store.ts: every end of a connection).
THEOREM DoubtPausesMember == Spec => InterruptionPauses
BY StepsPauseOnDoubt, Invariance, PTL DEF Spec

=============================================================================
