------------------------- MODULE ManualDeliveryProofs -------------------------
(***************************************************************************)
(* TLAPS proofs about ManualDelivery: every step of a manual delivery is a *)
(* step of the store, so the store's invariant holds under it; and over it *)
(* the three promises of delivery by hand.  Recorded messages are on file  *)
(* because a receipt is only sent on evidence, which no crash takes back.  *)
(* Nothing is repeated silently because what may still be inserted (the    *)
(* pending row, or a command that holds a granted claim) never outnumbers  *)
(* what the human has allowed.  An attempt is watched because a command    *)
(* gives up only on an answer that ends the attempt, or on the loss of its *)
(* connection.  What is proved of the store's steps carries over.          *)
(***************************************************************************)
EXTENDS ManualDelivery, TeamStoreEvidence, TeamStoreLimits

USE DEF InFlightStates, LiveStates

(***************************************************************************)
(* The invariant                                                           *)
(***************************************************************************)
ClientRow == [participant: {Worker}, session: Sessions \cup {NoSession},
              generation: 0..MaxGeneration]
CommandRow ==
    [at: Calling \cup {"none", "reading", "inserting", "proving", "confirming"},
     session: Sessions \cup {NoSession}, stale: BOOLEAN, by: ClientRow,
     message: 0..MaxMessages, attempt: Nat, reply: {"none", "ok", "error"}]

\* The row of the worker whose mailbox is delivered.
Member == participants[Worker]
Row(m) == deliveries[m][Worker]

\* A connection of the worker was opened no later than the present one, and
\* the present one is bound to the session of the row.
Dated(w) ==
    /\ w.generation <= Member.generation
    /\ Member.link # "none" /\ w.generation = Member.generation =>
        w.session = Member.session

\* A command, or a call it has given up, works for a session and a message,
\* knows no attempt to come, and reports a recording only on evidence.
Issued(cmd) ==
    /\ cmd \in CommandRow
    /\ cmd.session \in Sessions /\ cmd.message \in MsgIds
    /\ cmd.by.session = cmd.session /\ cmd.by.generation # 0 /\ Dated(cmd.by)
    /\ cmd.attempt <= attempt[cmd.message]
    /\ cmd.at \in {"receipt", "reconcile"} => onFile[cmd.session][cmd.message] > 0

Working(c) == commands[c].at # "none"

ManualType ==
    /\ client \in [Sessions -> ClientRow]
    /\ commands \in [Commands -> CommandRow] /\ orphans \subseteq CommandRow
    /\ attempt \in [MsgIds -> Nat]
    /\ copies \in [Sessions -> [MsgIds -> Nat]]
    /\ onFile \in [Sessions -> [MsgIds -> Nat]]
    /\ allowed \in [MsgIds -> Int]
    /\ DOMAIN messages = MsgIds

Connections ==
    \A s \in Sessions : client[s] # Offline =>
        client[s].session = s /\ client[s].generation # 0 /\ Dated(client[s])

FileGrows == \A s \in Sessions, m \in MsgIds : onFile[s][m] <= copies[s][m]

CommandsIssued ==
    /\ \A c \in Commands : Working(c) => Issued(commands[c])
    /\ \A cmd \in orphans :
        /\ Issued(cmd) /\ cmd.at \in Calling
        /\ client[cmd.session] # cmd.by

\* The command may still insert the message on a claim it was granted.
Holds(cmd, m) ==
    /\ cmd.message = m
    /\ \/ cmd.at \in {"queue", "reading", "inserting"}
       \/ cmd.at = "claim" /\ cmd.reply = "ok"
Holders(m) == {c \in Commands : Holds(commands[c], m)}
Pending(m) == IF Row(m).state = "pending" THEN 1 ELSE 0
WithinAllowance == \A m \in MsgIds : Cardinality(Holders(m)) + Pending(m) <= allowed[m]

\* The command works on the present attempt at m, and no answer has freed it.
Watches(cmd, m) ==
    /\ cmd.message = m /\ cmd.attempt = attempt[m]
    /\ cmd.by.generation = Row(m).generation
    /\ \/ cmd.at = "claim" /\ cmd.reply = "ok"
       \/ cmd.at \in {"queue", "reading", "inserting", "proving", "receipt", "uncertain"}

\* An attempt was made by a connection, a recording by a session.
ClaimedByConnection == \A m \in MsgIds : InFlight(Row(m)) => Row(m).generation # 0
RecordedBySession ==
    \A m \in MsgIds : Row(m).state = "recorded" => Row(m).session \in Sessions

\* The worker can no longer report on generation g.
OutOfReach(g) ==
    \/ Member.link = "lapsed"
    \/ \A s \in Sessions : client[s].generation # g

\* What the answer to its last report tells a command.
Answers(cmd) ==
    cmd.attempt = attempt[cmd.message] /\ InFlight(Row(cmd.message)) =>
        /\ ~(cmd.at \in {"receipt", "uncertain"} /\ cmd.reply = "ok")
        /\ cmd.at = "uncertain" /\ cmd.reply = "error"
           /\ cmd.by.generation = Row(cmd.message).generation =>
                OutOfReach(cmd.by.generation)

Watched ==
    \A m \in MsgIds : InFlight(Row(m)) =>
        \/ OutOfReach(Row(m).generation)
        \/ \E c \in Commands : Watches(commands[c], m)

MInv ==
    /\ IInv /\ ManualType /\ Connections /\ FileGrows /\ CommandsIssued
    /\ RecordedOnFile /\ RecordedBySession /\ ClaimedByConnection /\ WithinAllowance
    /\ \A c \in Commands : Working(c) => Answers(commands[c])
    /\ Watched

(***************************************************************************)
(* Manual delivery is a use of the store                                   *)
(***************************************************************************)
\* What is served to a command is an operation of the store.
LEMMA HandledIsMail ==
    ASSUME NEW cmd, NEW op \in Calling, NEW reply, cmd.by \in actors,
           cmd.message \in DOMAIN messages, Handled(cmd, op, reply)
    PROVE  Mail \/ UNCHANGED vars
<1>1. \/ UNCHANGED vars
      \/ Claim(cmd.by, cmd.message) \/ Queue(cmd.by, cmd.message)
      \/ Receipt(cmd.by, cmd.message) \/ Uncertain(cmd.by, cmd.message)
      \/ Reconcile(cmd.by, cmd.message)
  BY DEF Handled
<1> QED BY <1>1 DEF Mail

\* Every step of a manual delivery is a step of the store, or leaves it alone.
LEMMA ManualIsStore ==
    ASSUME MInv, [ManualNext]_manualVars PROVE [Next]_vars
<1> USE ManualAssumption
<1>1. /\ \A c \in Commands : Working(c) => commands[c].message \in DOMAIN messages
      /\ \A cmd \in orphans : cmd.message \in DOMAIN messages /\ cmd.at \in Calling
  BY DEF MInv, ManualType, CommandsIssued, Issued
<1>2. ASSUME NEW c \in Commands, Serve(c) PROVE [Next]_vars
  BY <1>1, <1>2, HandledIsMail DEF Serve, Next, Working, Calling
<1>3. ASSUME ServeOrphan PROVE [Next]_vars
  BY <1>1, <1>3, HandledIsMail DEF ServeOrphan, Next
<1>4. ASSUME NEW c \in Commands, NEW yes \in BOOLEAN, Confirmed(c, yes) PROVE [Next]_vars
  <2>1. commands[c].message \in DOMAIN messages
    BY <1>1, <1>4 DEF Confirmed, Working
  <2> QED BY <1>4, <2>1 DEF Confirmed, Next, Mail
<1>5. ASSUME NEW s \in Sessions, Online(s) PROVE [Next]_vars
  BY <1>5 DEF Online, Next, Membership
<1>6. ASSUME CloseUnheld PROVE [Next]_vars
  BY <1>6 DEF CloseUnheld, Next, Membership
<1>7. ASSUME BrokerSide PROVE [Next]_vars
  BY <1>7 DEF BrokerSide, Next, Membership
<1>8. ASSUME NEW c \in Commands,
             \/ CommandSteps(c)
             \/ \E s \in Sessions, m \in MsgIds : Deliver(c, s, m) \/ Recover(c, s, m)
      PROVE  UNCHANGED vars
  BY <1>8 DEF CommandSteps, Claimed, Queued, EvidenceRead, Insert, Proven, Ends, Deliver,
      Recover, deliverKeeps
<1>9. ASSUME NEW s \in Sessions, Drop(s) \/ Reload(s) \/ Crash(s) \/ Flush(s)
      PROVE  UNCHANGED vars
  BY <1>9 DEF Drop, Reload, Crash, Flush
<1>10. UNCHANGED manualVars => UNCHANGED vars
  BY DEF manualVars
<1> QED
  BY <1>2, <1>3, <1>4, <1>5, <1>6, <1>7, <1>8, <1>9, <1>10 DEF ManualNext

(***************************************************************************)
(* What the store's own steps do to the worker and the rows of its mailbox *)
(***************************************************************************)
\* The member's row after a step: connected again, without a link, or as it
\* was but for a lease that lapsed.
MemberSevered == /\ Member'.generation = Member.generation /\ Member'.link = "none"
MemberRelinked == Member'.generation = Member.generation + 1
MemberStays == \/ Member' = Member
               \/ /\ Member'.generation = Member.generation
                  /\ Member'.session = Member.session
                  /\ Member.link # "none" /\ Member'.link = "lapsed"

\* The row of message m keeps its attempt, and may lose it to uncertainty.
RowQuiet(m) ==
    /\ Row(m)'.session = Row(m).session /\ Row(m)'.generation = Row(m).generation
    /\ \/ Row(m)'.state = Row(m).state
       \/ InFlight(Row(m)) /\ Row(m)'.state = "uncertain"
NothingInFlight == \A m \in MsgIds : ~InFlight(Row(m))'
Quiet == /\ \A m \in MsgIds : RowQuiet(m)
         /\ NothingInFlight \/ MemberStays

\* Severing the connections of P is quiet.
LEMMA SeverRowQuiet ==
    ASSUME IInv, NEW P, Sever(P)
    PROVE  /\ \A m \in MsgIds : RowQuiet(m)
           /\ Worker \in P => NothingInFlight
<1> USE ManualAssumption
<1> SUFFICES ASSUME NEW m \in MsgIds
             PROVE  RowQuiet(m) /\ (Worker \in P => ~InFlight(Row(m))')
  BY DEF NothingInFlight
<1>1. Row(m) \in Delivery
  BY RowTyped DEF IInv, Row
<1>2. Row(m)' = IF Worker \in P /\ InFlight(Row(m))
                THEN [Row(m) EXCEPT !.state = "uncertain"] ELSE Row(m)
  BY DEF Sever, DeliveriesLeftUncertain, Row
<1> QED BY <1>1, <1>2 DEF RowQuiet, InFlight, Delivery

\* Losing the link leaves a member's generation alone.
LEMMA UnlinkedGeneration ==
    ASSUME IInv, NEW P, NEW p \in Participants
    PROVE  Unlinked(P)[p].generation = participants[p].generation
<1>1. participants[p] \in ParticipantRow
  BY DEF IInv, TypeOK
<1> QED BY <1>1 DEF Unlinked, ParticipantRow

\* The steps of connections and of the broker are quiet.
LEMMA BrokerQuiet ==
    ASSUME IInv,
           \/ \E s \in Sessions : Rejoin(Worker, s)
           \/ Connect(Worker) \/ LeaseLapse(Worker) \/ Expire \/ BrokerRestart
           \/ \E w \in actors : w.participant = Worker /\ Disconnect(w)
    PROVE  Quiet /\ (MemberStays \/ MemberSevered \/ MemberRelinked)
<1> USE ManualAssumption
<1> DEFINE Goal == Quiet /\ (MemberStays \/ MemberSevered \/ MemberRelinked)
<1>1. Member \in ParticipantRow /\ participants \in [Participants -> ParticipantRow]
  BY DEF IInv, TypeOK, Member
<1>2. \A P : Unlinked(P) \in [Participants -> ParticipantRow]
  BY UnlinkedTyped DEF IInv
<1>3. ASSUME NEW P, Sever(P), participants' = Unlinked(P) PROVE Goal
  <2>1. /\ Worker \in P => Member'.link = "none"
        /\ Worker \notin P => Member' = Member
        /\ Member'.generation = Member.generation
    BY <1>3, UnlinkedRow, UnlinkedGeneration DEF IInv, Member
  <2> QED BY <1>3, <2>1, SeverRowQuiet DEF Quiet, MemberStays, MemberSevered
<1>4. ASSUME NEW s \in Sessions, Rejoin(Worker, s) PROVE Goal
  <2>1. participants' = Rebound(Unlinked({Worker}), Worker, s)
    BY <1>4 DEF Rejoin, Rebound
  <2>2. Member'.link = "none"
    BY <1>2, <2>1, ReboundRow, UnlinkedRow DEF IInv, Member
  <2>3. Member'.generation = Member.generation
    <3>1. Unlinked({Worker})[Worker] \in ParticipantRow
      BY <1>2
    <3>2. Member' = [Unlinked({Worker})[Worker] EXCEPT !.joined = TRUE, !.session = s]
      BY <1>2, <2>1 DEF Rebound, Member
    <3>3. Member'.generation = Unlinked({Worker})[Worker].generation
      BY <3>1, <3>2 DEF ParticipantRow
    <3> QED BY <3>3, UnlinkedGeneration DEF Member
  <2> QED BY <1>4, <2>2, <2>3, SeverRowQuiet DEF Quiet, MemberSevered, Rejoin
<1>5. ASSUME Connect(Worker) PROVE Goal
  <2> DEFINE g == Member.generation + 1
  <2>1. Unlinked({Worker})[Worker] \in ParticipantRow
    BY <1>2
  <2>2. Member' = [Unlinked({Worker})[Worker] EXCEPT !.generation = g, !.link = "live"]
    BY <1>2, <1>5 DEF Connect, Member
  <2> HIDE DEF g
  <2>3. Member'.generation = g
    BY <2>1, <2>2 DEF ParticipantRow
  <2> QED BY <1>5, <2>3, SeverRowQuiet DEF Quiet, MemberRelinked, Connect, g
<1>6. ASSUME UNCHANGED deliveries PROVE \A m \in MsgIds : RowQuiet(m)
  BY <1>6 DEF RowQuiet, Row
<1>7. ASSUME LeaseLapse(Worker) PROVE Goal
  <2>1. Member' = [Member EXCEPT !.link = "lapsed"]
    BY <1>1, <1>7 DEF LeaseLapse, Member
  <2>2. MemberStays
    BY <1>1, <1>7, <2>1 DEF MemberStays, LeaseLapse, ParticipantRow, Member
  <2> QED BY <1>6, <1>7, <2>2 DEF Quiet, LeaseLapse, mailVars
<1>8. ASSUME NEW w \in actors, w.participant = Worker, Disconnect(w) PROVE Goal
  <2>1. CASE UNCHANGED <<participants, deliveries>>
    BY <1>6, <2>1 DEF Quiet, MemberStays, Member
  <2> QED BY <1>3, <1>8, <2>1 DEF Disconnect, mailVars
<1> QED BY <1>3, <1>4, <1>5, <1>7, <1>8 DEF Expire, BrokerRestart

\* A connection stays no newer than the member's row.
LEMMA DatedKept ==
    ASSUME IInv, MemberStays \/ MemberSevered \/ MemberRelinked,
           NEW w \in ClientRow, Dated(w)
    PROVE  Dated(w)'
<1> USE ManualAssumption, BoundsAssumption
<1>1. Member.generation \in Nat /\ w.generation \in Nat
  BY DEF IInv, TypeOK, ParticipantRow, Member, ClientRow
<1> QED BY <1>1 DEF Dated, MemberStays, MemberSevered, MemberRelinked

\* So a command stays well issued while attempts and files only grow.
Grows ==
    /\ \A m \in MsgIds : attempt[m] <= attempt'[m]
    /\ \A s \in Sessions, m \in MsgIds : onFile[s][m] <= onFile'[s][m]

\* A command that was well issued remains so.
LEMMA IssuedKept ==
    ASSUME MInv, ManualType', Grows, NEW cmd, Issued(cmd), Dated(cmd.by)'
    PROVE  Issued(cmd)'
<1>1. /\ cmd \in CommandRow /\ cmd.message \in MsgIds /\ cmd.session \in Sessions
      /\ cmd.attempt \in Nat
  BY DEF Issued, CommandRow
<1>2. /\ attempt[cmd.message] \in Nat /\ attempt'[cmd.message] \in Nat
      /\ onFile[cmd.session][cmd.message] \in Nat
      /\ onFile'[cmd.session][cmd.message] \in Nat
  BY <1>1 DEF MInv, ManualType
<1> QED BY <1>1, <1>2 DEF Grows, Issued

(***************************************************************************)
(* What the broker does with a call                                        *)
(***************************************************************************)
\* The call leaves the row, is granted the claim, or reports on the attempt.
Refused(cmd, reply) ==
    LET row == Row(cmd.message) IN
    /\ row' = row /\ attempt' = attempt
    /\ reply = "ok" => cmd.at # "claim" /\ row.state = "recorded"
    /\ /\ reply = "error" /\ cmd.at = "uncertain" /\ InFlight(row)
       /\ cmd.attempt = attempt[cmd.message] /\ cmd.by.generation = row.generation
       => Member.link = "lapsed"
Granted(cmd, reply) ==
    LET row == Row(cmd.message) IN
    /\ cmd.at = "claim" /\ reply = "ok" /\ row.state = "pending"
    /\ row'.state = "claimed" /\ row'.generation = cmd.by.generation
    /\ Member.link # "none" /\ cmd.by.generation = Member.generation
    /\ attempt'[cmd.message] = attempt[cmd.message] + 1
Reported(cmd, reply) ==
    LET row == Row(cmd.message) IN
    /\ cmd.at # "claim" /\ reply = "ok" /\ attempt' = attempt
    /\ row.session = cmd.session
    /\ row'.session = row.session /\ row'.generation = row.generation
    /\ IF cmd.at = "queue" THEN InFlight(row) /\ row'.state = "queued"
       ELSE row'.state = IF cmd.at = "uncertain" THEN "uncertain" ELSE "recorded"
    /\ row.state # "pending"

\* The worker that calls is the member, as far as its row can tell.
LEMMA CallerIsMember ==
    ASSUME MInv, NEW cmd, Issued(cmd), cmd.by \in actors, InFlight(Row(cmd.message)),
           cmd.by.generation = Row(cmd.message).generation
    PROVE  /\ Row(cmd.message).session = cmd.by.session
           /\ Authorized(cmd.by) \/ Member.link = "lapsed"
<1> USE ManualAssumption
<1>1. /\ Member.link # "none" /\ Member.joined
      /\ Row(cmd.message).generation = Member.generation
      /\ Row(cmd.message).session = Member.session
  BY DEF MInv, IInv, InFlightOwned, Row, Member, Issued
<1>2. cmd.by.session = Member.session /\ cmd.by.participant = Worker
  BY <1>1 DEF Issued, Dated, CommandRow, ClientRow
<1>3. Member.link \in {"live", "lapsed"}
  BY <1>1 DEF MInv, IInv, TypeOK, ParticipantRow, Member
<1> QED BY <1>1, <1>2, <1>3 DEF Authorized, Member

\* The broker leaves every other row and every member as they are.
LEMMA HandledRow ==
    ASSUME MInv, NEW cmd, NEW reply \in {"ok", "error"}, Issued(cmd), cmd.at \in Calling,
           cmd.by \in actors, Handled(cmd, cmd.at, reply)
    PROVE  /\ UNCHANGED <<participants, messages>>
           /\ \A m \in MsgIds : m # cmd.message =>
                Row(m)' = Row(m) /\ attempt'[m] = attempt[m]
           /\ attempt' \in [MsgIds -> Nat]
           /\ Refused(cmd, reply) \/ Granted(cmd, reply) \/ Reported(cmd, reply)
<1> USE ManualAssumption
<1> DEFINE m == cmd.message  w == cmd.by  row == Row(m)
<1>1. /\ m \in MsgIds /\ w.participant = Worker /\ w.session = cmd.session
      /\ row \in Delivery /\ attempt \in [MsgIds -> Nat]
      /\ deliveries \in [MsgIds -> [Participants -> Delivery]]
  BY RowTyped DEF MInv, IInv, TypeOK, ManualType, Issued, CommandRow, ClientRow, Row
<1>2. ASSUME NEW d, SetDelivery(m, Worker, d)
      PROVE  /\ UNCHANGED <<participants, messages>> /\ row' = d
             /\ \A n \in MsgIds : n # m => Row(n)' = Row(n)
  BY <1>1, <1>2 DEF SetDelivery, memberVars, Row
<1> DEFINE Grant == /\ cmd.at = "claim" /\ Claim(w, m) /\ reply = "ok"
                    /\ attempt' = [attempt EXCEPT ![m] = @ + 1]
           Report == /\ cmd.at # "claim" /\ reply = "ok" /\ UNCHANGED attempt
                     /\ \/ cmd.at = "queue" /\ Queue(w, m)
                        \/ cmd.at = "receipt" /\ Receipt(w, m)
                        \/ cmd.at = "uncertain" /\ Uncertain(w, m)
                        \/ cmd.at = "reconcile" /\ Reconcile(w, m)
<1>3. CASE Grant
  <2>1. row' = [row EXCEPT !.state = "claimed", !.session = w.session,
                           !.generation = w.generation]
    BY <1>1, <1>2, <1>3 DEF Claim, Row
  <2>2. row'.state = "claimed" /\ row'.generation = w.generation
    BY <1>1, <2>1 DEF Delivery
  <2>3. /\ attempt'[m] = attempt[m] + 1 /\ attempt' \in [MsgIds -> Nat]
        /\ \A n \in MsgIds : n # m => attempt'[n] = attempt[n]
    BY <1>1, <1>3
  <2>4. row.state = "pending" /\ UNCHANGED <<participants, messages>>
        /\ \A n \in MsgIds : n # m => Row(n)' = Row(n)
    BY <1>1, <1>2, <1>3 DEF Claim, Row
  <2>5. Member.link # "none" /\ w.generation = Member.generation
    BY <1>1, <1>3 DEF Claim, Authorized, Member
  <2> QED BY <1>3, <2>2, <2>3, <2>4, <2>5 DEF Granted
<1>4. ASSUME NEW s \in {"queued", "recorded", "uncertain"}, MoveTo(w, m, s)
      PROVE  /\ UNCHANGED <<participants, messages>>
             /\ row'.state = s /\ row'.session = row.session
             /\ row'.generation = row.generation
             /\ \A n \in MsgIds : n # m => Row(n)' = Row(n)
  <2>1. row' = [row EXCEPT !.state = s]
    BY <1>1, <1>2, <1>4 DEF MoveTo, Row
  <2> QED BY <1>1, <1>2, <1>4, <2>1 DEF MoveTo, Delivery, Row
<1>5. CASE Report
  <2>1. /\ row.session = cmd.session /\ row.state \in {"claimed", "queued", "uncertain"}
        /\ cmd.at = "queue" => InFlight(row)
    BY <1>1, <1>5 DEF Queue, Receipt, Uncertain, Reconcile, CurrentAttempt, Attempted, Row, InFlight
  <2>2. PICK s \in {"queued", "recorded", "uncertain"} :
            /\ MoveTo(w, m, s)
            /\ (s = "queued" <=> cmd.at = "queue")
            /\ (s = "uncertain" <=> cmd.at = "uncertain")
    BY <1>5 DEF Queue, Receipt, Uncertain, Reconcile
  <2> QED BY <1>1, <1>4, <1>5, <2>1, <2>2 DEF Reported
<1>6. CASE UNCHANGED <<vars, attempt>> /\ ~Grant /\ ~Report
  <2>1. UNCHANGED <<participants, messages>> /\ \A n \in MsgIds : Row(n)' = Row(n)
    BY <1>6 DEF vars, Row
  <2>2. reply = "ok" => cmd.at # "claim" /\ row.state = "recorded"
    BY <1>6 DEF Handled, Row
  <2>3. ASSUME reply = "error", cmd.at = "uncertain", InFlight(row),
               cmd.attempt = attempt[m], w.generation = row.generation
        PROVE  Member.link = "lapsed"
    BY <1>1, <2>3, CallerIsMember DEF Handled, Row, Issued
  <2> QED BY <1>1, <1>6, <2>1, <2>2, <2>3 DEF Refused
<1>7. Grant \/ Report \/ UNCHANGED <<vars, attempt>>
  BY DEF Handled
<1> HIDE DEF Grant, Report
<1> QED BY <1>3, <1>5, <1>6, <1>7

(***************************************************************************)
(* What a step has to leave alone                                          *)
(***************************************************************************)
\* The member's present connection is held by the session it is bound to.
LEMMA PresentConnection ==
    ASSUME MInv, NEW w \in ClientRow, w.generation # 0, Dated(w), Member.link # "none",
           w.generation = Member.generation,
           NEW s \in Sessions, client[s].generation = w.generation
    PROVE  s = w.session /\ client[s] = w
<1>1. client[s] \in ClientRow /\ client[s] # Offline
  BY DEF MInv, ManualType, Offline
<1>2. client[s].session = s /\ client[s].session = Member.session /\ w.session = Member.session
  BY <1>1 DEF MInv, Connections, Dated
<1> QED BY <1>1, <1>2 DEF ClientRow

\* Only the present connection of a session reports on an attempt in flight.
LEMMA OnlyItsConnection ==
    ASSUME MInv, NEW cmd, Issued(cmd), InFlight(Row(cmd.message)),
           cmd.by.generation = Row(cmd.message).generation,
           NEW s \in Sessions, client[s].generation = cmd.by.generation
    PROVE  s = cmd.session /\ client[s] = cmd.by
<1> USE ManualAssumption
<1>1. /\ Member.link # "none" /\ Row(cmd.message).generation = Member.generation
  BY DEF MInv, IInv, InFlightOwned, Row, Member, Issued
<1>2. cmd.by \in ClientRow /\ cmd.by.generation # 0 /\ Dated(cmd.by) /\ cmd.by.session = cmd.session
  BY DEF Issued, CommandRow
<1> QED BY <1>1, <1>2, PresentConnection

\* An attempt ends, is followed by a later one, or stays as much out of reach
\* of its worker as it was.
Steady ==
    \A m \in MsgIds :
        \/ ~InFlight(Row(m))'
        \/ attempt'[m] > attempt[m] /\ Row(m)'.generation # 0
        \/ /\ InFlight(Row(m)) /\ attempt'[m] = attempt[m]
           /\ Row(m)'.generation = Row(m).generation
           /\ OutOfReach(Row(m).generation) => OutOfReach(Row(m).generation)'

ClientsFall == \A s \in Sessions : client'[s] = client[s] \/ client'[s] = Offline

\* A connection that is out of reach stays so while no session reconnects.
LEMMA StaysOutOfReach ==
    ASSUME ClientsFall, MemberStays, NEW g, g # 0, OutOfReach(g)
    PROVE  OutOfReach(g)'
BY DEF ClientsFall, MemberStays, OutOfReach, Offline, Member

\* The store's quiet steps are steady.
LEMMA QuietIsSteady ==
    ASSUME MInv, Quiet, ClientsFall \/ NothingInFlight, UNCHANGED attempt
    PROVE  Steady
<1> SUFFICES ASSUME NEW m \in MsgIds, InFlight(Row(m))'
             PROVE  /\ InFlight(Row(m)) /\ attempt'[m] = attempt[m]
                    /\ Row(m)'.generation = Row(m).generation
                    /\ OutOfReach(Row(m).generation) => OutOfReach(Row(m).generation)'
  BY DEF Steady
<1>1. MemberStays /\ ClientsFall
  BY DEF Quiet, NothingInFlight
<1>2. InFlight(Row(m)) /\ Row(m)'.generation = Row(m).generation
  BY DEF Quiet, RowQuiet, InFlight
<1>3. Row(m).generation # 0
  BY <1>2 DEF MInv, ClaimedByConnection
<1>4. OutOfReach(Row(m).generation) => OutOfReach(Row(m).generation)'
  <2> DEFINE g == Row(m).generation
  <2>1. OutOfReach(g) => (Member'.link = "lapsed" \/ \A s \in Sessions : client'[s].generation # g)
    BY <1>1, <1>3 DEF ClientsFall, MemberStays, OutOfReach, Offline
  <2>2. Row(m)'.generation = g
    BY <1>2
  <2> QED BY <2>1, <2>2 DEF OutOfReach
<1> QED BY <1>2, <1>4

\* A step that leaves the store and the attempts alone is steady.
LEMMA SameStoreQuiet ==
    ASSUME UNCHANGED vars
    PROVE  Quiet /\ MemberStays /\ \A w : Dated(w) => Dated(w)'
BY DEF vars, Quiet, RowQuiet, MemberStays, Member, Row, Dated

\* A claim in flight was made by a connection, before as after.
LEMMA ClaimedKept == ASSUME MInv, Steady PROVE ClaimedByConnection'
BY DEF MInv, Steady, ClaimedByConnection

\* What an answer told a command stays told.
LEMMA AnswersStay ==
    ASSUME MInv, ManualType', Steady, NEW cmd, Issued(cmd), Answers(cmd)
    PROVE  Answers(cmd)'
<1>1. /\ cmd.message \in MsgIds /\ cmd.attempt \in Nat /\ cmd.attempt <= attempt[cmd.message]
      /\ attempt[cmd.message] \in Nat /\ attempt'[cmd.message] \in Nat
  BY DEF Issued, CommandRow, MInv, ManualType
<1>2. CASE attempt'[cmd.message] > attempt[cmd.message]
  BY <1>1, <1>2 DEF Answers
<1>3. CASE ~InFlight(Row(cmd.message))'
  BY <1>3 DEF Answers
<1> QED BY <1>1, <1>2, <1>3 DEF Answers, Steady

\* An attempt stays watched if its command goes on, or loses its connection.
LEMMA WatchedKept ==
    ASSUME MInv, Steady,
           \A c \in Commands, m \in MsgIds :
               /\ InFlight(Row(m)) /\ InFlight(Row(m))' /\ attempt'[m] = attempt[m]
               /\ Watches(commands[c], m)
               => Watches(commands[c], m)' \/ OutOfReach(Row(m).generation)',
           \A m \in MsgIds : attempt'[m] > attempt[m] =>
               \/ OutOfReach(Row(m).generation)'
               \/ \E c \in Commands : Watches(commands[c], m)'
    PROVE  Watched'
<1> SUFFICES ASSUME NEW m \in MsgIds, InFlight(Row(m))'
             PROVE  \/ OutOfReach(Row(m).generation)'
                    \/ \E c \in Commands : Watches(commands[c], m)'
  BY DEF Watched
<1> SUFFICES ASSUME ~(attempt'[m] > attempt[m])
             PROVE  \/ OutOfReach(Row(m).generation)'
                    \/ \E c \in Commands : Watches(commands[c], m)'
  OBVIOUS
<1>1. /\ InFlight(Row(m)) /\ Row(m)'.generation = Row(m).generation
      /\ attempt'[m] = attempt[m]
      /\ OutOfReach(Row(m).generation) => OutOfReach(Row(m).generation)'
  BY DEF Steady
<1>2. \/ OutOfReach(Row(m).generation)
      \/ \E c \in Commands : Watches(commands[c], m)
  BY <1>1 DEF MInv, Watched
<1> QED BY <1>1, <1>2

\* What is recorded stays on file while files only grow.
LEMMA RecordedKept ==
    ASSUME MInv, ManualType', Grows,
           \A m \in MsgIds : Row(m)'.state = "recorded" =>
                Row(m).state = "recorded" /\ Row(m)'.session = Row(m).session
    PROVE  RecordedOnFile' /\ RecordedBySession'
<1> SUFFICES ASSUME NEW m \in MsgIds, Row(m)'.state = "recorded"
             PROVE  Row(m)'.session \in Sessions /\ onFile'[Row(m)'.session][m] > 0
  BY DEF RecordedOnFile, RecordedBySession, Row
<1>1. /\ Row(m)'.session = Row(m).session /\ Row(m).session \in Sessions
      /\ onFile[Row(m).session][m] > 0
  BY DEF MInv, RecordedOnFile, RecordedBySession, Row
<1>2. onFile[Row(m).session][m] \in Nat /\ onFile'[Row(m).session][m] \in Nat
  BY <1>1 DEF MInv, ManualType
<1> QED BY <1>1, <1>2 DEF Grows

\* What may still be inserted stays within the allowance while nothing joins it.
LEMMA AllowanceKept ==
    ASSUME MInv, ManualType', UNCHANGED allowed,
           \A m \in MsgIds : Row(m)'.state = "pending" => Row(m).state = "pending",
           \A c \in Commands, m \in MsgIds :
               Holds(commands'[c], m) => Holds(commands[c], m)
    PROVE  WithinAllowance'
<1> USE ManualAssumption
<1> SUFFICES ASSUME NEW m \in MsgIds
             PROVE  Cardinality(Holders(m)') + Pending(m)' <= allowed'[m]
  BY DEF WithinAllowance
<1>1. Holders(m)' \subseteq Holders(m)
  BY DEF Holders
<1>2. IsFiniteSet(Holders(m))
  BY FS_Subset DEF Holders
<1>3. /\ Cardinality(Holders(m)') <= Cardinality(Holders(m))
      /\ Cardinality(Holders(m)) \in Nat /\ Cardinality(Holders(m)') \in Nat
  BY <1>1, <1>2, FS_Subset, FS_CardinalityType
<1>4. Pending(m)' <= Pending(m) /\ Pending(m) \in 0..1 /\ Pending(m)' \in 0..1
  BY DEF Pending
<1>5. allowed[m] \in Int /\ Cardinality(Holders(m)) + Pending(m) <= allowed[m]
  BY DEF MInv, ManualType, WithinAllowance
<1> QED BY <1>3, <1>4, <1>5

(***************************************************************************)
(* One command goes on                                                     *)
(***************************************************************************)
\* The records of a command.
LEMMA NoCommandTyped == NoCommand \in CommandRow /\ NoCommand.at = "none"
BY ManualAssumption, BoundsAssumption DEF NoCommand, Offline, CommandRow, ClientRow, Calling

\* A command that makes a call.
LEMMA CallsFields ==
    ASSUME NEW cmd \in CommandRow, NEW op \in Calling
    PROVE  /\ Calls(cmd, op) \in CommandRow
           /\ Calls(cmd, op).at = op /\ Calls(cmd, op).session = cmd.session
           /\ Calls(cmd, op).by = cmd.by /\ Calls(cmd, op).message = cmd.message
           /\ Calls(cmd, op).attempt = cmd.attempt
           /\ Calls(cmd, op).reply =
                IF client[cmd.session] = cmd.by THEN "none" ELSE "error"
BY DEF Calls, CommandRow

\* A command that goes to a place of its own.
LEMMA GoesFields ==
    ASSUME NEW cmd \in CommandRow, NEW x \in {"reading", "inserting", "proving", "confirming"}
    PROVE  LET e == [cmd EXCEPT !.at = x] IN
           /\ e \in CommandRow /\ e.at = x /\ e.session = cmd.session
           /\ e.by = cmd.by /\ e.message = cmd.message /\ e.attempt = cmd.attempt
           /\ e.reply = cmd.reply
BY DEF CommandRow, Calling

\* The command becomes new.  What it may insert, and the row of its message if
\* a retry changes it, are the caller's concern.
LEMMA CommandStep ==
    ASSUME MInv, IInv', NEW c \in Commands, NEW new \in CommandRow, At(c, new),
           UNCHANGED <<participants, messages, client, orphans, attempt, onFile>>,
           Steady,
           \A m \in MsgIds : Row(m)'.state = "recorded" =>
                Row(m).state = "recorded" /\ Row(m)'.session = Row(m).session,
           copies' \in [Sessions -> [MsgIds -> Nat]], FileGrows',
           allowed' \in [MsgIds -> Int], WithinAllowance',
           new.at # "none" => Issued(new) /\ Answers(new),
           \A m \in MsgIds : InFlight(Row(m)) /\ Watches(commands[c], m) =>
                Watches(new, m) \/ OutOfReach(Row(m).generation)
    PROVE  MInv'
<1>1. /\ commands' \in [Commands -> CommandRow] /\ commands'[c] = new
      /\ \A d \in Commands : d # c => commands'[d] = commands[d]
  BY DEF At, MInv, ManualType
<1>2. ManualType'
  BY <1>1 DEF MInv, ManualType
<1>3. Grows /\ \A w : Dated(w) => Dated(w)'
  <2>1. \A n \in Nat : n <= n
    OBVIOUS
  <2> QED BY <2>1 DEF Grows, MInv, ManualType, Dated, Member
<1>4. \A d \in Commands : Working(d)' => Issued(commands'[d]) /\ Answers(commands'[d])
  BY <1>1 DEF MInv, CommandsIssued, Working
<1>5. \A d \in Commands : Working(d)' => Issued(commands[d])'
  <2>1. \A e : Issued(e) => Dated(e.by)'
    BY <1>3 DEF Issued
  <2>2. \A e : Issued(e) => Issued(e)'
    BY <1>2, <1>3, <2>1, IssuedKept
  <2> QED BY <1>4, <2>2 DEF Issued, Dated, Member
<1>6. CommandsIssued'
  <2>1. \A cmd \in orphans' : Issued(cmd)' /\ cmd.at \in Calling /\ client'[cmd.session] # cmd.by
    BY <1>2, <1>3, IssuedKept DEF MInv, CommandsIssued, Issued
  <2> QED BY <1>5, <2>1 DEF CommandsIssued
<1>7. Connections'
  BY <1>3 DEF MInv, Connections
<1>8. RecordedOnFile' /\ RecordedBySession'
  BY <1>2, <1>3, RecordedKept
<1>9. ClaimedByConnection'
  BY ClaimedKept
<1>10. \A d \in Commands : Working(d)' => Answers(commands[d])'
  <2>1. \A e : Issued(e) /\ Answers(e) => Answers(e)'
    BY <1>2, AnswersStay
  <2> QED BY <1>4, <2>1 DEF Answers
<1>11. Watched'
  <2> SUFFICES ASSUME NEW d \in Commands, NEW m \in MsgIds, InFlight(Row(m)),
                      InFlight(Row(m))', Watches(commands[d], m)
               PROVE  \/ Watches(commands[d], m)'
                      \/ OutOfReach(Row(m).generation)'
    <3>1. \A m \in MsgIds : ~(attempt'[m] > attempt[m])
      BY DEF MInv, ManualType
    <3> QED BY <3>1, WatchedKept
  <2>1. /\ Row(m)'.generation = Row(m).generation /\ attempt'[m] = attempt[m]
        /\ OutOfReach(Row(m).generation) => OutOfReach(Row(m).generation)'
    <3>1. attempt[m] \in Nat
      BY DEF MInv, ManualType
    <3> QED BY <3>1 DEF Steady
  <2>2. Watches(commands'[d], m) \/ OutOfReach(Row(m).generation)
    BY <1>1
  <2> QED BY <2>1, <2>2 DEF Watches
<1> QED BY <1>2, <1>6, <1>7, <1>8, <1>9, <1>10, <1>11 DEF MInv

\* A command that goes on in its own session changes nothing but itself.
LocalStep(c, new) ==
    At(c, new) /\ UNCHANGED <<deliverKeeps, fileVars>>

\* It may do so if it holds no more than before and still works on its attempt.
LEMMA LocalStepKeepsMInv ==
    ASSUME MInv, NEW c \in Commands, NEW new \in CommandRow, LocalStep(c, new),
           \A m \in MsgIds : Holds(new, m) => Holds(commands[c], m),
           new.at # "none" => Issued(new) /\ Answers(new),
           \A m \in MsgIds : InFlight(Row(m)) /\ Watches(commands[c], m) =>
                Watches(new, m) \/ OutOfReach(Row(m).generation)
    PROVE  MInv'
<1>1. UNCHANGED <<vars, client, orphans, attempt, allowed, copies, onFile>>
  BY DEF LocalStep, deliverKeeps, fileVars
<1>2. IInv'
  BY <1>1, StepKeepsIInv DEF MInv
<1>3. /\ UNCHANGED <<participants, messages>>
      /\ \A m \in MsgIds : Row(m)' = Row(m)
  BY <1>1 DEF vars, Row
<1>4. Steady
  BY <1>1, SameStoreQuiet, QuietIsSteady DEF ClientsFall
<1>5. /\ copies' \in [Sessions -> [MsgIds -> Nat]] /\ FileGrows'
      /\ allowed' \in [MsgIds -> Int]
  BY <1>1 DEF MInv, ManualType, FileGrows
<1>6. WithinAllowance'
  <2>1. ManualType'
    BY <1>1 DEF LocalStep, At, MInv, ManualType, vars
  <2>2. \A d \in Commands, m \in MsgIds : Holds(commands'[d], m) => Holds(commands[d], m)
    BY DEF LocalStep, At, MInv, ManualType
  <2> QED BY <1>1, <1>3, <2>1, <2>2, AllowanceKept
<1> QED BY <1>1, <1>2, <1>3, <1>4, <1>5, <1>6, CommandStep DEF LocalStep

\* A command that is done has no attempt left to watch.
LEMMA DoneKeepsMInv ==
    ASSUME MInv, NEW c \in Commands, LocalStep(c, NoCommand),
           \A m \in MsgIds : InFlight(Row(m)) /\ Watches(commands[c], m) =>
                OutOfReach(Row(m).generation)
    PROVE  MInv'
<1>1. \A m \in MsgIds : ~Holds(NoCommand, m)
  BY NoCommandTyped DEF Holds
<1> QED BY <1>1, NoCommandTyped, LocalStepKeepsMInv

\* A call is well issued; if its connection is gone, so is what it reports on.
LEMMA CallIssued ==
    ASSUME MInv, NEW cmd, Issued(cmd), NEW op \in Calling,
           op \in {"receipt", "reconcile"} => EvidenceOf(cmd)
    PROVE  Issued(Calls(cmd, op)) /\ Answers(Calls(cmd, op))
<1> DEFINE new == Calls(cmd, op)
<1>1. /\ new \in CommandRow /\ new.at = op /\ new.session = cmd.session
      /\ new.by = cmd.by /\ new.message = cmd.message /\ new.attempt = cmd.attempt
      /\ new.reply = IF client[cmd.session] = cmd.by THEN "none" ELSE "error"
  BY CallsFields DEF Issued
<1> HIDE DEF new
<1>2. Issued(new)
  BY <1>1 DEF Issued, EvidenceOf
<1>3. Answers(new)
  <2> SUFFICES ASSUME InFlight(Row(new.message)), new.reply = "error",
                      new.by.generation = Row(new.message).generation
               PROVE  OutOfReach(new.by.generation)
    BY <1>1 DEF Answers
  <2> QED BY <1>1, OnlyItsConnection DEF OutOfReach
<1> QED BY <1>2, <1>3 DEF new

\* A command reports, or goes on to queue what it has claimed.
LEMMA CallKeepsMInv ==
    ASSUME MInv, NEW c \in Commands, Working(c), NEW op \in {"queue", "receipt", "uncertain"},
           LocalStep(c, Calls(commands[c], op)),
           op = "queue" => commands[c].at = "claim" /\ commands[c].reply = "ok",
           op = "receipt" => EvidenceOf(commands[c])
    PROVE  MInv'
<1> DEFINE cmd == commands[c]  new == Calls(cmd, op)
<1>1. Issued(cmd)
  BY DEF MInv, CommandsIssued
<1>2. Issued(new) /\ Answers(new)
  BY <1>1, CallIssued DEF Calling
<1>3. /\ new \in CommandRow /\ new.at = op /\ new.message = cmd.message
      /\ new.by = cmd.by /\ new.attempt = cmd.attempt
  BY <1>1, CallsFields DEF Issued, Calling
<1> HIDE DEF new
<1>4. /\ \A m \in MsgIds : Holds(new, m) => Holds(cmd, m)
      /\ \A m \in MsgIds : Watches(cmd, m) => Watches(new, m)
  BY <1>3 DEF Holds, Watches
<1> QED BY <1>2, <1>3, <1>4, LocalStepKeepsMInv DEF new

\* A command reads its session file, or is about to insert.
LEMMA GoesKeepsMInv ==
    ASSUME MInv, NEW c \in Commands, Working(c), NEW x \in {"reading", "inserting"},
           LocalStep(c, [commands[c] EXCEPT !.at = x]),
           commands[c].at \in {"queue", "reading"}
    PROVE  MInv'
<1> DEFINE cmd == commands[c]  new == [cmd EXCEPT !.at = x]
<1>1. Issued(cmd)
  BY DEF MInv, CommandsIssued
<1>2. /\ new \in CommandRow /\ new.at = x /\ new.session = cmd.session
      /\ new.by = cmd.by /\ new.message = cmd.message /\ new.attempt = cmd.attempt
  <2>1. cmd \in CommandRow /\ x \in {"reading", "inserting", "proving", "confirming"}
    BY <1>1 DEF Issued
  <2> QED BY <2>1, GoesFields
<1> HIDE DEF new
<1>3. Issued(new) /\ Answers(new)
  BY <1>1, <1>2 DEF Issued, Answers
<1>4. /\ \A m \in MsgIds : Holds(new, m) => Holds(cmd, m)
      /\ \A m \in MsgIds : Watches(cmd, m) => Watches(new, m)
  BY <1>2 DEF Holds, Watches
<1> QED BY <1>2, <1>3, <1>4, LocalStepKeepsMInv DEF new

\* The steps of a delivery that only move its command.
LEMMA DeliveryStepsKeepMInv ==
    ASSUME MInv, NEW c \in Commands,
           Claimed(c) \/ Queued(c) \/ EvidenceRead(c) \/ Proven(c) \/ Ends(c)
    PROVE  MInv'
<1> DEFINE cmd == commands[c]
<1>1. Working(c) => Issued(cmd) /\ Answers(cmd) /\ cmd.reply \in {"none", "ok", "error"}
  BY DEF MInv, CommandsIssued, Issued, CommandRow
<1>2. CASE Claimed(c)
  <2>1. CASE cmd.reply = "error" /\ At(c, NoCommand)
    <3>1. LocalStep(c, NoCommand)
      BY <1>2, <2>1 DEF Claimed, LocalStep
    <3> QED BY <1>2, <2>1, <3>1, DoneKeepsMInv DEF Claimed, Watches
  <2>2. CASE cmd.reply = "ok" /\ \E op \in {"queue", "uncertain"} : At(c, Calls(cmd, op))
    <3>1. PICK op \in {"queue", "uncertain"} : LocalStep(c, Calls(cmd, op))
      BY <1>2, <2>2 DEF Claimed, LocalStep
    <3> QED BY <1>2, <2>2, <3>1, CallKeepsMInv DEF Claimed, Working
  <2> QED BY <1>2, <2>1, <2>2 DEF Claimed
<1>3. CASE Queued(c)
  <2>1. \/ LocalStep(c, Calls(cmd, "uncertain"))
        \/ LocalStep(c, [cmd EXCEPT !.at = "reading"])
    BY <1>3 DEF Queued, LocalStep
  <2> QED BY <1>3, <2>1, CallKeepsMInv, GoesKeepsMInv DEF Queued, Working
<1>4. CASE EvidenceRead(c)
  <2>1. \/ EvidenceOf(cmd) /\ LocalStep(c, Calls(cmd, "receipt"))
        \/ LocalStep(c, [cmd EXCEPT !.at = "inserting"])
    BY <1>4 DEF EvidenceRead, LocalStep
  <2> QED BY <1>4, <2>1, CallKeepsMInv, GoesKeepsMInv DEF EvidenceRead, Working
<1>5. CASE Proven(c)
  <2>1. \/ EvidenceOf(cmd) /\ LocalStep(c, Calls(cmd, "receipt"))
        \/ LocalStep(c, Calls(cmd, "uncertain"))
    BY <1>5 DEF Proven, LocalStep
  <2> QED BY <1>5, <2>1, CallKeepsMInv DEF Proven, Working
<1>6. CASE Ends(c)
  <2>1. Working(c)
    BY <1>6 DEF Ends, Working
  <2>2. CASE cmd.at = "receipt" /\ cmd.reply = "error"
    <3>1. LocalStep(c, Calls(cmd, "uncertain"))
      BY <1>6, <2>2 DEF Ends, LocalStep
    <3> QED BY <2>1, <3>1, CallKeepsMInv
  <2>3. CASE ~(cmd.at = "receipt" /\ cmd.reply = "error")
    <3>1. LocalStep(c, NoCommand)
      BY <1>6, <2>3 DEF Ends, LocalStep
    <3>2. ASSUME NEW m \in MsgIds, InFlight(Row(m)), Watches(cmd, m)
          PROVE  OutOfReach(Row(m).generation)
      <4>1. /\ cmd.message = m /\ cmd.attempt = attempt[m]
            /\ cmd.by.generation = Row(m).generation
            /\ cmd.at \in {"receipt", "uncertain"}
        BY <1>6, <3>2 DEF Ends, Watches
      <4>2. cmd.at = "uncertain" /\ cmd.reply = "error"
        BY <1>1, <1>6, <2>1, <2>3, <3>2, <4>1 DEF Ends, Answers
      <4> QED BY <1>1, <2>1, <3>2, <4>1, <4>2 DEF Answers
    <3> QED BY <3>1, <3>2, DoneKeepsMInv
  <2> QED BY <2>2, <2>3
<1> QED BY <1>2, <1>3, <1>4, <1>5, <1>6

\* An insertion uses up the claim it was made on.
LEMMA InsertKeepsMInv == ASSUME MInv, NEW c \in Commands, Insert(c) PROVE MInv'
<1> USE ManualAssumption
<1> DEFINE cmd == commands[c]  m == cmd.message  s == cmd.session
           new == [cmd EXCEPT !.at = "proving"]
<1>1. cmd.at = "inserting" /\ Working(c) /\ Issued(cmd)
  BY DEF MInv, CommandsIssued, Insert, Working
<1>2. CASE LocalStep(c, Calls(cmd, "uncertain"))
  BY <1>1, <1>2, CallKeepsMInv
<1>3. CASE /\ copies' = [copies EXCEPT ![s][m] = @ + 1]
           /\ allowed' = [allowed EXCEPT ![m] = @ - 1] /\ At(c, new)
           /\ UNCHANGED <<vars, client, orphans, attempt, onFile>>
  <2>1. cmd \in CommandRow /\ m \in MsgIds /\ s \in Sessions
    BY <1>1 DEF Issued
  <2>2. /\ new \in CommandRow /\ new.at = "proving" /\ new.session = s
        /\ new.by = cmd.by /\ new.message = m /\ new.attempt = cmd.attempt
    BY <2>1, GoesFields
  <2> HIDE DEF new
  <2>3. /\ copies \in [Sessions -> [MsgIds -> Nat]] /\ onFile \in [Sessions -> [MsgIds -> Nat]]
        /\ allowed \in [MsgIds -> Int] /\ commands \in [Commands -> CommandRow]
    BY DEF MInv, ManualType
  <2>4. copies' \in [Sessions -> [MsgIds -> Nat]] /\ FileGrows'
    <3>1. copies[s] \in [MsgIds -> Nat] /\ copies[s][m] + 1 \in Nat
      BY <2>1, <2>3
    <3>2. copies' = [copies EXCEPT ![s] = [copies[s] EXCEPT ![m] = copies[s][m] + 1]]
      BY <1>3
    <3>3. copies' \in [Sessions -> [MsgIds -> Nat]]
      BY <3>1, <3>2, <2>3
    <3>4. \A r \in Sessions, n \in MsgIds : copies[r][n] <= copies'[r][n]
      BY <2>1, <2>3, <3>1, <3>2
    <3>5. \A r \in Sessions, n \in MsgIds :
            onFile[r][n] \in Nat /\ copies[r][n] \in Nat /\ copies'[r][n] \in Nat
      BY <2>3, <3>3
    <3> QED BY <1>3, <3>3, <3>4, <3>5 DEF MInv, FileGrows
  <2>5. /\ allowed' \in [MsgIds -> Int] /\ allowed'[m] = allowed[m] - 1
        /\ \A n \in MsgIds : n # m => allowed'[n] = allowed[n]
    BY <1>3, <2>1, <2>3
  <2>6. WithinAllowance'
    <3> SUFFICES ASSUME NEW n \in MsgIds
                 PROVE  Cardinality(Holders(n)') + Pending(n)' <= allowed'[n]
      BY DEF WithinAllowance
    <3>1. /\ commands'[c] = new
          /\ \A d \in Commands : d # c => commands'[d] = commands[d]
      BY <1>3, <2>3 DEF At
    <3>2. Holders(n)' = IF n = m THEN Holders(n) \ {c} ELSE Holders(n)
      BY <1>1, <2>2, <3>1 DEF Holders, Holds
    <3>3. n = m => c \in Holders(n)
      BY <1>1 DEF Holders, Holds
    <3>4. IsFiniteSet(Holders(n))
      BY FS_Subset DEF Holders
    <3>5. Cardinality(Holders(n)') =
            IF n = m THEN Cardinality(Holders(n)) - 1 ELSE Cardinality(Holders(n))
      BY <3>2, <3>3, <3>4, FS_RemoveElement
    <3>6. Cardinality(Holders(n)) \in Nat
      BY <3>4, FS_CardinalityType
    <3>7. Pending(n)' = Pending(n) /\ Pending(n) \in Nat /\ allowed[n] \in Int
      BY <1>3, <2>3 DEF Pending, Row, vars
    <3> QED BY <2>5, <3>5, <3>6, <3>7 DEF MInv, WithinAllowance
  <2>7. Issued(new) /\ Answers(new)
    BY <1>1, <2>2 DEF Issued, Answers
  <2>8. \A n \in MsgIds : Watches(cmd, n) => Watches(new, n)
    BY <2>2 DEF Watches
  <2>9. Steady
    BY <1>3, SameStoreQuiet, QuietIsSteady DEF ClientsFall
  <2>10. /\ UNCHANGED <<participants, messages>>
         /\ \A n \in MsgIds : Row(n)' = Row(n)
    BY <1>3 DEF vars, Row
  <2>11. IInv'
    BY <1>3, StepKeepsIInv DEF MInv
  <2> QED BY <1>3, <2>2, <2>4, <2>5, <2>6, <2>7, <2>8, <2>9, <2>10, <2>11, CommandStep
<1> QED BY <1>2, <1>3 DEF Insert, LocalStep, deliverKeeps, fileVars

\* A new command holds no claim yet.
LEMMA DeliverKeepsMInv ==
    ASSUME MInv, NEW c \in Commands, NEW s \in Sessions, NEW m \in MsgIds, Deliver(c, s, m)
    PROVE  MInv'
<1> DEFINE cmd == [NoCommand EXCEPT !.session = s, !.by = client[s], !.message = m]
           new == Calls(cmd, "claim")
<1>1. client[s] \in ClientRow /\ m \in 0..MaxMessages
  BY BoundsAssumption DEF MInv, ManualType, MsgIds
<1>2. /\ cmd \in CommandRow /\ cmd.session = s /\ cmd.by = client[s] /\ cmd.message = m
      /\ cmd.attempt = 0 /\ cmd.at = "none"
  BY <1>1, NoCommandTyped DEF NoCommand, CommandRow, Calling
<1> HIDE DEF cmd
<1>3. LocalStep(c, new) /\ client[s] # Offline /\ commands[c] = NoCommand
  BY <1>2 DEF Deliver, LocalStep, MayBeReady, cmd
<1>4. Issued(cmd)
  BY <1>1, <1>2, <1>3 DEF MInv, Connections, ManualType, Issued
<1>5. Issued(new) /\ Answers(new)
  BY <1>4, CallIssued DEF Calling
<1>6. /\ new \in CommandRow /\ new.at = "claim"
      /\ new.reply = IF client[s] = cmd.by THEN "none" ELSE "error"
  BY <1>2, CallsFields DEF Calling
<1> HIDE DEF new
<1>7. \A n \in MsgIds : ~Holds(new, n) /\ ~Watches(commands[c], n)
  BY <1>2, <1>3, <1>6, NoCommandTyped DEF Holds, Watches
<1> QED BY <1>3, <1>5, <1>6, <1>7, LocalStepKeepsMInv

\* A recovery reports what its session file holds, or asks the human.
LEMMA RecoverKeepsMInv ==
    ASSUME MInv, NEW c \in Commands, NEW s \in Sessions, NEW m \in MsgIds, Recover(c, s, m)
    PROVE  MInv'
<1> DEFINE cmd == [NoCommand EXCEPT !.session = s, !.by = client[s], !.message = m,
                                    !.attempt = attempt[m]]
<1>1. client[s] \in ClientRow /\ m \in 0..MaxMessages /\ attempt[m] \in Nat
  BY BoundsAssumption DEF MInv, ManualType, MsgIds
<1>2. /\ cmd \in CommandRow /\ cmd.session = s /\ cmd.by = client[s] /\ cmd.message = m
      /\ cmd.attempt = attempt[m] /\ cmd.at = "none"
  BY <1>1, NoCommandTyped DEF NoCommand, CommandRow, Calling
<1> HIDE DEF cmd
<1>3. /\ client[s] # Offline /\ commands[c] = NoCommand
      /\ \/ EvidenceOf(cmd) /\ LocalStep(c, Calls(cmd, "reconcile"))
         \/ LocalStep(c, [cmd EXCEPT !.at = "confirming"])
  BY DEF Recover, LocalStep, cmd
<1>4. Issued(cmd)
  BY <1>1, <1>2, <1>3 DEF MInv, Connections, ManualType, Issued
<1>5. \A n \in MsgIds : ~Watches(commands[c], n)
  BY <1>3, NoCommandTyped DEF Watches
<1>6. CASE EvidenceOf(cmd) /\ LocalStep(c, Calls(cmd, "reconcile"))
  <2> DEFINE new == Calls(cmd, "reconcile")
  <2>1. Issued(new) /\ Answers(new)
    BY <1>4, <1>6, CallIssued DEF Calling
  <2>2. new \in CommandRow /\ new.at = "reconcile"
    BY <1>2, CallsFields DEF Calling
  <2> HIDE DEF new
  <2>3. \A n \in MsgIds : ~Holds(new, n)
    BY <2>2 DEF Holds
  <2> QED BY <1>5, <1>6, <2>1, <2>2, <2>3, LocalStepKeepsMInv DEF new
<1>7. CASE LocalStep(c, [cmd EXCEPT !.at = "confirming"])
  <2> DEFINE new == [cmd EXCEPT !.at = "confirming"]
  <2>1. /\ new \in CommandRow /\ new.at = "confirming" /\ new.session = cmd.session
        /\ new.by = cmd.by /\ new.message = cmd.message /\ new.attempt = cmd.attempt
    BY <1>2, GoesFields
  <2> HIDE DEF new
  <2>2. Issued(new) /\ Answers(new) /\ \A n \in MsgIds : ~Holds(new, n)
    BY <1>4, <2>1 DEF Issued, Answers, Holds
  <2> QED BY <1>5, <1>7, <2>1, <2>2, LocalStepKeepsMInv DEF new
<1> QED BY <1>3, <1>6, <1>7

\* A retry offers the message again, and allows one more insertion.
LEMMA ConfirmedKeepsMInv ==
    ASSUME MInv, NEW c \in Commands, NEW yes \in BOOLEAN, Confirmed(c, yes) PROVE MInv'
<1> USE ManualAssumption
<1> DEFINE cmd == commands[c]
<1>1. cmd.at = "confirming" /\ Working(c) /\ cmd.message \in MsgIds
  BY DEF MInv, CommandsIssued, Confirmed, Working, Issued
<1> PICK m \in MsgIds : m = cmd.message
  BY <1>1
<1>2. /\ \A n \in MsgIds : ~Watches(cmd, n) /\ ~Holds(cmd, n)
      /\ \A n \in MsgIds : ~Holds(NoCommand, n)
  BY <1>1, NoCommandTyped DEF Watches, Holds
<1>3. CASE UNCHANGED <<vars, allowed>>
  <2>1. LocalStep(c, NoCommand)
    BY <1>3 DEF Confirmed, LocalStep, deliverKeeps
  <2> QED BY <1>2, <2>1, DoneKeepsMInv
<1>4. CASE Retry(m, Worker) /\ allowed' = [allowed EXCEPT ![m] = @ + 1]
  <2>1. /\ At(c, NoCommand) /\ UNCHANGED <<client, orphans, attempt, copies, onFile>>
        /\ UNCHANGED <<participants, messages>>
    BY <1>4 DEF Confirmed, fileVars, Retry, SetDelivery, memberVars
  <2>2. Row(m) \in Delivery /\ deliveries \in [MsgIds -> [Participants -> Delivery]]
    BY <1>1, RowTyped DEF MInv, IInv, TypeOK, Row
  <2>3. /\ Row(m).state = "uncertain"
        /\ Row(m)' = [Row(m) EXCEPT !.state = "pending", !.activation = 0]
        /\ \A n \in MsgIds : n # m => Row(n)' = Row(n)
    BY <1>1, <1>4, <2>2 DEF Retry, SetDelivery, Row
  <2>4. Row(m)'.state = "pending"
    BY <2>2, <2>3 DEF Delivery
  <2>5. Steady
    BY <2>1, <2>3, <2>4 DEF Steady, InFlight, OutOfReach, Member
  <2>6. \A n \in MsgIds : Row(n)'.state = "recorded" =>
            Row(n).state = "recorded" /\ Row(n)'.session = Row(n).session
    BY <2>3, <2>4
  <2>7. /\ copies' \in [Sessions -> [MsgIds -> Nat]] /\ FileGrows'
        /\ allowed' \in [MsgIds -> Int] /\ allowed'[m] = allowed[m] + 1
        /\ \A n \in MsgIds : n # m => allowed'[n] = allowed[n]
    <3>1. allowed \in [MsgIds -> Int]
      BY DEF MInv, ManualType
    <3> QED BY <1>1, <1>4, <2>1, <3>1 DEF MInv, ManualType, FileGrows
  <2>8. WithinAllowance'
    <3> SUFFICES ASSUME NEW n \in MsgIds
                 PROVE  Cardinality(Holders(n)') + Pending(n)' <= allowed'[n]
      BY DEF WithinAllowance
    <3>1. Holders(n)' = Holders(n)
      <4>1. commands \in [Commands -> CommandRow]
        BY DEF MInv, ManualType
      <4> QED BY <1>2, <2>1, <4>1 DEF At, Holders
    <3>2. Cardinality(Holders(n)) \in Nat
      <4>1. IsFiniteSet(Holders(n))
        BY FS_Subset DEF Holders
      <4> QED BY <4>1, FS_CardinalityType
    <3>3. Pending(n)' = IF n = m THEN 1 ELSE Pending(n)
      BY <2>3, <2>4 DEF Pending
    <3>4. (n = m => Pending(n) = 0) /\ Pending(n) \in Nat /\ allowed[n] \in Int
      BY <2>3 DEF Pending, MInv, ManualType
    <3> QED BY <2>7, <3>1, <3>2, <3>3, <3>4 DEF MInv, WithinAllowance
  <2>9. IInv'
    <3>1. Next
      BY <1>1, <1>4 DEF Next, Mail, MInv, ManualType
    <3> QED BY <3>1, StepKeepsIInv DEF MInv
  <2> QED BY <1>2, <2>1, <2>5, <2>6, <2>7, <2>8, <2>9, NoCommandTyped, CommandStep
<1> QED BY <1>3, <1>4 DEF Confirmed

(***************************************************************************)
(* Calls served                                                            *)
(***************************************************************************)
\* What a served call does to the rows and the attempts; m is its message.
LEMMA ServedWorld ==
    ASSUME MInv, NEW cmd, NEW reply \in {"ok", "error"}, Issued(cmd), cmd.at \in Calling,
           cmd.by \in actors, Handled(cmd, cmd.at, reply), UNCHANGED <<client, onFile>>
    PROVE  /\ Steady /\ Grows /\ attempt' \in [MsgIds -> Nat]
           /\ UNCHANGED <<participants, messages>> /\ \A w : Dated(w) => Dated(w)'
           /\ RecordedOnFile' /\ RecordedBySession'
           /\ \A n \in MsgIds : Pending(n)' <= Pending(n)
           /\ \A n \in MsgIds : attempt'[n] > attempt[n] => n = cmd.message /\ Granted(cmd, reply)
<1> DEFINE m == cmd.message
<1>1. /\ m \in MsgIds /\ cmd.session \in Sessions /\ cmd.by.generation # 0
      /\ attempt \in [MsgIds -> Nat] /\ onFile \in [Sessions -> [MsgIds -> Nat]]
      /\ cmd.at \in {"receipt", "reconcile"} => onFile[cmd.session][m] > 0
  BY DEF Issued, MInv, ManualType
<1>2. /\ UNCHANGED <<participants, messages>>
      /\ \A n \in MsgIds : n # m => Row(n)' = Row(n) /\ attempt'[n] = attempt[n]
      /\ attempt' \in [MsgIds -> Nat]
      /\ Refused(cmd, reply) \/ Granted(cmd, reply) \/ Reported(cmd, reply)
  BY HandledRow
<1>3. \/ Row(m)' = Row(m) /\ attempt'[m] = attempt[m]
      \/ /\ attempt'[m] = attempt[m] + 1 /\ Row(m)'.generation # 0
         /\ Row(m).state = "pending" /\ Row(m)'.state = "claimed" /\ Granted(cmd, reply)
      \/ Reported(cmd, reply) /\ attempt'[m] = attempt[m]
  BY <1>1, <1>2 DEF Refused, Granted, Reported
<1>4. Grows
  <2>1. \A n \in Nat : n <= n /\ n <= n + 1
    OBVIOUS
  <2> QED BY <1>1, <1>2, <1>3, <2>1 DEF Grows
<1>5. \A w : Dated(w) => Dated(w)'
  BY <1>2 DEF Dated, Member
<1>6. Steady
  <2>1. \A g : OutOfReach(g) => OutOfReach(g)'
    BY <1>2 DEF OutOfReach, Member
  <2>3. Reported(cmd, reply) /\ InFlight(Row(m))' =>
            InFlight(Row(m)) /\ Row(m)'.generation = Row(m).generation
    BY DEF Reported, InFlight
  <2>4. attempt[m] + 1 > attempt[m]
    BY <1>1
  <2> SUFFICES ASSUME NEW n \in MsgIds, InFlight(Row(n))'
               PROVE  \/ attempt'[n] > attempt[n] /\ Row(n)'.generation # 0
                      \/ /\ InFlight(Row(n)) /\ attempt'[n] = attempt[n]
                         /\ Row(n)'.generation = Row(n).generation
                         /\ OutOfReach(Row(n).generation) => OutOfReach(Row(n).generation)'
    BY DEF Steady
  <2>5. Row(n)'.generation = Row(n).generation =>
            (OutOfReach(Row(n).generation) => OutOfReach(Row(n).generation)')
    BY <2>1 DEF OutOfReach
  <2> DEFINE same == Row(m)' = Row(m) /\ attempt'[m] = attempt[m]
  <2>6. CASE n # m \/ same
    <3>1. /\ InFlight(Row(n)) /\ attempt'[n] = attempt[n]
          /\ Row(n)'.generation = Row(n).generation
      BY <1>2, <2>6
    <3> QED BY <2>5, <3>1
  <2>7. CASE n = m /\ ~same
    <3>1. CASE attempt'[m] = attempt[m] + 1 /\ Row(m)'.generation # 0
      BY <2>4, <2>7, <3>1
    <3>2. CASE Reported(cmd, reply) /\ attempt'[m] = attempt[m]
      <4>1. InFlight(Row(m))'
        BY <2>7
      <4>2. InFlight(Row(m)) /\ Row(m)'.generation = Row(m).generation
        BY <2>3, <3>2, <4>1
      <4>3. /\ InFlight(Row(n)) /\ Row(n)'.generation = Row(n).generation
            /\ attempt'[n] = attempt[n]
        BY <2>7, <3>2, <4>2 DEF Row
      <4> QED BY <2>5, <4>3
    <3> QED BY <1>3, <2>7, <3>1, <3>2
  <2> HIDE DEF same
  <2> QED BY <2>6, <2>7
<1>7. RecordedOnFile' /\ RecordedBySession'
  <2> SUFFICES ASSUME NEW n \in MsgIds, Row(n)'.state = "recorded"
               PROVE  Row(n)'.session \in Sessions /\ onFile[Row(n)'.session][n] > 0
    BY DEF RecordedOnFile, RecordedBySession, Row
  <2>1. CASE Row(n)' = Row(n)
    BY <2>1 DEF MInv, RecordedOnFile, RecordedBySession, Row
  <2>2. CASE n = m /\ Reported(cmd, reply)
    <3>1. cmd.at \in {"receipt", "reconcile"}
      BY <2>2 DEF Reported, Calling
    <3> QED BY <1>1, <2>2, <3>1 DEF Reported
  <2> QED BY <1>2, <1>3, <2>1, <2>2
<1>8. \A n \in MsgIds : Pending(n)' <= Pending(n)
  <2>1. \A n \in MsgIds : Row(n)'.state = "pending" => Row(n).state = "pending"
    BY <1>2, <1>3 DEF Reported
  <2> QED BY <2>1 DEF Pending
<1>9. \A n \in MsgIds : attempt'[n] > attempt[n] => n = m /\ Granted(cmd, reply)
  BY <1>1, <1>2, <1>3
<1> QED BY <1>2, <1>4, <1>5, <1>6, <1>7, <1>8, <1>9

\* What is left of the invariant once the commands and orphans are accounted for.
LEMMA ServedKeepsRest ==
    ASSUME MInv, UNCHANGED <<client, fileVars, allowed>>, UNCHANGED messages,
           commands' \in [Commands -> CommandRow], orphans' \subseteq CommandRow,
           attempt' \in [MsgIds -> Nat], \A w : Dated(w) => Dated(w)'
    PROVE  ManualType' /\ Connections' /\ FileGrows'
<1>1. ManualType' /\ FileGrows'
  BY DEF MInv, ManualType, FileGrows, fileVars
<1>2. Connections'
  BY DEF MInv, Connections
<1> QED BY <1>1, <1>2

\* The broker answers a command.
LEMMA ServeKeepsMInv == ASSUME MInv, NEW c \in Commands, Serve(c) PROVE MInv'
<1> USE ManualAssumption
<1> PICK cmd : cmd = commands[c]
  OBVIOUS
<1>1. /\ cmd.at \in Calling /\ cmd.reply = "none" /\ cmd.by \in actors
      /\ UNCHANGED <<client, orphans, fileVars, allowed>>
  BY DEF Serve
<1> PICK reply \in {"ok", "error"} :
        /\ Handled(cmd, cmd.at, reply)
        /\ At(c, [cmd EXCEPT !.reply = reply,
                    !.attempt = IF cmd.at = "claim" THEN attempt'[cmd.message] ELSE @])
  BY DEF Serve
<1> DEFINE m == cmd.message
<1>2. Issued(cmd) /\ Answers(cmd)
  BY <1>1 DEF MInv, CommandsIssued, Working, Calling
<1>3. m \in MsgIds /\ cmd \in CommandRow
  BY <1>2 DEF Issued
<1>4. /\ Steady /\ Grows /\ attempt' \in [MsgIds -> Nat]
      /\ UNCHANGED <<participants, messages>> /\ \A w : Dated(w) => Dated(w)'
      /\ RecordedOnFile' /\ RecordedBySession'
      /\ \A n \in MsgIds : Pending(n)' <= Pending(n)
      /\ \A n \in MsgIds : attempt'[n] > attempt[n] => n = m /\ Granted(cmd, reply)
  BY <1>1, <1>2, ServedWorld DEF fileVars
<1> PICK new : new = [cmd EXCEPT !.reply = reply,
                    !.attempt = IF cmd.at = "claim" THEN attempt'[cmd.message] ELSE @]
  OBVIOUS
<1>5. /\ new \in CommandRow /\ new.at = cmd.at /\ new.session = cmd.session
      /\ new.by = cmd.by /\ new.message = m /\ new.reply = reply
      /\ new.attempt = IF cmd.at = "claim" THEN attempt'[m] ELSE cmd.attempt
  <2>1. attempt'[m] \in Nat
    BY <1>3, <1>4
  <2> QED BY <1>3, <2>1 DEF CommandRow
<1>6. /\ commands' \in [Commands -> CommandRow] /\ commands'[c] = new
      /\ \A d \in Commands : d # c => commands'[d] = commands[d]
  <2>1. commands' = [commands EXCEPT ![c] = new]
    BY DEF At
  <2> QED BY <1>5, <2>1 DEF MInv, ManualType
<1>7. ManualType' /\ Connections' /\ FileGrows'
  BY <1>1, <1>4, <1>6, ServedKeepsRest DEF MInv, ManualType
<1>8. Issued(new)'
  <2>1. Issued(cmd)'
    BY <1>2, <1>4, <1>7, IssuedKept DEF Issued
  <2>2. attempt'[m] \in Nat
    BY <1>3, <1>4
  <2>3. new.attempt <= attempt'[m]
    BY <1>5, <2>1, <2>2 DEF Issued
  <2> QED BY <1>5, <2>1, <2>3 DEF Issued, Dated, Member
<1>9. \A e : Issued(e) => Issued(e)'
  BY <1>4, <1>7, IssuedKept DEF Issued
<1>10. CommandsIssued'
  <2>1. \A d \in Commands : Working(d)' => Issued(commands[d])'
    <3>1. ASSUME NEW d \in Commands, d # c, Working(d)' PROVE Issued(commands'[d])
      BY <1>6, <3>1 DEF MInv, CommandsIssued, Working
    <3>2. ASSUME NEW d \in Commands, d # c, Working(d)' PROVE Issued(commands[d])'
      BY <1>9, <3>1, <3>2 DEF Issued
    <3>3. Issued(commands[c])'
      BY <1>6, <1>8 DEF Issued
    <3> QED BY <3>2, <3>3
  <2>2. \A e \in orphans' : Issued(e)' /\ e.at \in Calling /\ client'[e.session] # e.by
    BY <1>1, <1>9 DEF MInv, CommandsIssued
  <2> QED BY <2>1, <2>2 DEF CommandsIssued
<1>11. Refused(cmd, reply) \/ Granted(cmd, reply) \/ Reported(cmd, reply)
  BY <1>1, <1>2, HandledRow
<1>12. Answers(new)'
  <2>1. CASE Refused(cmd, reply)
    BY <1>2, <1>4, <1>5, <2>1 DEF Refused, Answers, OutOfReach, InFlight, Member
  <2>2. CASE Granted(cmd, reply)
    BY <1>5, <2>2 DEF Granted, Answers
  <2>3. CASE Reported(cmd, reply)
    BY <1>5, <2>3 DEF Reported, Answers, InFlight
  <2> QED BY <1>11, <2>1, <2>2, <2>3
<1>13. \A d \in Commands : Working(d)' => Answers(commands[d])'
  <2>1. \A e : Issued(e) /\ Answers(e) => Answers(e)'
    BY <1>4, <1>7, AnswersStay
  <2>2. \A d \in Commands : Working(d)' /\ d # c => Issued(commands'[d]) /\ Answers(commands'[d])
    BY <1>6 DEF MInv, CommandsIssued, Working
  <2> QED BY <1>6, <1>12, <2>1, <2>2 DEF Answers
<1>14. WithinAllowance'
  <2> SUFFICES ASSUME NEW n \in MsgIds
               PROVE  Cardinality(Holders(n)') + Pending(n)' <= allowed'[n]
    BY DEF WithinAllowance
  <2>1. IsFiniteSet(Holders(n)) /\ IsFiniteSet(Holders(n)')
    BY FS_Subset DEF Holders
  <2>2. Cardinality(Holders(n)) \in Nat /\ Cardinality(Holders(n)') \in Nat
    BY <2>1, FS_CardinalityType
  <2>3. Pending(n) \in 0..1 /\ Pending(n)' \in 0..1 /\ allowed[n] \in Int
    BY DEF Pending, MInv, ManualType
  <2>4. CASE n = m /\ Granted(cmd, reply)
    <3>1. Pending(n) = 1 /\ Pending(n)' = 0
      BY <2>4 DEF Granted, Pending
    <3>2. Holders(n)' \subseteq Holders(n) \cup {c}
      BY <1>6 DEF Holders
    <3>3. Cardinality(Holders(n)') <= Cardinality(Holders(n)) + 1
      <4> DEFINE H == Holders(n)
      <4>0. /\ IsFiniteSet(H \cup {c})
            /\ Cardinality(H \cup {c}) = IF c \in H THEN Cardinality(H) ELSE Cardinality(H) + 1
        BY <2>1, FS_AddElement
      <4>1. /\ IsFiniteSet(Holders(n) \cup {c})
            /\ Cardinality(Holders(n) \cup {c}) <= Cardinality(Holders(n)) + 1
        BY <2>2, <4>0
      <4>2. /\ Cardinality(Holders(n)') <= Cardinality(Holders(n) \cup {c})
            /\ Cardinality(Holders(n) \cup {c}) \in Nat
        BY <3>2, <4>1, FS_Subset, FS_CardinalityType
      <4> QED BY <2>2, <4>1, <4>2
    <3> QED BY <1>1, <2>2, <2>3, <3>1, <3>3 DEF MInv, WithinAllowance
  <2>5. CASE ~(n = m /\ Granted(cmd, reply))
    <3>1. Holds(new, n) => Holds(cmd, n)
      BY <1>1, <1>5, <1>11, <2>5 DEF Holds, Refused, Reported
    <3>2. Holders(n)' \subseteq Holders(n)
      BY <1>6, <3>1 DEF Holders
    <3>3. Cardinality(Holders(n)') <= Cardinality(Holders(n))
      BY <2>1, <3>2, FS_Subset
    <3> QED BY <1>1, <1>4, <2>2, <2>3, <3>3 DEF MInv, WithinAllowance
  <2> QED BY <2>4, <2>5
<1>15. Watched'
  <2>1. ASSUME NEW d \in Commands, NEW n \in MsgIds, InFlight(Row(n)), InFlight(Row(n))',
               attempt'[n] = attempt[n], Watches(commands[d], n)
        PROVE  Watches(commands[d], n)'
    <3>1. Row(n)'.generation = Row(n).generation
      <4>1. attempt[n] \in Nat
        BY DEF MInv, ManualType
      <4> QED BY <1>4, <2>1, <4>1 DEF Steady
    <3>2. CASE d # c
      BY <1>6, <2>1, <3>1, <3>2 DEF Watches
    <3>3. CASE d = c
      <4>1. /\ cmd.message = n /\ cmd.attempt = attempt[n]
            /\ cmd.by.generation = Row(n).generation
            /\ cmd.at \in {"queue", "reading", "inserting", "proving", "receipt", "uncertain"}
        BY <1>1, <2>1, <3>3 DEF Watches
      <4>2. /\ new.message = n /\ new.attempt = attempt'[n] /\ new.at = cmd.at
            /\ new.by.generation = Row(n)'.generation
        <5>1. cmd.at # "claim" /\ attempt'[n] = attempt[n]
          BY <2>1, <4>1
        <5> QED BY <1>5, <3>1, <4>1, <5>1
      <4>3. commands'[d] = new
        BY <1>6, <3>3
      <4> QED BY <4>1, <4>2, <4>3 DEF Watches
    <3> QED BY <3>2, <3>3
  <2>2. ASSUME Granted(cmd, reply) PROVE Watches(commands[c], m)'
    BY <1>5, <1>6, <2>2 DEF Granted, Watches
  <2> QED BY <1>4, <2>1, <2>2, WatchedKept
<1>16. IInv'
  <2>1. ManualNext
    BY DEF ManualNext
  <2> QED BY <2>1, ManualIsStore, StepKeepsIInv DEF MInv
<1> QED BY <1>4, <1>7, <1>10, <1>13, <1>14, <1>15, <1>16, ClaimedKept DEF MInv

\* The broker serves a call that its session has given up.
LEMMA ServeOrphanKeepsMInv == ASSUME MInv, ServeOrphan PROVE MInv'
<1> USE ManualAssumption
<1> PICK cmd \in orphans, reply \in {"ok", "error"} :
        /\ orphans' = orphans \ {cmd} /\ cmd.by \in actors
        /\ Handled(cmd, cmd.at, reply)
  BY DEF ServeOrphan
<1> DEFINE m == cmd.message
<1>1. UNCHANGED <<client, commands, fileVars, allowed>>
  BY DEF ServeOrphan
<1>2. Issued(cmd) /\ cmd.at \in Calling /\ client[cmd.session] # cmd.by
  BY DEF MInv, CommandsIssued
<1>3. m \in MsgIds /\ cmd \in CommandRow
  BY <1>2 DEF Issued
<1>4. /\ Steady /\ Grows /\ attempt' \in [MsgIds -> Nat]
      /\ UNCHANGED <<participants, messages>> /\ \A w : Dated(w) => Dated(w)'
      /\ RecordedOnFile' /\ RecordedBySession'
      /\ \A n \in MsgIds : Pending(n)' <= Pending(n)
      /\ \A n \in MsgIds : attempt'[n] > attempt[n] => n = m /\ Granted(cmd, reply)
  BY <1>1, <1>2, ServedWorld DEF fileVars
<1>5. ManualType' /\ Connections' /\ FileGrows'
  BY <1>1, <1>4, ServedKeepsRest DEF MInv, ManualType
<1>6. \A e : Issued(e) => Issued(e)'
  BY <1>4, <1>5, IssuedKept DEF Issued
<1>7. CommandsIssued'
  <2>1. \A d \in Commands : Working(d)' => Issued(commands[d])'
    BY <1>1, <1>6 DEF MInv, CommandsIssued, Working, Issued, Dated, Member
  <2>2. \A e \in orphans' : Issued(e)' /\ e.at \in Calling /\ client'[e.session] # e.by
    BY <1>1, <1>6 DEF MInv, CommandsIssued
  <2> QED BY <2>1, <2>2 DEF CommandsIssued
<1>8. \A d \in Commands : Working(d)' => Answers(commands[d])'
  <2>1. \A e : Issued(e) /\ Answers(e) => Answers(e)'
    BY <1>4, <1>5, AnswersStay
  <2>2. \A d \in Commands : Working(d)' => Issued(commands'[d]) /\ Answers(commands'[d])
    BY <1>1 DEF MInv, CommandsIssued, Working
  <2> QED BY <2>1, <2>2 DEF Answers
<1>9. WithinAllowance'
  <2>1. \A n \in MsgIds : Row(n)'.state = "pending" => Row(n).state = "pending"
    BY <1>4 DEF Pending
  <2> QED BY <1>1, <1>5, <2>1, AllowanceKept
<1>10. Watched'
  <2>1. ASSUME NEW d \in Commands, NEW n \in MsgIds, InFlight(Row(n)), InFlight(Row(n))',
               attempt'[n] = attempt[n], Watches(commands[d], n)
        PROVE  Watches(commands[d], n)'
    <3>1. Row(n)'.generation = Row(n).generation
      <4>1. attempt[n] \in Nat
        BY DEF MInv, ManualType
      <4> QED BY <1>4, <2>1, <4>1 DEF Steady
    <3> QED BY <1>1, <2>1, <3>1 DEF Watches
  <2>2. ASSUME Granted(cmd, reply) PROVE OutOfReach(Row(m).generation)'
    <3>1. cmd.by \in ClientRow /\ cmd.by.generation # 0 /\ Dated(cmd.by) /\ cmd.by.session = cmd.session
      BY <1>2, <1>3 DEF Issued, CommandRow
    <3>2. \A s \in Sessions : client[s].generation # cmd.by.generation
      BY <1>2, <2>2, <3>1, PresentConnection DEF Granted
    <3> QED BY <1>1, <2>2, <3>2 DEF Granted, OutOfReach
  <2> QED BY <1>4, <2>1, <2>2, WatchedKept
<1>11. IInv'
  <2>1. ManualNext
    BY DEF ManualNext
  <2> QED BY <2>1, ManualIsStore, StepKeepsIInv DEF MInv
<1> QED BY <1>4, <1>5, <1>7, <1>8, <1>9, <1>10, <1>11, ClaimedKept DEF MInv

(***************************************************************************)
(* The session, its connection and its file; the broker's own steps        *)
(***************************************************************************)
\* A command goes on, is stopped, or has its call cut off with its connection.
CommandKept(d, e) ==
    \/ e = NoCommand
    \/ /\ e \in CommandRow
       /\ e.at = d.at /\ e.session = d.session /\ e.by = d.by
       /\ e.message = d.message /\ e.attempt = d.attempt
       /\ e.reply = d.reply \/ (e.reply = "error" /\ client'[d.session] = Offline)

\* A command is stopped only with its session's connection.
CommandsKept ==
    /\ commands' \in [Commands -> CommandRow]
    /\ \A c \in Commands :
        /\ CommandKept(commands[c], commands'[c])
        /\ Working(c) => Working(c)' \/ client'[commands[c].session] = Offline

OrphansKept ==
    /\ orphans' \subseteq CommandRow
    /\ \A cmd \in orphans' :
        /\ cmd \in orphans \/ (Issued(cmd) /\ cmd.at \in Calling)
        /\ client'[cmd.session] # cmd.by

\* What it reported on is out of reach once its session has no connection.
LEMMA CutOffReach ==
    ASSUME MInv, NEW cmd, Issued(cmd), InFlight(Row(cmd.message)),
           cmd.by.generation = Row(cmd.message).generation,
           ClientsFall, client'[cmd.session] = Offline
    PROVE  \A s \in Sessions : client'[s].generation # cmd.by.generation
<1> SUFFICES ASSUME NEW s \in Sessions, client'[s].generation = cmd.by.generation
             PROVE  FALSE
  OBVIOUS
<1>1. cmd.by.generation # 0
  BY DEF Issued
<1>2. client'[s] = client[s]
  BY <1>1 DEF ClientsFall, Offline
<1>3. s = cmd.session
  BY <1>2, OnlyItsConnection
<1> QED BY <1>1, <1>3 DEF Offline

\* The sessions and the broker's own steps keep the invariant.
LEMMA SessionStep ==
    ASSUME MInv, IInv', UNCHANGED <<messages, attempt, allowed>>,
           Quiet, MemberStays \/ MemberSevered \/ MemberRelinked,
           ClientsFall \/ NothingInFlight,
           client' \in [Sessions -> ClientRow], Connections',
           copies' \in [Sessions -> [MsgIds -> Nat]],
           onFile' \in [Sessions -> [MsgIds -> Nat]], Grows, FileGrows',
           CommandsKept, OrphansKept
    PROVE  MInv'
<1>1. ManualType'
  BY DEF MInv, ManualType, CommandsKept, OrphansKept
<1>2. \A w \in ClientRow : Dated(w) => Dated(w)'
  BY DatedKept DEF MInv
<1>3. \A e : Issued(e) => Issued(e)'
  <2>1. \A e : Issued(e) => Dated(e.by)'
    BY <1>2 DEF Issued, CommandRow
  <2> QED BY <1>1, <2>1, IssuedKept
<1>4. Steady
  BY QuietIsSteady
<1>5. \A c \in Commands : Working(c)' => Working(c) /\ Issued(commands[c])
  BY NoCommandTyped DEF CommandsKept, CommandKept, Working, MInv, CommandsIssued
<1>6. CommandsIssued'
  <2>1. ASSUME NEW c \in Commands, Working(c)' PROVE Issued(commands[c])'
    <3> PICK d, e : d = commands[c] /\ e = commands'[c]
      OBVIOUS
    <3>1. Issued(d)' /\ e \in CommandRow
      BY <1>3, <1>5, <2>1 DEF CommandsKept
    <3>2. /\ e.at = d.at /\ e.session = d.session /\ e.by = d.by
          /\ e.message = d.message /\ e.attempt = d.attempt
      BY <2>1, NoCommandTyped DEF CommandsKept, CommandKept, Working
    <3>3. Issued(e)'
      BY <3>1, <3>2 DEF Issued
    <3> QED BY <3>3 DEF Issued
  <2>2. \A e \in orphans' : Issued(e)' /\ e.at \in Calling /\ client'[e.session] # e.by
    BY <1>3 DEF MInv, CommandsIssued, OrphansKept
  <2> QED BY <2>1, <2>2 DEF CommandsIssued
<1>7. RecordedOnFile' /\ RecordedBySession'
  <2>1. \A m \in MsgIds : Row(m)'.state = "recorded" =>
            Row(m).state = "recorded" /\ Row(m)'.session = Row(m).session
    BY DEF Quiet, RowQuiet
  <2> QED BY <1>1, <2>1, RecordedKept
<1>8. WithinAllowance'
  <2>1. \A m \in MsgIds : Row(m)'.state = "pending" => Row(m).state = "pending"
    BY DEF Quiet, RowQuiet
  <2>2. ASSUME NEW c \in Commands, NEW m \in MsgIds, Holds(commands'[c], m)
        PROVE  Holds(commands[c], m)
    <3>1. commands'[c].at # "none"
      BY <2>2 DEF Holds
    <3> QED BY <2>2, <3>1, NoCommandTyped DEF CommandsKept, CommandKept, Holds
  <2> QED BY <1>1, <2>1, <2>2, AllowanceKept
<1>9. ClaimedByConnection'
  BY <1>4, ClaimedKept
<1>10. ASSUME NEW m \in MsgIds, InFlight(Row(m))'
       PROVE  /\ InFlight(Row(m)) /\ Row(m)'.generation = Row(m).generation
              /\ ClientsFall /\ MemberStays
  BY <1>10 DEF Quiet, RowQuiet, NothingInFlight, InFlight
<1>11. \A c \in Commands : Working(c)' => Answers(commands[c])'
  <2> SUFFICES ASSUME NEW c \in Commands, Working(c)' PROVE Answers(commands[c])'
    OBVIOUS
  <2> PICK d, e : d = commands[c] /\ e = commands'[c]
    OBVIOUS
  <2>1. Issued(d) /\ Answers(d)
    BY <1>5 DEF MInv
  <2>2. Answers(d)'
    BY <1>1, <1>4, <2>1, AnswersStay
  <2>3. /\ e.at = d.at /\ e.session = d.session /\ e.by = d.by
        /\ e.message = d.message /\ e.attempt = d.attempt
        /\ e.reply = d.reply \/ (e.reply = "error" /\ client'[d.session] = Offline)
    BY NoCommandTyped DEF CommandsKept, CommandKept, Working
  <2>4. CASE e.reply = d.reply
    <3>1. Answers(e)'
      BY <2>2, <2>3, <2>4 DEF Answers
    <3> QED BY <3>1 DEF Answers
  <2>5. CASE e.reply = "error" /\ client'[d.session] = Offline
    <3>1. ASSUME InFlight(Row(d.message))', e.by.generation = Row(d.message)'.generation
          PROVE  OutOfReach(e.by.generation)'
      <4>1. d.message \in MsgIds
        BY <2>1 DEF Issued
      <4> QED BY <1>10, <2>1, <2>3, <2>5, <3>1, <4>1, CutOffReach DEF OutOfReach
    <3>2. Answers(e)'
      BY <2>3, <2>5, <3>1 DEF Answers
    <3> QED BY <3>2 DEF Answers
  <2> QED BY <2>3, <2>4, <2>5
<1>12. Watched'
  <2>1. ASSUME NEW c \in Commands, NEW m \in MsgIds, InFlight(Row(m)), InFlight(Row(m))',
               Watches(commands[c], m)
        PROVE  Watches(commands[c], m)' \/ OutOfReach(Row(m).generation)'
    <3> PICK d, e : d = commands[c] /\ e = commands'[c]
      OBVIOUS
    <3>1. Issued(d) /\ d.message = m /\ d.by.generation = Row(m).generation /\ Working(c)
      BY <2>1 DEF Watches, MInv, CommandsIssued, Working
    <3>2. CASE client'[d.session] = Offline
      BY <1>10, <2>1, <3>1, <3>2, CutOffReach DEF OutOfReach
    <3>3. CASE client'[d.session] # Offline
      <4>1. /\ e.at = d.at /\ e.by = d.by /\ e.message = d.message
            /\ e.attempt = d.attempt /\ e.reply = d.reply
        BY <3>1, <3>3, NoCommandTyped DEF CommandsKept, CommandKept, Working
      <4>2. Watches(e, m)'
        BY <1>10, <2>1, <4>1 DEF Watches
      <4> QED BY <4>2 DEF Watches
    <3> QED BY <3>2, <3>3
  <2>2. \A m \in MsgIds : ~(attempt'[m] > attempt[m])
    BY DEF MInv, ManualType
  <2> QED BY <1>4, <2>1, <2>2, WatchedKept
<1> QED BY <1>1, <1>6, <1>7, <1>8, <1>9, <1>11, <1>12 DEF MInv

\* The calls cut off when session s loses its connection are its own.
LEMMA CutOffCalls ==
    ASSUME MInv, NEW s \in Sessions, NEW c \in Commands,
           commands[c].by = client[s], commands[c].at \in Calling
    PROVE  Issued(commands[c]) /\ commands[c].session = s
<1>1. Issued(commands[c])
  BY DEF MInv, CommandsIssued, Working, Calling
<1>2. client[s] # Offline
  BY <1>1 DEF Issued, Offline
<1> QED BY <1>1, <1>2 DEF Issued, MInv, Connections

\* A session that loses its connection keeps its other commands.
LEMMA CutOffKept ==
    ASSUME MInv, NEW s \in Sessions, client'[s] = Offline, NEW c \in Commands
    PROVE  LET e == CutOff(s)[c]
               f == [e EXCEPT !.stale = TRUE] IN
           /\ e \in CommandRow /\ CommandKept(commands[c], e) /\ e.at = commands[c].at
           /\ f \in CommandRow /\ CommandKept(commands[c], f) /\ f.at = commands[c].at
<1> DEFINE d == commands[c]  e == CutOff(s)[c]
<1>1. d \in CommandRow
  BY DEF MInv, ManualType
<1>2. e = IF d.by = client[s] /\ d.at \in Calling /\ d.reply = "none"
          THEN [d EXCEPT !.reply = "error"] ELSE d
  BY DEF CutOff
<1>3. d.by = client[s] /\ d.at \in Calling => d.session = s
  BY CutOffCalls
<1>4. /\ e \in CommandRow /\ e.at = d.at /\ e.session = d.session /\ e.by = d.by
      /\ e.message = d.message /\ e.attempt = d.attempt
      /\ e.reply = d.reply \/ (e.reply = "error" /\ client'[d.session] = Offline)
  BY <1>1, <1>2, <1>3 DEF CommandRow
<1> HIDE DEF e
<1> DEFINE f == [e EXCEPT !.stale = TRUE]
<1>5. /\ f \in CommandRow /\ f.at = e.at /\ f.session = e.session /\ f.by = e.by
      /\ f.message = e.message /\ f.attempt = e.attempt /\ f.reply = e.reply
  BY <1>4 DEF CommandRow
<1> HIDE DEF f
<1> QED BY <1>4, <1>5 DEF CommandKept, e, f

\* The calls on a connection that is lost become orphans.
LEMMA CallsOrphaned ==
    ASSUME MInv, NEW s \in Sessions, client' = [client EXCEPT ![s] = Offline],
           orphans' = orphans \cup CallsOn(s)
    PROVE  OrphansKept
<1>1. client'[s] = Offline /\ ClientsFall
  BY DEF MInv, ManualType, ClientsFall
<1>2. \A cmd \in CallsOn(s) : Issued(cmd) /\ cmd.at \in Calling /\ client'[cmd.session] = Offline
  BY <1>1, CutOffCalls DEF CallsOn
<1>3. \A cmd \in orphans : Issued(cmd) /\ client[cmd.session] # cmd.by /\ cmd.session \in Sessions
  BY DEF MInv, CommandsIssued, Issued
<1>4. \A cmd \in orphans : client'[cmd.session] # cmd.by
  BY <1>1, <1>3 DEF ClientsFall, Issued, Offline
<1>5. \A cmd \in CallsOn(s) : client'[cmd.session] # cmd.by /\ cmd \in CommandRow
  BY <1>2 DEF Issued, Offline
<1>6. orphans \subseteq CommandRow
  BY DEF MInv, ManualType
<1> QED BY <1>2, <1>4, <1>5, <1>6 DEF OrphansKept

\* What all losses of a session's connection have in common.
LEMMA ConnectionLost ==
    ASSUME MInv, NEW s \in Sessions, client' = [client EXCEPT ![s] = Offline],
           UNCHANGED <<vars, attempt, allowed>>
    PROVE  /\ IInv' /\ Quiet /\ MemberStays /\ ClientsFall
           /\ client' \in [Sessions -> ClientRow] /\ Connections'
           /\ UNCHANGED messages /\ client'[s] = Offline
<1>1. Offline \in ClientRow
  BY ManualAssumption, BoundsAssumption DEF Offline, ClientRow
<1>2. /\ client' \in [Sessions -> ClientRow] /\ ClientsFall /\ client'[s] = Offline
  BY <1>1 DEF MInv, ManualType, ClientsFall
<1>3. Quiet /\ MemberStays /\ \A w : Dated(w) => Dated(w)'
  BY SameStoreQuiet
<1>4. Connections'
  BY <1>2, <1>3 DEF MInv, Connections, ClientsFall
<1>5. IInv'
  BY StepKeepsIInv DEF MInv
<1> QED BY <1>2, <1>3, <1>4, <1>5 DEF vars

\* A session loses its connection, its runtime or its process.
LEMMA LossKeepsMInv ==
    ASSUME MInv, NEW s \in Sessions, Drop(s) \/ Reload(s) \/ Crash(s) PROVE MInv'
<1>1. /\ client' = [client EXCEPT ![s] = Offline] /\ orphans' = orphans \cup CallsOn(s)
      /\ UNCHANGED <<vars, attempt, allowed, onFile>>
  BY DEF Drop, Reload, Crash, fileVars
<1>2. OrphansKept
  BY <1>1, CallsOrphaned
<1>3. /\ IInv' /\ Quiet /\ MemberStays /\ ClientsFall
      /\ client' \in [Sessions -> ClientRow] /\ Connections'
      /\ UNCHANGED messages /\ client'[s] = Offline
  BY <1>1, ConnectionLost
<1>4. /\ copies' \in [Sessions -> [MsgIds -> Nat]]
      /\ onFile' \in [Sessions -> [MsgIds -> Nat]] /\ Grows /\ FileGrows'
  <2>1. \A n \in Nat : n <= n
    OBVIOUS
  <2>2. /\ copies \in [Sessions -> [MsgIds -> Nat]] /\ onFile \in [Sessions -> [MsgIds -> Nat]]
        /\ attempt \in [MsgIds -> Nat]
        /\ \A r \in Sessions, m \in MsgIds : onFile[r][m] <= copies[r][m]
    BY DEF MInv, ManualType, FileGrows
  <2>3. copies' = copies \/ copies' = [copies EXCEPT ![s] = onFile[s]]
    BY DEF Drop, Reload, Crash, fileVars
  <2>4. Grows
    BY <1>1, <2>1, <2>2 DEF Grows
  <2> QED BY <1>1, <2>1, <2>2, <2>3, <2>4 DEF FileGrows
<1>5. CommandsKept
  <2>1. \A c \in Commands :
          LET e == CutOff(s)[c]
              f == [e EXCEPT !.stale = TRUE] IN
          /\ e \in CommandRow /\ CommandKept(commands[c], e) /\ e.at = commands[c].at
          /\ f \in CommandRow /\ CommandKept(commands[c], f) /\ f.at = commands[c].at
    BY <1>3, CutOffKept
  <2>2. \A c \in Commands : commands[c] \in CommandRow /\ CommandKept(commands[c], commands[c])
    BY DEF MInv, ManualType, CommandKept
  <2>3. CASE Drop(s)
    <3>1. commands' = CutOff(s) /\ CutOff(s) = [c \in Commands |-> CutOff(s)[c]]
      BY <2>3 DEF Drop, CutOff
    <3> QED BY <2>1, <3>1 DEF CommandsKept, Working
  <2>4. CASE Reload(s)
    <3>1. commands' = [c \in Commands |->
              IF commands[c].session = s THEN [CutOff(s)[c] EXCEPT !.stale = TRUE]
              ELSE commands[c]]
      BY <2>4 DEF Reload
    <3> QED BY <2>1, <2>2, <3>1 DEF CommandsKept, Working
  <2>5. CASE Crash(s)
    <3>1. commands' = [c \in Commands |->
              IF commands[c].session = s THEN NoCommand ELSE commands[c]]
      BY <2>5 DEF Crash
    <3>2. \A d : CommandKept(d, NoCommand)
      BY DEF CommandKept
    <3> QED BY <1>3, <2>2, <3>1, <3>2, NoCommandTyped DEF CommandsKept, Working, CommandKept
  <2> QED BY <2>3, <2>4, <2>5
<1> QED BY <1>1, <1>2, <1>3, <1>4, <1>5, SessionStep

\* A command that is left alone is kept.
LEMMA SameCommandsKept ==
    ASSUME MInv, UNCHANGED commands PROVE CommandsKept
BY DEF MInv, ManualType, CommandsKept, CommandKept, Working

\* Files that are left alone are kept.
LEMMA SameFilesKept ==
    ASSUME MInv, UNCHANGED <<fileVars, attempt>>
    PROVE  /\ copies' \in [Sessions -> [MsgIds -> Nat]]
           /\ onFile' \in [Sessions -> [MsgIds -> Nat]] /\ Grows /\ FileGrows'
<1>1. \A n \in Nat : n <= n
  OBVIOUS
<1> QED BY <1>1 DEF MInv, ManualType, Grows, FileGrows, fileVars

\* A session file catches up with the session.
LEMMA FlushKeepsMInv == ASSUME MInv, NEW s \in Sessions, Flush(s) PROVE MInv'
<1>1. /\ onFile' = [onFile EXCEPT ![s] = copies[s]]
      /\ UNCHANGED <<vars, client, commands, orphans, attempt, copies, allowed>>
  BY DEF Flush
<1>2. /\ copies' \in [Sessions -> [MsgIds -> Nat]]
      /\ onFile' \in [Sessions -> [MsgIds -> Nat]] /\ Grows /\ FileGrows'
  <2>1. \A n \in Nat : n <= n
    OBVIOUS
  <2>2. /\ copies \in [Sessions -> [MsgIds -> Nat]] /\ onFile \in [Sessions -> [MsgIds -> Nat]]
        /\ attempt \in [MsgIds -> Nat]
        /\ \A r \in Sessions, m \in MsgIds : onFile[r][m] <= copies[r][m]
    BY DEF MInv, ManualType, FileGrows
  <2>3. \A r \in Sessions, m \in MsgIds :
            onFile'[r][m] = IF r = s THEN copies[r][m] ELSE onFile[r][m]
    BY <1>1, <2>2
  <2>4. Grows
    BY <1>1, <2>1, <2>2, <2>3 DEF Grows
  <2> QED BY <1>1, <2>1, <2>2, <2>3, <2>4 DEF FileGrows
<1>3. Quiet /\ MemberStays /\ \A w : Dated(w) => Dated(w)'
  BY <1>1, SameStoreQuiet
<1>4. /\ client' \in [Sessions -> ClientRow] /\ Connections' /\ ClientsFall /\ UNCHANGED messages
  BY <1>1, <1>3 DEF MInv, ManualType, Connections, ClientsFall, vars
<1>5. OrphansKept
  BY <1>1 DEF MInv, ManualType, CommandsIssued, OrphansKept
<1>6. IInv'
  BY <1>1, StepKeepsIInv DEF MInv
<1> QED BY <1>1, <1>2, <1>3, <1>4, <1>5, <1>6, SameCommandsKept, SessionStep

\* The broker's own steps leave the sessions alone.
LEMMA BrokerKeepsMInv == ASSUME MInv, CloseUnheld \/ BrokerSide PROVE MInv'
<1> USE ManualAssumption
<1>1. UNCHANGED <<client, commands, attempt, fileVars, allowed>>
  BY DEF CloseUnheld, BrokerSide
<1>2. IInv'
  <2>1. ManualNext
    BY DEF ManualNext
  <2> QED BY <2>1, ManualIsStore, StepKeepsIInv DEF MInv
<1>3. Quiet /\ (MemberStays \/ MemberSevered \/ MemberRelinked)
  BY BrokerQuiet DEF MInv, CloseUnheld, BrokerSide
<1>4. UNCHANGED messages
  BY DEF CloseUnheld, BrokerSide, Disconnect, BrokerRestart, LeaseLapse, Expire, Rejoin,
         Sever, mailVars
<1>5. \A w \in ClientRow : Dated(w) => Dated(w)'
  BY <1>3, DatedKept DEF MInv
<1>6. client' \in [Sessions -> ClientRow] /\ Connections' /\ ClientsFall
  BY <1>1, <1>5 DEF MInv, ManualType, Connections, ClientsFall
<1>7. OrphansKept
  BY <1>1 DEF MInv, ManualType, CommandsIssued, OrphansKept, CloseUnheld, BrokerSide
<1> QED
  BY <1>1, <1>2, <1>3, <1>4, <1>6, <1>7, SameCommandsKept, SameFilesKept, SessionStep

\* A session connects anew.
LEMMA OnlineKeepsMInv == ASSUME MInv, NEW s \in Sessions, Online(s) PROVE MInv'
<1> USE ManualAssumption
<1> PICK w : w = [participant |-> Worker, session |-> s, generation |-> Member'.generation]
  OBVIOUS
<1>1. /\ client' = [client EXCEPT ![s] = w] /\ Connect(Worker) /\ Member.session = s
      /\ UNCHANGED <<commands, orphans, attempt, fileVars, allowed>>
  BY DEF Online, Member
<1>2. IInv'
  <2>1. ManualNext
    BY DEF ManualNext
  <2> QED BY <2>1, ManualIsStore, StepKeepsIInv DEF MInv
<1>3. Quiet /\ (MemberStays \/ MemberSevered \/ MemberRelinked) /\ UNCHANGED messages
  BY <1>1, BrokerQuiet DEF MInv, Connect, Sever
<1>4. /\ Member'.generation = Member.generation + 1 /\ Member'.session = s
      /\ Member'.generation \in 1..MaxGeneration
  <2>1. Unlinked({Worker})[Worker] \in ParticipantRow /\ Member \in ParticipantRow
    BY UnlinkedTyped DEF MInv, IInv, TypeOK, Member
  <2>2. Unlinked({Worker})[Worker].session = Member.session
    BY UnlinkedRow DEF MInv, IInv, Member
  <2>3. Unlinked({Worker}) \in [Participants -> ParticipantRow]
    BY UnlinkedTyped DEF MInv, IInv
  <2> DEFINE g == Member.generation + 1
  <2>4. Member' = [Unlinked({Worker})[Worker] EXCEPT !.generation = g, !.link = "live"]
    BY <1>1, <2>3 DEF Connect, Member
  <2>5. g \in 1..MaxGeneration
    BY <1>1, <2>1, BoundsAssumption DEF Connect, Member, ParticipantRow
  <2> HIDE DEF g
  <2>6. Member'.generation = g /\ Member'.session = Member.session
    BY <2>1, <2>2, <2>4 DEF ParticipantRow
  <2> QED BY <1>1, <2>5, <2>6 DEF g
<1>5. NothingInFlight
  BY <1>1, SeverRowQuiet DEF MInv, Connect
<1>6. w \in ClientRow /\ w.session = s /\ w.generation # 0 /\ Dated(w)'
  <2>1. w.generation = Member'.generation /\ w.session = Member'.session
    BY <1>4
  <2>2. Member'.generation <= Member'.generation
    BY <1>4
  <2>3. Dated(w)'
    BY <2>1, <2>2 DEF Dated, Member
  <2> QED BY <1>4, <2>3, BoundsAssumption DEF ClientRow
<1>7. \A v \in ClientRow : Dated(v) => Dated(v)'
  BY <1>3, DatedKept DEF MInv
<1>8. client' \in [Sessions -> ClientRow] /\ client'[s] = w
      /\ \A r \in Sessions : r # s => client'[r] = client[r]
  BY <1>1, <1>6 DEF MInv, ManualType
<1>9. Connections'
  <2>1. Connections
    BY DEF MInv
  <2>2. \A v \in ClientRow : Dated(v) => Dated(v)'
    BY <1>7
  <2>3. client \in [Sessions -> ClientRow]
    BY DEF MInv, ManualType
  <2>4. ASSUME NEW r \in Sessions, client'[r] # Offline
        PROVE  client'[r].session = r /\ client'[r].generation # 0 /\ Dated(client[r])'
    <3>1. PICK v \in ClientRow : v = client'[r]
      BY <1>8
    <3>2. v.session = r /\ v.generation # 0 /\ Dated(v)'
      BY <1>6, <1>8, <2>1, <2>2, <2>3, <2>4, <3>1 DEF Connections
    <3> QED BY <3>1, <3>2 DEF Dated
  <2> QED BY <2>4 DEF Connections
<1>10. OrphansKept
  <2>1. ASSUME NEW cmd \in orphans PROVE client'[cmd.session] # cmd.by
    <3>1. Issued(cmd) /\ client[cmd.session] # cmd.by
      BY DEF MInv, CommandsIssued
    <3>2. /\ cmd.by.generation \in Nat /\ cmd.by.generation <= Member.generation
          /\ Member.generation \in Nat
      BY <3>1 DEF Issued, Dated, CommandRow, ClientRow, MInv, IInv, TypeOK, ParticipantRow, Member
    <3>3. w.generation # cmd.by.generation
      BY <1>4, <3>2
    <3> QED BY <1>8, <3>1, <3>3 DEF Issued
  <2> QED BY <1>1, <2>1 DEF MInv, ManualType, OrphansKept
<1> QED
  BY <1>1, <1>2, <1>3, <1>5, <1>8, <1>9, <1>10, SameCommandsKept, SameFilesKept, SessionStep

(***************************************************************************)
(* The theorems                                                            *)
(***************************************************************************)
\* The mailbox the deliveries start from is a state of the store.
LEMMA ManualInitIInv == ManualInit => IInv
<1> SUFFICES ASSUME ManualInit PROVE IInv
  OBVIOUS
<1> USE ManualAssumption, BoundsAssumption
<1>1. FirstSession \in Sessions
  BY DEF FirstSession
<1>2. /\ participants \in [Participants -> ParticipantRow]
      /\ \A p \in Participants : /\ participants[p].link = "none" /\ participants[p].joined
                                 /\ participants[p].session \in Sessions
  BY <1>1 DEF ManualInit, ParticipantRow
<1>3. /\ deliveries \in [MsgIds -> [Participants -> Delivery]]
      /\ \A m \in MsgIds, p \in Participants :
            /\ deliveries[m][p].state \in {"absent", "pending"}
            /\ deliveries[m][p].activation = 0
  <2>1. Absent.state = "absent" /\ Absent.activation = 0
    BY DEF Absent
  <2> DEFINE e == [Absent EXCEPT !.state = "pending"]
  <2>2. e \in Delivery /\ e.state = "pending" /\ e.activation = 0
    <3>1. e \in Delivery
      BY AbsentTyped, StateTyped DEF DeliveryStates, UndeliveredStates
    <3>2. e.state = "pending" /\ e.activation = 0
      BY DEF Absent
    <3> QED BY <3>1, <3>2
  <2>3. deliveries = [m \in MsgIds |-> [p \in Participants |->
                        IF p = Worker THEN e ELSE Absent]]
    BY DEF ManualInit
  <2> HIDE DEF e
  <2> QED BY <2>1, <2>2, <2>3, AbsentTyped
<1>4. messages \in Seq(Message) /\ Len(messages) = MaxMessages /\ DOMAIN messages = MsgIds
  <2> DEFINE msg == [sender |-> Asker, thread |-> CHOOSE t \in Threads : TRUE,
                     type |-> "status", human |-> FALSE, replyTo |-> 0,
                     key |-> CHOOSE k \in Keys : TRUE]
  <2>1. (CHOOSE t \in Threads : TRUE) \in Threads /\ (CHOOSE k \in Keys : TRUE) \in Keys
    OBVIOUS
  <2>2. msg \in Message
    BY <2>1 DEF Message, MessageTypes
  <2>3. messages = [m \in 1..MaxMessages |-> msg]
    BY DEF ManualInit, MsgIds
  <2> HIDE DEF msg
  <2> QED BY <2>2, <2>3 DEF MsgIds
<1>5. activations \in Seq(Activation) /\ Len(activations) = 0 /\ DOMAIN activations = {}
  BY DEF ManualInit
<1>6. TypeOK
  <2>1. /\ roomPaused = FALSE /\ actors = {} /\ aged = 0
        /\ threads \in [Threads -> {"absent", "open", "resolved"}]
    BY DEF ManualInit
  <2>2. aged \in 0..Len(activations)
    BY <1>5, <2>1
  <2>3. actors \subseteq WorkerActor
    BY <2>1
  <2>4. roomPaused \in BOOLEAN
    BY <2>1
  <2> QED BY <1>2, <1>3, <1>4, <1>5, <2>1, <2>2, <2>3, <2>4 DEF TypeOK
<1>7. Members /\ EmptyRows
  BY <1>2, <1>4 DEF Members, EmptyRows
<1>8. InFlightOwned /\ LiveActivationOwned /\ ClaimsHaveLiveActivation
  BY <1>3, <1>5 DEF InFlightOwned, LiveActivationOwned, ClaimsHaveLiveActivation, InFlight
<1> QED BY <1>6, <1>7, <1>8 DEF IInv

\* The invariant holds when the deliveries start.
LEMMA ManualInitMInv == ManualInit => MInv
<1> SUFFICES ASSUME ManualInit PROVE MInv
  OBVIOUS
<1> USE ManualAssumption, BoundsAssumption
<1>1. IInv
  BY ManualInitIInv
<1>2. Offline \in ClientRow /\ 0 \in Nat /\ 1 \in Int
  BY DEF Offline, ClientRow
<1>3. /\ client = [s \in Sessions |-> Offline]
      /\ commands = [c \in Commands |-> NoCommand] /\ orphans = {}
      /\ attempt = [m \in MsgIds |-> 0]
      /\ copies = [s \in Sessions |-> [m \in MsgIds |-> 0]] /\ onFile = copies
      /\ allowed = [m \in MsgIds |-> 1]
      /\ DOMAIN messages = MsgIds
  BY DEF ManualInit
<1>4. ManualType
  BY <1>2, <1>3, NoCommandTyped DEF ManualType
<1>5. Connections /\ FileGrows /\ CommandsIssued
  BY <1>3, NoCommandTyped DEF Connections, FileGrows, CommandsIssued, Working
<1>6. \A m \in MsgIds : Row(m).state = "pending"
  <2>1. [Absent EXCEPT !.state = "pending"].state = "pending"
    BY DEF Absent
  <2> QED BY <2>1 DEF ManualInit, Row
<1>7. RecordedOnFile /\ RecordedBySession /\ ClaimedByConnection /\ Watched
  BY <1>6 DEF RecordedOnFile, RecordedBySession, ClaimedByConnection, Watched, InFlight, Row
<1>8. WithinAllowance
  <2>1. \A m \in MsgIds : Holders(m) = {}
    BY <1>3, NoCommandTyped DEF Holders, Holds
  <2>2. \A m \in MsgIds : Cardinality(Holders(m)) = 0
    BY <2>1, FS_EmptySet
  <2> QED BY <1>3, <1>6, <2>2 DEF WithinAllowance, Pending
<1>9. \A c \in Commands : Working(c) => Answers(commands[c])
  BY <1>3, NoCommandTyped DEF Working
<1> QED BY <1>1, <1>4, <1>5, <1>7, <1>8, <1>9 DEF MInv

\* Every step of a manual delivery keeps the invariant.
LEMMA StepKeepsMInv == MInv /\ [ManualNext]_manualVars => MInv'
<1> SUFFICES ASSUME MInv, [ManualNext]_manualVars PROVE MInv'
  OBVIOUS
<1>1. CASE UNCHANGED manualVars
  <2>1. IInv'
    BY <1>1, StepKeepsIInv DEF MInv, manualVars
  <2>2. /\ UNCHANGED <<participants, deliveries, commands, client, attempt, orphans>>
        /\ UNCHANGED <<copies, onFile, allowed, messages>>
    BY <1>1 DEF manualVars, vars, fileVars
  <2>3. /\ ManualType' /\ Connections' /\ FileGrows'
        /\ RecordedOnFile' /\ RecordedBySession' /\ ClaimedByConnection'
    <3>1. ManualType' BY <2>2 DEF MInv, ManualType
    <3>2. Connections' BY <2>2 DEF MInv, Connections, Dated, Member
    <3>3. FileGrows' BY <2>2 DEF MInv, FileGrows
    <3>4. RecordedOnFile' BY <2>2 DEF MInv, RecordedOnFile
    <3>5. RecordedBySession' /\ ClaimedByConnection'
      BY <2>2 DEF MInv, RecordedBySession, ClaimedByConnection, Row, Member
    <3> QED BY <3>1, <3>2, <3>3, <3>4, <3>5
  <2>4. CommandsIssued'
    <3>1. CommandsIssued BY DEF MInv
    <3>2. \A cmd : Issued(cmd) => Issued(cmd)'
      BY <2>2 DEF Issued, Dated, Member
    <3> QED BY <2>2, <3>1, <3>2 DEF CommandsIssued, Working
  <2>5. WithinAllowance'
    <3>1. WithinAllowance BY DEF MInv
    <3>2. \A m \in MsgIds : Holders(m)' = Holders(m) /\ Pending(m)' = Pending(m)
      BY <2>2 DEF Holders, Holds, Pending, Row
    <3>3. ASSUME NEW m \in MsgIds PROVE Cardinality(Holders(m)') = Cardinality(Holders(m))
      BY <3>2
    <3> QED BY <2>2, <3>1, <3>2, <3>3 DEF WithinAllowance
  <2>6. (\A c \in Commands : Working(c) => Answers(commands[c]))'
    <3>1. \A c \in Commands : Working(c) => Answers(commands[c]) BY DEF MInv
    <3> QED BY <2>2, <3>1 DEF Working, Answers, OutOfReach, Member, Row
  <2>7. Watched'
    <3>1. Watched BY DEF MInv
    <3>2. \A m : Row(m)' = Row(m) BY <2>2 DEF Row
    <3>3. \A g : OutOfReach(g) => OutOfReach(g)' BY <2>2 DEF OutOfReach, Member
    <3>4. \A m : \A c \in Commands : Watches(commands[c], m) => Watches(commands[c], m)'
      BY <2>2, <3>2 DEF Watches
    <3> QED BY <3>1, <3>2, <3>3, <3>4 DEF Watched
  <2> QED BY <2>1, <2>3, <2>4, <2>5, <2>6, <2>7 DEF MInv
<1>2. ASSUME NEW c \in Commands, CommandSteps(c) PROVE MInv'
  BY <1>2, DeliveryStepsKeepMInv, InsertKeepsMInv DEF CommandSteps
<1>3. ASSUME NEW s \in Sessions,
             Online(s) \/ Drop(s) \/ Reload(s) \/ Crash(s) \/ Flush(s)
      PROVE  MInv'
  BY <1>3, OnlineKeepsMInv, LossKeepsMInv, FlushKeepsMInv
<1> QED
  BY <1>1, <1>2, <1>3, ServeKeepsMInv, DeliverKeepsMInv, RecoverKeepsMInv,
     ConfirmedKeepsMInv, ServeOrphanKeepsMInv, BrokerKeepsMInv DEF ManualNext

\* The invariant of delivery by hand holds in every reachable state.
THEOREM ManualInvariance == ManualSpec => []MInv
BY ManualInitMInv, StepKeepsMInv, PTL DEF ManualSpec

\* Delivery by hand only ever does what the store's operations do, from a state
\* that meets the store's own invariant (delivery.ts against store.ts).
THEOREM DeliveryUsesStore == ManualSpec => IInv /\ [][Next]_vars
<1>1. MInv /\ [ManualNext]_manualVars => [Next]_vars
  BY ManualIsStore
<1> QED BY <1>1, ManualInitIInv, ManualInvariance, PTL DEF ManualSpec

\* What the broker counts as recorded is in the file of the session its row
\* names (delivery.ts: the receipt is sent on persistedEntry only).
THEOREM RecordingsAreOnFile == ManualSpec => []RecordedOnFile
<1>1. MInv => RecordedOnFile
  BY DEF MInv
<1> QED BY <1>1, ManualInvariance, PTL

\* No message enters a session again without a human's retry (store.ts: claim
\* takes pending rows only; delivery.ts: one insertion per granted claim).
THEOREM NoRepeatWithoutHuman == ManualSpec => []NoSilentRepeat
<1>1. MInv => NoSilentRepeat
  <2> SUFFICES ASSUME MInv, NEW m \in MsgIds PROVE allowed[m] >= 0
    BY DEF NoSilentRepeat
  <2>1. IsFiniteSet(Holders(m))
    BY ManualAssumption, FS_Subset DEF Holders
  <2>2. Cardinality(Holders(m)) \in Nat /\ Pending(m) \in Nat
    BY <2>1, FS_CardinalityType DEF Pending
  <2> QED BY <2>2 DEF MInv, WithinAllowance, ManualType
<1> QED BY <1>1, ManualInvariance, PTL

\* No attempt is left claimed or queued with nobody to end it (the comment of
\* deliverOne's catch in delivery.ts).
THEOREM AttemptsAreWatched == ManualSpec => []AttemptIsWatched
<1>1. MInv => AttemptIsWatched
  BY DEF MInv, Watched, AttemptIsWatched, OutOfReach, Watches, Row, Member
<1> QED BY <1>1, ManualInvariance, PTL

(***************************************************************************)
(* What the store promises of its steps holds of delivery by hand: the     *)
(* mailbox it starts with meets the store's invariants.                    *)
(***************************************************************************)
\* No run was ever reserved, and nothing was asked or answered.
LEMMA ManualStartsSound == ManualInit => EInv /\ RInv
<1> SUFFICES ASSUME ManualInit PROVE EInv /\ RInv
  OBVIOUS
<1>1. IInv
  BY ManualInitIInv
<1>2. activations = <<>>
  BY DEF ManualInit
<1>3. \A m \in MsgIds, p \in Participants :
        /\ deliveries[m][p].activation = 0 /\ deliveries[m][p].obligation = "none"
        /\ ~deliveries[m][p].wake
  <2> SUFFICES ASSUME NEW m \in MsgIds, NEW p \in Participants
               PROVE  /\ deliveries[m][p].activation = 0
                      /\ deliveries[m][p].obligation = "none" /\ ~deliveries[m][p].wake
    OBVIOUS
  <2>1. deliveries[m][p] = IF p = Worker THEN [Absent EXCEPT !.state = "pending"] ELSE Absent
    BY DEF ManualInit
  <2> QED BY <2>1 DEF Absent
<1>4. /\ \A m \in DOMAIN messages : messages[m].replyTo = 0 /\ messages[m].type = "status"
      /\ DOMAIN messages = MsgIds
  <2> DEFINE msg == [sender |-> Asker, thread |-> CHOOSE t \in Threads : TRUE,
                     type |-> "status", human |-> FALSE, replyTo |-> 0,
                     key |-> CHOOSE k \in Keys : TRUE]
  <2>1. msg.replyTo = 0 /\ msg.type = "status"
    OBVIOUS
  <2>2. messages = [m \in MsgIds |-> msg]
    BY DEF ManualInit
  <2> HIDE DEF msg
  <2> QED BY <2>1, <2>2
<1>5. EInv
  BY <1>1, <1>2, <1>3 DEF EInv, RowsOfRuns, SettledIsProven
<1>6. AbsentRows
  BY <1>3 DEF AbsentRows
<1>7. RefersBack
  BY <1>4 DEF RefersBack, MsgIds
<1>8. AnswersShown /\ RepliesClose
  BY <1>3, <1>4 DEF AnswersShown, RepliesClose
<1>9. RepliesDoNotPingPong
  <2> SUFFICES ASSUME NEW q \in DOMAIN messages
               PROVE  Cardinality(WakingReplies(q)) <= Cardinality(Answerers(q))
    BY DEF RepliesDoNotPingPong, Answerers
  <2>1. WakingReplies(q) = {} /\ Answerers(q) = {}
    BY <1>3, <1>4 DEF WakingReplies, Answerers
  <2> QED BY <2>1, FS_EmptySet
<1> QED BY <1>1, <1>5, <1>6, <1>7, <1>8, <1>9 DEF RInv

\* However commands of two sessions interleave, are cut off or lose answers: what is
\* recorded is never offered again and uncertain work only by a human retry, a
\* recording needs the session of the attempt, obsolete work stays out, and no
\* claim outlives its connection (delivery.ts against store.ts).
THEOREM ManualKeepsStoreSteps ==
    ManualSpec => /\ NoSilentReplay /\ EvidenceFromAttemptSession
                  /\ ObsoletePendingOnlyByRetry /\ []InFlightOwned
<1>1. ManualInit => EInv /\ RInv
  BY ManualStartsSound
<1>2. EInv /\ [Next]_vars => EInv'
  BY StepKeepsEvidence
<1>3. RInv /\ [Next]_vars => RInv'
  BY StepKeepsReplies
<1>4. ManualSpec => []EInv /\ []RInv /\ [][Next]_vars
  BY <1>1, <1>2, <1>3, DeliveryUsesStore, PTL DEF ManualSpec
<1>5. EInv => InFlightOwned
  BY DEF EInv, IInv
<1> QED BY <1>4, <1>5, StepsReplayNothing, StepsRecordBySession, StepsKeepObsoleteOut, PTL

===============================================================================
