--------------------------- MODULE ManualDelivery ---------------------------
(***************************************************************************)
(* /team deliver, reconcile and retry (deliverOne and reconcileDelivery of *)
(* src/coordination/delivery.ts, under CoordinationRuntime.withDelivery)   *)
(* for one member whose mailbox may be reached from several Pi sessions,   *)
(* against the broker's store.  The code between two awaits is one action; *)
(* a call is sent, served by the broker as an action of TeamStore, and     *)
(* answered.  A reload leaves the old command running with a stale epoch,  *)
(* so two commands can work on one session file.                           *)
(*                                                                         *)
(* Abstractions.  Whether a session is idle and has heard of a pause is a  *)
(* free choice at every check.  An attempt id is a number that every claim *)
(* increases.                                                              *)
(* The status read of a recovery and the file it then reads are one step.  *)
(***************************************************************************)
EXTENDS TeamStore, Integers

CONSTANTS
    Worker,    \* the member whose mailbox is delivered by hand
    Asker,     \* the member that sent the messages
    Commands,  \* bound: commands that run at the same time
    MaxCopies  \* bound: insertions into one session, and claims of a message

ASSUME ManualAssumption ==
    /\ Worker \in Participants /\ Asker \in Participants
    /\ Sessions # {} /\ Threads # {} /\ Keys # {}
    /\ IsFiniteSet(Commands) /\ MaxCopies \in Nat

VARIABLES
    client,    \* session -> the connection its runtime holds, or Offline
    commands,  \* the running commands
    orphans,   \* calls given up by a session that the broker may yet serve
    attempt,   \* message -> the attempt_id of its row
    copies,    \* session -> message -> entries inserted into the session
    onFile,    \* session -> message -> entries its session file holds
    allowed    \* history: message -> insertions the human has asked for, less
               \* those made: one delivery, and one more for each retry

fileVars == <<copies, onFile>>
manualVars == <<vars, client, commands, orphans, attempt, fileVars, allowed>>

Offline == [participant |-> Worker, session |-> NoSession, generation |-> 0]
NoCommand == [at |-> "none", session |-> NoSession, stale |-> FALSE, by |-> Offline,
              message |-> 0, attempt |-> 0, reply |-> "none"]
Calling == {"claim", "queue", "receipt", "uncertain", "reconcile"}

\* withDelivery: one command at a time in the runtime of session s.
DeliveryBusy(s) ==
    \E c \in Commands : commands[c].session = s /\ ~commands[c].stale

\* adapter.isReady; any connection of the runtime will do, and the session may
\* be working or paused at any check.
MayBeReady(cmd) == ~cmd.stale /\ client[cmd.session] # Offline

(***************************************************************************)
(* Calls                                                                   *)
(***************************************************************************)
At(c, cmd) == commands' = [commands EXCEPT ![c] = cmd]

\* A call on a connection that the session has closed fails at once.
Calls(cmd, op) ==
    [cmd EXCEPT !.at = op,
        !.reply = IF client[cmd.session] = cmd.by THEN "none" ELSE "error"]

\* What the broker does with a call, and what it answers.  A row that is
\* already recorded accepts every report and keeps its state.
Handled(cmd, op, reply) ==
    LET w == cmd.by
        m == cmd.message
        row == deliveries[m][Worker]
        own == /\ Authorized(w) /\ row.session = w.session /\ cmd.attempt = attempt[m]
               /\ (op = "reconcile" \/ row.generation = w.generation)
        open == InFlight(row) \/ (row.state = "uncertain" /\ op # "queue") IN
    IF op = "claim"
    THEN \/ /\ Claim(w, m) /\ reply = "ok" /\ attempt[m] < MaxCopies
            /\ attempt' = [attempt EXCEPT ![m] = @ + 1]
         \/ /\ ~(Authorized(w) /\ ~PausedFor(Worker) /\ row.state = "pending"
                 /\ row.obligation \in ActiveObligations /\ ThreadOpen(m))
            /\ reply = "error" /\ UNCHANGED <<vars, attempt>>
    ELSE /\ UNCHANGED attempt
         /\ \/ /\ own /\ open /\ reply = "ok"
               /\ \/ op = "queue" /\ Queue(w, m)
                  \/ op = "receipt" /\ Receipt(w, m)
                  \/ op = "uncertain" /\ Uncertain(w, m)
                  \/ op = "reconcile" /\ Reconcile(w, m)
            \/ /\ ~(own /\ open) /\ UNCHANGED vars
               /\ reply = IF own /\ row.state = "recorded" THEN "ok" ELSE "error"

Serve(c) ==
    LET cmd == commands[c] IN
    /\ cmd.at \in Calling /\ cmd.reply = "none" /\ cmd.by \in actors
    /\ \E reply \in {"ok", "error"} :
        /\ Handled(cmd, cmd.at, reply)
        /\ At(c, [cmd EXCEPT !.reply = reply,
                    !.attempt = IF cmd.at = "claim" THEN attempt'[cmd.message] ELSE @])
    /\ UNCHANGED <<client, orphans, fileVars, allowed>>

ServeOrphan ==
    /\ \E cmd \in orphans :
        /\ orphans' = orphans \ {cmd} /\ cmd.by \in actors
        /\ \E reply \in {"ok", "error"} : Handled(cmd, cmd.at, reply)
    /\ UNCHANGED <<client, commands, fileVars, allowed>>

(***************************************************************************)
(* deliverOne                                                              *)
(***************************************************************************)
deliverKeeps == <<vars, client, orphans, attempt, allowed>>

Deliver(c, s, m) ==
    LET cmd == [NoCommand EXCEPT !.session = s, !.by = client[s], !.message = m] IN
    /\ commands[c] = NoCommand /\ ~DeliveryBusy(s) /\ MayBeReady(cmd)
    /\ At(c, Calls(cmd, "claim"))
    /\ UNCHANGED <<deliverKeeps, fileVars>>

\* claim answered: the catch covers only what follows it.
Claimed(c) ==
    LET cmd == commands[c] IN
    /\ cmd.at = "claim" /\ cmd.reply # "none"
    /\ \/ cmd.reply = "error" /\ At(c, NoCommand)
       \/ cmd.reply = "ok" /\ MayBeReady(cmd) /\ At(c, Calls(cmd, "queue"))
       \/ cmd.reply = "ok" /\ At(c, Calls(cmd, "uncertain"))
    /\ UNCHANGED <<deliverKeeps, fileVars>>

Queued(c) ==
    LET cmd == commands[c] IN
    /\ cmd.at = "queue" /\ cmd.reply # "none"
    /\ At(c, IF cmd.reply = "error" THEN Calls(cmd, "uncertain")
             ELSE [cmd EXCEPT !.at = "reading"])
    /\ UNCHANGED <<deliverKeeps, fileVars>>

\* persistedEntry: the file of this very session holds the message.
EvidenceOf(cmd) == onFile[cmd.session][cmd.message] > 0

EvidenceRead(c) ==
    LET cmd == commands[c] IN
    /\ cmd.at = "reading"
    /\ At(c, IF EvidenceOf(cmd) THEN Calls(cmd, "receipt")
             ELSE [cmd EXCEPT !.at = "inserting"])
    /\ UNCHANGED <<deliverKeeps, fileVars>>

\* The last check and the insertion are one synchronous step.
Insert(c) ==
    LET cmd == commands[c] IN
    /\ cmd.at = "inserting"
    /\ \/ /\ MayBeReady(cmd) /\ copies[cmd.session][cmd.message] < MaxCopies
          /\ copies' = [copies EXCEPT ![cmd.session][cmd.message] = @ + 1]
          /\ allowed' = [allowed EXCEPT ![cmd.message] = @ - 1]
          /\ At(c, [cmd EXCEPT !.at = "proving"])
       \/ At(c, Calls(cmd, "uncertain")) /\ UNCHANGED <<copies, allowed>>
    /\ UNCHANGED <<vars, client, orphans, attempt, onFile>>

\* Mutant: the insertion itself is taken for its proof.
ProvenByInsertion(c) ==
    LET cmd == commands[c] IN
    /\ cmd.at = "proving"
    /\ At(c, Calls(cmd, "receipt"))
    /\ UNCHANGED <<deliverKeeps, fileVars>>

Proven(c) ==
    LET cmd == commands[c] IN
    /\ cmd.at = "proving"
    /\ At(c, Calls(cmd, IF EvidenceOf(cmd) THEN "receipt" ELSE "uncertain"))
    /\ UNCHANGED <<deliverKeeps, fileVars>>

\* A failed receipt reports uncertainty; that report's own failure is ignored.
Ends(c) ==
    LET cmd == commands[c] IN
    /\ cmd.at \in {"receipt", "uncertain", "reconcile"} /\ cmd.reply # "none"
    /\ At(c, IF cmd.at = "receipt" /\ cmd.reply = "error"
             THEN Calls(cmd, "uncertain") ELSE NoCommand)
    /\ UNCHANGED <<deliverKeeps, fileVars>>

(***************************************************************************)
(* reconcileDelivery and retry                                             *)
(***************************************************************************)
Recover(c, s, m) ==
    LET row == deliveries[m][Worker]
        cmd == [NoCommand EXCEPT !.session = s, !.by = client[s], !.message = m,
                                 !.attempt = attempt[m]]
        proven == row.session = s /\ row.state \in InFlightStates \cup {"uncertain"}
                  /\ EvidenceOf(cmd) IN
    /\ commands[c] = NoCommand /\ ~DeliveryBusy(s)
    /\ client[s] # Offline /\ Authorized(client[s])
    /\ At(c, IF proven THEN Calls(cmd, "reconcile") ELSE [cmd EXCEPT !.at = "confirming"])
    /\ UNCHANGED <<deliverKeeps, fileVars>>

\* The human confirms the retry of what may have happened, or does not; a
\* dialog of an earlier epoch sends nothing.
Confirmed(c, yes) ==
    LET cmd == commands[c] IN
    /\ cmd.at = "confirming"
    /\ At(c, NoCommand)
    /\ IF yes /\ ~cmd.stale /\ deliveries[cmd.message][Worker].state = "uncertain"
       THEN /\ Retry(cmd.message, Worker)
            /\ allowed' = [allowed EXCEPT ![cmd.message] = @ + 1]
       ELSE UNCHANGED <<vars, allowed>>
    /\ UNCHANGED <<client, orphans, attempt, fileVars>>

(***************************************************************************)
(* The session, its connection and its file                                *)
(***************************************************************************)
\* Session s closes its connection: the calls on it fail, and the broker may
\* still have them in its buffer.
CutOff(s) ==
    [c \in Commands |->
        IF commands[c].by = client[s] /\ commands[c].at \in Calling
           /\ commands[c].reply = "none"
        THEN [commands[c] EXCEPT !.reply = "error"] ELSE commands[c]]
CallsOn(s) ==
    {commands[c] : c \in {d \in Commands :
        commands[d].by = client[s] /\ commands[d].at \in Calling /\ commands[d].reply = "none"}}

Online(s) ==
    /\ client[s] = Offline /\ participants[Worker].session = s
    /\ Connect(Worker)
    /\ client' = [client EXCEPT ![s] = [participant |-> Worker, session |-> s,
                                        generation |-> participants'[Worker].generation]]
    /\ UNCHANGED <<commands, orphans, attempt, fileVars, allowed>>

\* Mutant: the socket of a call that timed out stays open.
TimesOutOnly(s) ==
    /\ client[s] # Offline /\ CallsOn(s) # {}
    /\ commands' = CutOff(s) /\ orphans' = orphans \cup CallsOn(s)
    /\ UNCHANGED <<vars, client, attempt, fileVars, allowed>>

\* A call times out, and its socket is destroyed; or the socket just closes.
Drop(s) ==
    /\ client[s] # Offline
    /\ commands' = CutOff(s) /\ orphans' = orphans \cup CallsOn(s)
    /\ client' = [client EXCEPT ![s] = Offline]
    /\ UNCHANGED <<vars, attempt, fileVars, allowed>>

\* The runtime is shut down and a new one loaded; the process goes on.
Reload(s) ==
    /\ client' = [client EXCEPT ![s] = Offline]
    /\ orphans' = orphans \cup CallsOn(s)
    /\ commands' = [c \in Commands |->
            IF commands[c].session = s THEN [CutOff(s)[c] EXCEPT !.stale = TRUE]
            ELSE commands[c]]
    /\ UNCHANGED <<vars, attempt, fileVars, allowed>>

\* The process of session s dies; what its file does not hold is gone.
Crash(s) ==
    /\ client' = [client EXCEPT ![s] = Offline]
    /\ orphans' = orphans \cup CallsOn(s)
    /\ commands' = [c \in Commands |->
            IF commands[c].session = s THEN NoCommand ELSE commands[c]]
    /\ copies' = [copies EXCEPT ![s] = onFile[s]]
    /\ UNCHANGED <<vars, attempt, onFile, allowed>>

Flush(s) ==
    /\ onFile[s] # copies[s] /\ onFile' = [onFile EXCEPT ![s] = copies[s]]
    /\ UNCHANGED <<vars, client, commands, orphans, attempt, copies, allowed>>

\* The broker's own steps.  A socket of a connection nobody holds closes.
Unheld(w) == \A s \in Sessions : client[s] # w
CloseUnheld ==
    /\ \E w \in actors : /\ Unheld(w) /\ w.participant = Worker /\ Disconnect(w)
                         /\ orphans' = {cmd \in orphans : cmd.by # w}
    /\ UNCHANGED <<client, commands, attempt, fileVars, allowed>>
BrokerSide ==
    /\ \/ BrokerRestart /\ orphans' = {}
       \/ LeaseLapse(Worker) /\ UNCHANGED orphans
       \/ Expire /\ UNCHANGED orphans
       \/ \E s \in Sessions : Rejoin(Worker, s) /\ UNCHANGED orphans
    /\ UNCHANGED <<client, commands, attempt, fileVars, allowed>>

(***************************************************************************)
(* Specification.  The worker's mailbox is full, it is about to connect.   *)
(***************************************************************************)
FirstSession == CHOOSE s \in Sessions : TRUE
ManualInit ==
    /\ participants = [p \in Participants |->
            [joined |-> TRUE, paused |-> FALSE,
             session |-> FirstSession, generation |-> 0, link |-> "none"]]
    /\ roomPaused = FALSE /\ actors = {}
    /\ threads = [t \in Threads |-> "open"]
    /\ messages = [m \in MsgIds |->
            [sender |-> Asker, thread |-> CHOOSE t \in Threads : TRUE,
             type |-> "status", human |-> FALSE, replyTo |-> 0,
             key |-> CHOOSE k \in Keys : TRUE]]
    /\ deliveries = [m \in MsgIds |-> [p \in Participants |->
            IF p = Worker THEN [Absent EXCEPT !.state = "pending"] ELSE Absent]]
    /\ activations = <<>> /\ aged = 0
    /\ client = [s \in Sessions |-> Offline] 
    /\ commands = [c \in Commands |-> NoCommand] /\ orphans = {}
    /\ attempt = [m \in MsgIds |-> 0]
    /\ copies = [s \in Sessions |-> [m \in MsgIds |-> 0]] /\ onFile = copies
    /\ allowed = [m \in MsgIds |-> 1]

CommandSteps(c) ==
    Claimed(c) \/ Queued(c) \/ EvidenceRead(c) \/ Insert(c) \/ Proven(c) \/ Ends(c)

ManualNext ==
    \/ \E c \in Commands :
        \/ CommandSteps(c) \/ Serve(c)
        \/ \E s \in Sessions, m \in MsgIds : Deliver(c, s, m) \/ Recover(c, s, m)
        \/ \E yes \in BOOLEAN : Confirmed(c, yes)
    \/ \E s \in Sessions :
        Online(s) \/ Drop(s) \/ Reload(s) \/ Crash(s) \/ Flush(s)
    \/ ServeOrphan \/ CloseUnheld \/ BrokerSide

ManualSpec == ManualInit /\ [][ManualNext]_manualVars

(***************************************************************************)
(* Properties                                                              *)
(***************************************************************************)
\* The broker counts a message as recorded only if the file of the very session
\* its row names holds an entry of it, whoever crashed, was reloaded, lost an
\* answer or took the mailbox over between the insertion and the receipt.
RecordedOnFile ==
    \A m \in MsgIds :
        LET row == deliveries[m][Worker] IN
        row.state = "recorded" => onFile[row.session][m] > 0

\* No message enters a session again without a human's retry, in this session
\* or in any other that has held the mailbox.
NoSilentRepeat == \A m \in MsgIds : allowed[m] >= 0

\* No attempt is left claimed or queued with nobody to end it: a command still
\* works on it, or the loss of its connection, which turns it uncertain, is
\* only a matter of time (what the comment of deliverOne's catch relies on).
AttemptIsWatched ==
    \A m \in MsgIds :
        LET row == deliveries[m][Worker] IN
        InFlight(row) =>
            \/ participants[Worker].link = "lapsed"
            \/ \A s \in Sessions : client[s].generation # row.generation
            \/ \E c \in Commands :
                 /\ commands[c].message = m
                 /\ commands[c].by.generation = row.generation
                 /\ commands[c].attempt = attempt[m]

=============================================================================
