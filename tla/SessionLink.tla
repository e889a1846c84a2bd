----------------------------- MODULE SessionLink -----------------------------
(***************************************************************************)
(* What a session's runtime holds of its team: enrolment, connection and   *)
(* epoch (CoordinationRuntime, src/extensions/coordination/runtime.ts,     *)
(* with the connection of client.ts and the confirmed commands of          *)
(* commands.ts).  Connects, refreshes, joins, restores and dialogs await   *)
(* while the session is reloaded, switched, left or shut down; the code    *)
(* between two awaits is one action.                                       *)
(*                                                                         *)
(* Abstractions.  An enrolment is a number, a connection another.  Back-off*)
(* only delays the next connect.  A connection has one heartbeat of the    *)
(* timer on its way: it is answered or times out before the next tick.     *)
(***************************************************************************)
EXTENDS Naturals, Sequences

CONSTANTS
    Homes,           \* Pi sessions the runtime can be started for
    NoHome,
    Connectors,      \* bound: runs of connectWorker at one time
    Refreshers,      \* bound: runs of refresh at one time
    MaxEpoch,        \* bound: clearEnrollment and shutdown
    MaxEnrolments,   \* bound: enrolments ever granted
    MaxConnections   \* bound: connections ever opened

ASSUME LinkAssumption ==
    /\ NoHome \notin Homes
    /\ MaxEpoch \in Nat /\ MaxEnrolments \in Nat /\ MaxConnections \in Nat

VARIABLES
    home,         \* the session of ctx
    epoch,
    credential,   \* the enrolment the runtime has, 0 for none
    homeOf,       \* the sessions of the enrolments, in the order granted
    client,       \* the connection the runtime holds, 0 for none
    connecting, refreshing, ticking,
    aborted,      \* the signal of transportAbort, which every socket is given
    connections,  \* enrolment, epoch, socket and heartbeat of every one opened
    connectors,   \* the runs of connectWorker
    refreshers,   \* the runs of refresh
    joining,      \* the join and the restore that await the broker
    leaving       \* the /team leave that awaits

flowVars == <<connectors, refreshers, joining, leaving>>
linkVars == <<home, epoch, credential, homeOf, client, connecting, refreshing,
              ticking, aborted, connections, flowVars>>

NoConnector == [at |-> "none", epoch |-> 0, credential |-> 0, connection |-> 0]
NoRefresher == [epoch |-> 0, connection |-> 0]
NoJoin == [epoch |-> 0, home |-> NoHome]
NoLeave == [at |-> "none", epoch |-> 0, connection |-> 0]

Asks == {"join", "restore"}

(***************************************************************************)
(* connectWorker                                                           *)
(***************************************************************************)
CanConnect == credential # 0 /\ client = 0 /\ ~connecting

\* Runs have no identity: which free one is taken does not matter.
FreeConnectors == {k \in Connectors : connectors[k] = NoConnector}

\* The timer, a join and a restore start it.
StartConnect ==
    /\ ticking /\ CanConnect /\ connecting' = TRUE
    /\ FreeConnectors # {}
    /\ connectors' = [connectors EXCEPT ![CHOOSE k \in FreeConnectors : TRUE] =
            [NoConnector EXCEPT !.at = "ensuring", !.epoch = epoch,
                                !.credential = credential]]
    /\ UNCHANGED <<home, epoch, credential, homeOf, client, refreshing, ticking,
                   aborted, connections, refreshers, joining, leaving>>

IsCurrent(k) == k.epoch = epoch /\ k.credential = credential

\* A run that ends clears the flag of its own epoch only.
ConnectorEnds(i) ==
    /\ connectors' = [connectors EXCEPT ![i] = NoConnector]
    /\ connecting' = IF connectors[i].epoch = epoch THEN FALSE ELSE connecting

Ensured(i) ==
    LET k == connectors[i] IN
    /\ k.at = "ensuring"
    /\ IF IsCurrent(k)
       THEN /\ connectors' = [connectors EXCEPT ![i].at = "opening"]
            /\ UNCHANGED connecting
       ELSE ConnectorEnds(i)
    /\ UNCHANGED <<home, epoch, credential, homeOf, client, refreshing, ticking,
                   aborted, connections, refreshers, joining, leaving>>

\* The socket opens and the broker takes the hello, unless the signal the
\* socket was given has been aborted.
Opens(i) ==
    /\ connectors[i].at = "opening" /\ connectors[i].epoch = epoch /\ ~aborted
    /\ Len(connections) < MaxConnections
    /\ connections' = Append(connections,
            [enrolment |-> connectors[i].credential, epoch |-> connectors[i].epoch,
             open |-> TRUE, beat |-> FALSE])
    /\ connectors' = [connectors EXCEPT ![i].at = "opened",
                                        ![i].connection = Len(connections')]
    /\ UNCHANGED <<home, epoch, credential, homeOf, client, connecting, refreshing,
                   ticking, aborted, refreshers, joining, leaving>>

Closes(C) ==
    connections' = [c \in DOMAIN connections |->
        IF c \in C THEN [connections[c] EXCEPT !.open = FALSE] ELSE connections[c]]

\* Mutant: the enrolment is not looked at again once the socket is open.
HoldUnchecked(i) ==
    LET k == connectors[i] IN
    /\ k.at = "opened"
    /\ IF k.epoch = epoch
       THEN /\ client' = k.connection
            /\ connectors' = [connectors EXCEPT ![i].at = "greeting"]
            /\ UNCHANGED <<connecting, connections>>
       ELSE ConnectorEnds(i) /\ Closes({k.connection}) /\ UNCHANGED client
    /\ UNCHANGED <<home, epoch, credential, homeOf, refreshing, ticking, aborted,
                   refreshers, joining, leaving>>

Hold(i) ==
    LET k == connectors[i] IN
    /\ k.at = "opened"
    /\ IF IsCurrent(k)
       THEN /\ client' = k.connection
            /\ connectors' = [connectors EXCEPT ![i].at = "greeting"]
            /\ UNCHANGED <<connecting, connections>>
       ELSE ConnectorEnds(i) /\ Closes({k.connection}) /\ UNCHANGED client
    /\ UNCHANGED <<home, epoch, credential, homeOf, refreshing, ticking, aborted,
                   refreshers, joining, leaving>>

\* The heartbeat and the first refresh were answered, or the refresh failed
\* and dropped the client itself.
Greeted(i) ==
    /\ connectors[i].at = "greeting" /\ ConnectorEnds(i)
    /\ UNCHANGED <<home, epoch, credential, homeOf, client, refreshing, ticking,
                   aborted, connections, refreshers, joining, leaving>>

ConnectFails(i) ==
    /\ connectors[i].at \in {"ensuring", "opening", "greeting"}
    /\ ConnectorEnds(i)
    /\ IF connectors[i].epoch = epoch
       THEN client' = 0 /\ Closes({client}) ELSE UNCHANGED <<client, connections>>
    /\ UNCHANGED <<home, epoch, credential, homeOf, refreshing, ticking, aborted,
                   refreshers, joining, leaving>>

(***************************************************************************)
(* refresh, the heartbeat and the loss of the connection                   *)
(***************************************************************************)
StartRefresh ==
    /\ client # 0 /\ credential # 0 /\ ~refreshing /\ refreshing' = TRUE
    /\ \E i \in Refreshers :
        /\ refreshers[i] = NoRefresher
        /\ refreshers' = [refreshers EXCEPT ![i] = [epoch |-> epoch, connection |-> client]]
    /\ UNCHANGED <<home, epoch, credential, homeOf, client, connecting, ticking,
                   aborted, connections, connectors, joining, leaving>>

\* A status of the connection that is still held is taken; a failure of it
\* drops it; one of another connection or epoch changes nothing.  No request
\* is answered on a socket that has closed.
RefreshEnds(i, fails) ==
    LET r == refreshers[i]
        own == r.epoch = epoch /\ r.connection = client IN
    /\ r # NoRefresher /\ (fails \/ connections[r.connection].open)
    /\ refreshers' = [refreshers EXCEPT ![i] = NoRefresher]
    /\ refreshing' = IF r.epoch = epoch THEN FALSE ELSE refreshing
    /\ IF fails /\ own THEN client' = 0 /\ Closes({client})
       ELSE UNCHANGED <<client, connections>>
    /\ UNCHANGED <<home, epoch, credential, homeOf, connecting, ticking, aborted,
                   connectors, joining, leaving>>

\* The timer sends the held connection a heartbeat, whatever its epoch.
Beat ==
    /\ ticking /\ client # 0 /\ ~connections[client].beat
    /\ connections' = [connections EXCEPT ![client].beat = TRUE]
    /\ UNCHANGED <<home, epoch, credential, homeOf, client, connecting, refreshing,
                   ticking, aborted, flowVars>>

\* One that fails drops its connection if that is still the one held.
BeatEnds(c, fails) ==
    /\ connections[c].beat /\ (fails \/ connections[c].open)
    /\ connections' = [connections EXCEPT ![c].beat = FALSE,
            ![c].open = @ /\ ~(fails /\ client = c)]
    /\ client' = IF fails /\ client = c THEN 0 ELSE client
    /\ UNCHANGED <<home, epoch, credential, homeOf, connecting, refreshing, ticking,
                   aborted, flowVars>>

\* A socket closes at the other end, or a request on it timed out; a connect
\* that has just opened it goes on before that is seen.
SocketCloses(c) ==
    /\ connections[c].open /\ Closes({c})
    /\ \A i \in Connectors :
        connectors[i].at = "opened" => connectors[i].connection # c
    /\ client' = IF client = c /\ connections[c].epoch = epoch THEN 0 ELSE client
    /\ UNCHANGED <<home, epoch, credential, homeOf, connecting, refreshing, ticking,
                   aborted, flowVars>>

(***************************************************************************)
(* Enrolment                                                               *)
(***************************************************************************)
\* clearEnrollment and shutdown both abort the signal, which destroys every
\* socket of this epoch; those of the epochs before are closed already.
EndsEpoch ==
    /\ epoch < MaxEpoch /\ epoch' = epoch + 1
    /\ Closes(DOMAIN connections)
    /\ credential' = 0
    /\ connecting' = FALSE /\ refreshing' = FALSE /\ ticking' = FALSE

\* clearEnrollment makes a new signal; it leaves alone the client, whose close
\* handler finds that the epoch is over and leaves it alone too.
ClearEnrolment == EndsEpoch /\ aborted' = FALSE

\* /team join: confirmed, the broker ensured, and the enrolment asked for.
StartJoin ==
    /\ home # NoHome /\ credential = 0 /\ joining["join"] = NoJoin
    /\ joining' = [joining EXCEPT !["join"] = [epoch |-> epoch, home |-> home]]
    /\ UNCHANGED <<home, epoch, credential, homeOf, client, connecting, refreshing,
                   ticking, aborted, connections, connectors, refreshers, leaving>>

\* The broker granted the enrolment; only the epoch that asked takes it.
TakeEnrolment(ask) ==
    /\ joining[ask] # NoJoin /\ Len(homeOf) < MaxEnrolments
    /\ homeOf' = Append(homeOf, joining[ask].home)
    /\ joining' = [joining EXCEPT ![ask] = NoJoin]
    /\ IF joining[ask].epoch = epoch
       THEN credential' = Len(homeOf') /\ ticking' = TRUE
       ELSE UNCHANGED <<credential, ticking>>
    /\ UNCHANGED <<home, epoch, client, connecting, refreshing, aborted,
                   connections, connectors, refreshers, leaving>>

JoinFails(ask) ==
    /\ joining[ask] # NoJoin /\ joining' = [joining EXCEPT ![ask] = NoJoin]
    /\ UNCHANGED <<home, epoch, credential, homeOf, client, connecting, refreshing,
                   ticking, aborted, connections, connectors, refreshers, leaving>>

\* /team leave asks the human first, with a connection or without one.
StartLeave ==
    /\ credential # 0 /\ leaving = NoLeave
    /\ leaving' = [at |-> IF client = 0 THEN "detaching" ELSE "leaving",
                   epoch |-> epoch, connection |-> client]
    /\ UNCHANGED <<home, epoch, credential, homeOf, client, connecting, refreshing,
                   ticking, aborted, connections, connectors, refreshers, joining>>

Refused ==
    /\ leaving # NoLeave /\ leaving' = NoLeave
    /\ UNCHANGED <<home, epoch, credential, homeOf, client, connecting, refreshing,
                   ticking, aborted, connections, connectors, refreshers, joining>>

\* Confirmed in the epoch that asked, and without a connection at that time.
DetachOffline ==
    /\ leaving.at = "detaching" /\ leaving.epoch = epoch
    /\ leaving' = NoLeave
    /\ ClearEnrolment
    /\ UNCHANGED <<home, homeOf, client, connectors, refreshers, joining>>

\* Confirmed, and the broker has recorded the departure.
Leave ==
    /\ leaving.at = "leaving"
    /\ leaving' = NoLeave
    /\ ClearEnrolment /\ client' = 0
    /\ UNCHANGED <<home, homeOf, connectors, refreshers, joining>>

(***************************************************************************)
(* The session                                                             *)
(***************************************************************************)
\* session_start for another session, without a shutdown before it.
SwitchSession(s) ==
    /\ home # NoHome /\ s # home /\ home' = s
    /\ ClearEnrolment /\ client' = 0
    /\ UNCHANGED <<homeOf, flowVars>>

\* session_start after a shutdown; a reload asks for the saved enrolment.
StartSession(s, reload) ==
    /\ home = NoHome /\ home' = s
    /\ IF reload /\ joining["restore"] = NoJoin
       THEN joining' = [joining EXCEPT !["restore"] = [epoch |-> epoch, home |-> s]]
       ELSE UNCHANGED joining
    /\ UNCHANGED <<epoch, credential, homeOf, client, connecting, refreshing, ticking,
                   aborted, connections, connectors, refreshers, leaving>>

\* shutdown lets a join finish first, and does not renew the signal.
Shutdown ==
    /\ home # NoHome /\ joining["join"] = NoJoin
    /\ home' = NoHome /\ EndsEpoch /\ aborted' = TRUE /\ client' = 0
    /\ UNCHANGED <<homeOf, flowVars>>

(***************************************************************************)
(* Specification                                                           *)
(***************************************************************************)
LinkInit ==
    /\ home = NoHome /\ epoch = 0 /\ credential = 0
    /\ homeOf = <<>> /\ connections = <<>>
    /\ client = 0 /\ connecting = FALSE /\ refreshing = FALSE /\ ticking = FALSE
    /\ aborted = FALSE
    /\ connectors = [i \in Connectors |-> NoConnector]
    /\ refreshers = [i \in Refreshers |-> NoRefresher]
    /\ joining = [ask \in Asks |-> NoJoin] /\ leaving = NoLeave

LinkNext ==
    \/ StartConnect \/ StartRefresh \/ Beat
    \/ \E i \in Connectors :
        Ensured(i) \/ Opens(i) \/ Hold(i) \/ Greeted(i) \/ ConnectFails(i)
    \/ \E i \in Refreshers, fails \in BOOLEAN : RefreshEnds(i, fails)
    \/ \E c \in DOMAIN connections :
        SocketCloses(c) \/ \E fails \in BOOLEAN : BeatEnds(c, fails)
    \/ StartJoin \/ (\E ask \in Asks : TakeEnrolment(ask) \/ JoinFails(ask))
    \/ StartLeave \/ Refused \/ DetachOffline \/ Leave
    \/ \E s \in Homes :
        SwitchSession(s) \/ \E reload \in BOOLEAN : StartSession(s, reload)
    \/ Shutdown

LinkSpec == LinkInit /\ [][LinkNext]_linkVars

(***************************************************************************)
(* Properties                                                              *)
(***************************************************************************)
LinkTypeOK ==
    /\ home \in Homes \cup {NoHome} /\ epoch \in 0..MaxEpoch
    /\ credential \in 0..MaxEnrolments /\ client \in 0..MaxConnections
    /\ homeOf \in Seq(Homes)
    /\ {connecting, refreshing, ticking, aborted} \subseteq BOOLEAN
    /\ \A i \in Connectors :
        connectors[i].at \in {"none", "ensuring", "opening", "opened", "greeting"}
    /\ joining \in [Asks -> [epoch : 0..MaxEpoch, home : Homes \cup {NoHome}]]
    /\ leaving.at \in {"none", "detaching", "leaving"}

\* Whatever connect, join or restore ends late, the runtime starts to hold a
\* connection only if it was opened in this epoch with the very enrolment the
\* runtime has.
HoldsCurrent ==
    client' \notin {client, 0} =>
        /\ connections'[client'].epoch = epoch'
        /\ connections'[client'].enrolment = credential'

\* The runtime's enrolment is one of the session it runs in.
EnrolmentIsOfSession == credential # 0 => homeOf[credential] = home

\* The flag that keeps the timer from connecting is up exactly while a connect
\* of this epoch runs: it neither lets a second one in nor stays up for ever.
ConnectingIsTrue ==
    connecting <=> \E i \in Connectors :
        connectors[i] # NoConnector /\ connectors[i].epoch = epoch

\* A connection of this epoch that the runtime holds is open: whichever of its
\* refresh, heartbeat, connect and close handler ends first drops it.
HeldIsOpen ==
    client # 0 /\ connections[client].epoch = epoch => connections[client].open

\* In every step all four hold: what the runtime has is what the session of
\* this epoch asked for, whatever ends late.
LinkIsOfSession ==
    [][/\ HoldsCurrent
       /\ EnrolmentIsOfSession' /\ ConnectingIsTrue' /\ HeldIsOpen']_linkVars

\* An enrolled session that no connect is running for, and that says it is
\* connected, has an open connection (what a /team join prints of its client:
\* "Connected. Eligible inbox messages will be processed automatically",
\* commands.ts:39).
ConnectedIsTrue ==
    credential # 0 /\ client # 0 /\ ~connecting => connections[client].open

=============================================================================
