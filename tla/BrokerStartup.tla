---------------------------- MODULE BrokerStartup ----------------------------
(***************************************************************************)
(* Who owns the broker's socket: sessions that need a broker               *)
(* (ensureBroker, src/coordination/managed.ts), the processes they or a    *)
(* human start (cli.ts, startBroker in broker.ts), and the startup gate    *)
(* and stale-socket recovery between them (startup.ts).  Each of them may  *)
(* crash between any two steps; the gate, a SQLite lock, is then free.     *)
(*                                                                         *)
(* Abstractions.  The inode of the socket file is the process that bound   *)
(* it.  Idle shutdown, SIGTERM, a control stop and a failed sweep are one  *)
(* Stop.  Closing a listening socket unlinks its path first, as libuv does.*)
(***************************************************************************)
EXTENDS Naturals, FiniteSets

CONSTANTS
    Starters,   \* sessions that call ensureBroker
    Processes,  \* processes that run cli.ts
    Veteran,    \* the process of an earlier version that serves at first
    Nobody

ASSUME StartupAssumption ==
    /\ Veteran \in Processes /\ Nobody \notin Starters \cup Processes
    /\ Starters \cap Processes = {}

VARIABLES
    socketFile,  \* the process whose socket is at paths.socket, or Nobody
    gate,        \* who holds the startup gate
    ensuring,    \* session -> where ensure() is
    at,          \* process -> where it is
    command,     \* process -> "managed-start", "start" or "cleanup"
    parent,      \* process -> the session that waits for it
    before,      \* process -> the socket file recoverSocket looked at
    stopAsked,   \* processes that were asked to stop for an upgrade
    disturbed    \* history: sessions whose ensure met a crash, a stop or a timeout

startupVars == <<socketFile, gate, ensuring, at, command, parent, before,
                 stopAsked, disturbed>>

Listening(b) == b \in Processes /\ at[b] \in {"opening", "serving"}
Serving(b) == b \in Processes /\ at[b] = "serving"
Waiting == {e \in Starters : ensuring[e] \notin {"idle", "ready", "failed"}}
Current(b) == b # Veteran

Reach(b, step) == at' = [at EXCEPT ![b] = step]
\* Nothing is kept of a process that ends.
Exits(b) ==
    /\ Reach(b, "gone")
    /\ command' = [command EXCEPT ![b] = "start"]
    /\ parent' = [parent EXCEPT ![b] = Nobody] /\ before' = [before EXCEPT ![b] = Nobody]
Tell(b, outcome) ==
    ensuring' = [e \in Starters |->
        IF e = parent[b] /\ ensuring[e] = "starting" THEN outcome ELSE ensuring[e]]
Disturb == disturbed' = disturbed \cup Waiting

(***************************************************************************)
(* ensure                                                                  *)
(***************************************************************************)
\* A new attempt no longer hears what an earlier one spawned.
Ensure(e) ==
    /\ ensuring[e] \in {"idle", "ready", "failed"}
    /\ ensuring' = [ensuring EXCEPT ![e] = "queued"]
    /\ disturbed' = disturbed \ {e}
    /\ parent' = [b \in Processes |-> IF parent[b] = e THEN Nobody ELSE parent[b]]
    /\ UNCHANGED <<socketFile, gate, at, command, before, stopAsked>>

\* Mutant: nothing serializes the starts.
EnterUngated(who) == gate' = who

Enter(who) == gate = Nobody /\ gate' = who

AskHealth(e) ==
    /\ ensuring[e] = "queued" /\ Enter(e)
    /\ ensuring' = [ensuring EXCEPT ![e] = "asking"]
    /\ UNCHANGED <<socketFile, at, command, parent, before, stopAsked, disturbed>>

\* No endpoint or a refused one: a broker is needed.  A healthy one of this
\* version is used; one of an earlier version is asked to stop.  While this
\* session holds the gate none is half started.
Health(e) ==
    /\ ensuring[e] = "asking"
    /\ \/ /\ ~Listening(socketFile)
          /\ ensuring' = [ensuring EXCEPT ![e] = "spawning"]
          /\ gate' = Nobody /\ UNCHANGED stopAsked
       \/ /\ Serving(socketFile) /\ Current(socketFile)
          /\ ensuring' = [ensuring EXCEPT ![e] = "ready"]
          /\ gate' = Nobody /\ UNCHANGED stopAsked
       \/ /\ Serving(socketFile) /\ ~Current(socketFile)
          /\ ensuring' = [ensuring EXCEPT ![e] = "replacing"]
          /\ stopAsked' = stopAsked \cup {socketFile} /\ UNCHANGED gate
    /\ UNCHANGED <<socketFile, at, command, parent, before, disturbed>>

Replaced(e) ==
    /\ ensuring[e] = "replacing" /\ socketFile = Nobody
    /\ ensuring' = [ensuring EXCEPT ![e] = "spawning"] /\ gate' = Nobody
    /\ UNCHANGED <<socketFile, at, command, parent, before, stopAsked, disturbed>>

\* The bounded waits of ensure: for the gate, for a health answer, for the old
\* broker's socket to go, and for the new process to report.
GivesUp(e) ==
    /\ ensuring[e] \in {"queued", "asking", "replacing", "starting"}
    /\ ensuring' = [ensuring EXCEPT ![e] = "failed"]
    /\ gate' = IF gate = e THEN Nobody ELSE gate
    /\ disturbed' = disturbed \cup {e}
    /\ UNCHANGED <<socketFile, at, command, parent, before, stopAsked>>

StarterCrashes(e) ==
    /\ ensuring[e] \notin {"idle", "ready", "failed"}
    /\ ensuring' = [ensuring EXCEPT ![e] = "idle"]
    /\ gate' = IF gate = e THEN Nobody ELSE gate
    /\ Disturb
    /\ UNCHANGED <<socketFile, at, command, parent, before, stopAsked>>

(***************************************************************************)
(* cli.ts.  A process id is used again once no trace of it is left.        *)
(***************************************************************************)
Fresh(b) ==
    /\ at[b] = "gone" /\ b # Veteran /\ socketFile # b
    /\ \A c \in Processes : at[c] # "gone" => before[c] # b

\* Which of the ids that are fresh it gets does not matter.
LaunchProcess(b, cmd, e) ==
    /\ Fresh(b) /\ b = (CHOOSE c \in Processes : Fresh(c)) /\ Reach(b, "queued")
    /\ command' = [command EXCEPT ![b] = cmd]
    /\ parent' = [parent EXCEPT ![b] = e]
    /\ before' = [before EXCEPT ![b] = Nobody]
    /\ UNCHANGED <<socketFile, gate, stopAsked, disturbed>>

SpawnBroker(e, b) ==
    /\ ensuring[e] = "spawning"
    /\ ensuring' = [ensuring EXCEPT ![e] = "starting"]
    /\ LaunchProcess(b, "managed-start", e)

RunByHand(b, cmd) == LaunchProcess(b, cmd, Nobody) /\ UNCHANGED ensuring

\* startupGate, then the first look of recoverSocket.
Look(b) ==
    /\ at[b] = "queued" /\ Enter(b)
    /\ before' = [before EXCEPT ![b] = socketFile]
    /\ Reach(b, IF socketFile # Nobody THEN "probing"
                ELSE IF command[b] = "cleanup" THEN "leaving" ELSE "binding")
    /\ UNCHANGED <<socketFile, ensuring, command, parent, stopAsked, disturbed>>

\* A connection attempt: only a refusal proves the endpoint stale.
Probe(b) ==
    /\ at[b] = "probing"
    /\ Reach(b, IF socketFile = Nobody THEN "failing"
                ELSE IF Listening(socketFile)
                THEN IF command[b] = "managed-start" THEN "answering" ELSE "failing"
                ELSE "rechecking")
    /\ gate' = IF socketFile # Nobody /\ ~Listening(socketFile) THEN gate ELSE Nobody
    /\ UNCHANGED <<socketFile, ensuring, command, parent, before, stopAsked, disturbed>>

\* The bounded waits of a process: for the gate and for the connection.
WaitsTooLong(b) ==
    /\ at[b] \in {"queued", "probing"} /\ Reach(b, "failing")
    /\ gate' = IF gate = b THEN Nobody ELSE gate
    /\ Disturb
    /\ UNCHANGED <<socketFile, ensuring, command, parent, before, stopAsked>>

\* The second look, then the unlink.
Recheck(b) ==
    /\ at[b] = "rechecking"
    /\ IF socketFile = before[b]
       THEN Reach(b, "unlinking") /\ UNCHANGED gate
       ELSE Reach(b, "failing") /\ gate' = Nobody
    /\ UNCHANGED <<socketFile, ensuring, command, parent, before, stopAsked, disturbed>>

Unlink(b) ==
    /\ at[b] = "unlinking" /\ socketFile' = Nobody
    /\ before' = [before EXCEPT ![b] = Nobody]
    /\ Reach(b, IF command[b] = "cleanup" THEN "leaving" ELSE "binding")
    /\ UNCHANGED <<gate, ensuring, command, parent, stopAsked, disturbed>>

Bind(b) ==
    /\ at[b] = "binding"
    /\ IF socketFile = Nobody
       THEN socketFile' = b /\ Reach(b, "opening") /\ UNCHANGED gate
       ELSE Reach(b, "failing") /\ gate' = Nobody /\ UNCHANGED socketFile
    /\ UNCHANGED <<ensuring, command, parent, before, stopAsked, disturbed>>

\* The database is opened, which resets every lease; then the gate is left
\* and the parent hears of it.
Open(b) ==
    /\ at[b] = "opening" /\ Reach(b, "serving")
    /\ gate' = Nobody /\ Tell(b, "ready")
    /\ UNCHANGED <<socketFile, command, parent, before, stopAsked, disturbed>>

\* A managed start that finds a broker asks it for its health.
AnswerHealth(b) ==
    /\ at[b] = "answering" /\ Exits(b)
    /\ Tell(b, IF Serving(socketFile) THEN "ready" ELSE "failed")
    /\ UNCHANGED <<socketFile, gate, stopAsked, disturbed>>

LeaveProcess(b) ==
    /\ at[b] \in {"failing", "leaving"} /\ Exits(b)
    /\ gate' = IF gate = b THEN Nobody ELSE gate
    /\ Tell(b, "failed")
    /\ UNCHANGED <<socketFile, stopAsked, disturbed>>

(***************************************************************************)
(* The end of a broker                                                     *)
(***************************************************************************)
\* stop: sockets and path go at once, the database a little later.  A broker
\* whose database could not be opened stops before it has served.
Stop(b) ==
    /\ Listening(b)
    /\ socketFile' = Nobody
    /\ Reach(b, "stopping")
    /\ gate' = IF gate = b THEN Nobody ELSE gate
    /\ IF at[b] = "opening" THEN Tell(b, "failed") ELSE UNCHANGED ensuring
    /\ IF b \in stopAsked THEN UNCHANGED disturbed ELSE Disturb
    /\ stopAsked' = stopAsked \ {b}
    /\ UNCHANGED <<command, parent, before>>

Stopped(b) ==
    /\ at[b] = "stopping" /\ Exits(b)
    /\ UNCHANGED <<socketFile, gate, ensuring, stopAsked, disturbed>>

Crash(b) ==
    /\ at[b] # "gone" /\ Exits(b)
    /\ gate' = IF gate = b THEN Nobody ELSE gate
    /\ Tell(b, "failed") /\ Disturb
    /\ stopAsked' = stopAsked \ {b}
    /\ UNCHANGED socketFile

(***************************************************************************)
(* Specification                                                           *)
(***************************************************************************)
StartupInit ==
    /\ socketFile = Veteran /\ gate = Nobody
    /\ ensuring = [e \in Starters |-> "idle"]
    /\ at = [b \in Processes |-> IF b = Veteran THEN "serving" ELSE "gone"]
    /\ command = [b \in Processes |-> "start"]
    /\ parent = [b \in Processes |-> Nobody] /\ before = parent
    /\ stopAsked = {} /\ disturbed = {}

StartupNext ==
    \/ \E e \in Starters :
        \/ Ensure(e) \/ AskHealth(e) \/ Health(e) \/ Replaced(e) \/ GivesUp(e)
        \/ StarterCrashes(e)
        \/ \E b \in Processes : SpawnBroker(e, b)
    \/ \E b \in Processes :
        \/ \E cmd \in {"start", "cleanup"} : RunByHand(b, cmd)
        \/ Look(b) \/ Probe(b) \/ WaitsTooLong(b) \/ Recheck(b) \/ Unlink(b)
        \/ Bind(b) \/ Open(b) \/ AnswerHealth(b) \/ LeaveProcess(b)
        \/ Stop(b) \/ Stopped(b) \/ Crash(b)

StartupSpec == StartupInit /\ [][StartupNext]_startupVars

(***************************************************************************)
(* Properties                                                              *)
(***************************************************************************)
StartupTypeOK ==
    /\ socketFile \in Processes \cup {Nobody}
    /\ gate \in Starters \cup Processes \cup {Nobody}
    /\ ensuring \in [Starters -> {"idle", "queued", "asking", "replacing", "spawning",
                                  "starting", "ready", "failed"}]
    /\ at \in [Processes -> {"gone", "queued", "probing", "rechecking", "unlinking", "binding",
                             "opening", "serving", "answering", "failing", "leaving",
                             "stopping"}]
    /\ command \in [Processes -> {"managed-start", "start", "cleanup"}]
    /\ stopAsked \subseteq Processes /\ disturbed \subseteq Starters
    /\ parent \in [Processes -> Starters \cup {Nobody}]
    /\ before \in [Processes -> Processes \cup {Nobody}]

\* The endpoint of a broker that listens is its own: no recovery, start or
\* shutdown of another one takes it away, so one broker at most serves and no
\* second one resets the leases of the first.
EndpointOwned == \A b \in Processes : Listening(b) => socketFile = b

\* Sessions that start a broker at the same time, from whatever an earlier one
\* left behind, all get one: a start fails only if a process died, was stopped
\* or was too slow meanwhile.
StartsSucceed == \A e \in Starters : ensuring[e] = "failed" => e \in disturbed

\* Both: starts that meet one another neither take an endpoint away nor fail.
StartupIsSound == EndpointOwned /\ StartsSucceed

=============================================================================
