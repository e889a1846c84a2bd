---------------------------- MODULE SessionProofs ----------------------------
(***************************************************************************)
(* What a session is to its user and to the broker: the processes that may *)
(* start one at the same time (BrokerStartup), the connection under        *)
(* changing sessions and enrolments (SessionLink), paging (TeamReading),   *)
(* the views of a team (TeamNavigation), calls that wait for a decision    *)
(* (SafetyGate), forms (QuestionForm), todos (Todos), compactions          *)
(* (AutoCompact), /fast (FastMode) and the limits of the subscription      *)
(* (CodexLimits), each for any number of whatever it counts.               *)
(***************************************************************************)
EXTENDS BrokerStartup, SessionLink, TeamReading, TeamNavigation, SafetyGate, QuestionForm,
        Todos, AutoCompact, FastMode, CodexLimits, FiniteSetTheorems, SequenceTheorems, TLAPS

(***************************************************************************)
(* BrokerStartup: brokers that start at the same time own the endpoint one *)
(* at a time, and a start that nothing disturbed succeeds.                 *)
(*                                                                         *)
(* The argument is that of a lock.  Between the first look at the socket   *)
(* file and the open database a process holds the gate, so what it saw of  *)
(* the file stays true: a stale file stays stale and no file stays no      *)
(* file.  The only change the gate does not exclude is the end of a broker *)
(* that serves, which removes its own file and disturbs whoever waits.     *)
(***************************************************************************)

\* Whoever is in the gated part of a start or of a health check has the gate.
GateHeld ==
    /\ \A b \in Processes :
        at[b] \in {"probing", "rechecking", "unlinking", "binding", "opening"} => gate = b
    /\ \A e \in Starters : ensuring[e] \in {"asking", "replacing"} => gate = e

\* What the holder of the gate found is still so.
StaleStaysStale ==
    \A b \in Processes :
        /\ at[b] = "probing" => socketFile \in {before[b], Nobody}
        /\ at[b] \in {"rechecking", "unlinking"} =>
                socketFile = before[b] /\ socketFile # Nobody /\ ~Listening(socketFile)
        /\ at[b] = "binding" => socketFile = Nobody

\* Session e waits for process b to report.
Hears(b, e) == parent[b] = e /\ ensuring[e] = "starting"

\* Only processes that a session's present wait is about have a parent, and
\* cleanups have none.
Parents ==
    \A b \in Processes :
        /\ parent[b] # Nobody => command[b] = "managed-start" /\ b # Veteran
        /\ at[b] = "leaving" => command[b] = "cleanup"
        /\ \A e \in Starters :
              ensuring[e] \in {"queued", "asking", "replacing", "spawning"} => parent[b] # e

\* The broker of the earlier version is not up any more once a session spawns.
VeteranGone ==
    /\ stopAsked \subseteq {Veteran} /\ at[Veteran] \in {"serving", "stopping", "gone"}
    /\ \A e \in Starters : ensuring[e] \in {"spawning", "starting"} => ~Listening(Veteran)

\* A process that is about to report a failure has disturbed its session's wait.
FailuresExcused ==
    \A b \in Processes, e \in Starters :
        Hears(b, e) =>
            /\ at[b] = "failing" => e \in disturbed
            /\ at[b] = "probing" /\ socketFile = Nobody => e \in disturbed
            /\ at[b] = "answering" => e \in disturbed \/ Serving(socketFile)

StartInv ==
    /\ StartupTypeOK /\ GateHeld /\ EndpointOwned /\ StaleStaysStale
    /\ Parents /\ VeteranGone /\ FailuresExcused /\ StartsSucceed

(***************************************************************************)
(* The steps.  For each: the types, what the gate protects, who waits for  *)
(* whom, and that no wait fails undisturbed.                               *)
(***************************************************************************)
\* StartInv is inductive.
LEMMA StepKeepsStartInv == StartInv /\ StartupNext => StartInv'
<1> SUFFICES ASSUME StartInv, StartupNext PROVE StartInv'
  OBVIOUS
<1> USE StartupAssumption DEF StartInv
<1>1. ASSUME NEW e \in Starters, Ensure(e) PROVE StartInv'
  <2>1. StartupTypeOK'
    BY <1>1 DEF Ensure, StartupTypeOK
  <2>2. GateHeld' /\ EndpointOwned' /\ StaleStaysStale'
    BY <1>1 DEF Ensure, Listening, StartupTypeOK, GateHeld, EndpointOwned,
                StaleStaysStale
  <2>3. Parents' /\ VeteranGone'
    BY <1>1 DEF Ensure, Listening, StartupTypeOK, Parents, VeteranGone
  <2>4. FailuresExcused' /\ StartsSucceed'
    BY <1>1 DEF Ensure, Hears, Serving, StartupTypeOK, FailuresExcused,
                StartsSucceed
  <2> QED BY <2>1, <2>2, <2>3, <2>4
<1>2. ASSUME NEW e \in Starters, AskHealth(e) PROVE StartInv'
  <2>1. StartupTypeOK'
    BY <1>2 DEF AskHealth, Enter, StartupTypeOK
  <2>2. GateHeld' /\ EndpointOwned' /\ StaleStaysStale'
    BY <1>2 DEF AskHealth, Listening, Enter, StartupTypeOK, GateHeld,
                EndpointOwned, StaleStaysStale
  <2>3. Parents' /\ VeteranGone'
    BY <1>2 DEF AskHealth, Listening, Enter, StartupTypeOK, Parents, VeteranGone
  <2>4. FailuresExcused' /\ StartsSucceed'
    BY <1>2 DEF AskHealth, Hears, Serving, Enter, StartupTypeOK, FailuresExcused,
                StartsSucceed
  <2> QED BY <2>1, <2>2, <2>3, <2>4
<1>3. ASSUME NEW e \in Starters, Health(e) PROVE StartInv'
  <2>1. StartupTypeOK'
    BY <1>3 DEF Health, Listening, Serving, Current, StartupTypeOK
  <2>2. GateHeld' /\ EndpointOwned' /\ StaleStaysStale'
    BY <1>3 DEF Health, Listening, Serving, Current, StartupTypeOK, GateHeld,
                EndpointOwned, StaleStaysStale
  <2>3. Parents' /\ VeteranGone'
    BY <1>3 DEF Health, Listening, Serving, Current, StartupTypeOK, GateHeld,
                EndpointOwned, StaleStaysStale, Parents, VeteranGone
  <2>4. FailuresExcused' /\ StartsSucceed'
    BY <1>3 DEF Health, Hears, Listening, Serving, Current, StartupTypeOK,
                FailuresExcused, StartsSucceed
  <2> QED BY <2>1, <2>2, <2>3, <2>4
<1>4. ASSUME NEW e \in Starters, Replaced(e) PROVE StartInv'
  <2>1. StartupTypeOK'
    BY <1>4 DEF Replaced, StartupTypeOK
  <2>2. GateHeld' /\ EndpointOwned' /\ StaleStaysStale'
    BY <1>4 DEF Replaced, Listening, StartupTypeOK, GateHeld, EndpointOwned,
                StaleStaysStale
  <2>3. Parents' /\ VeteranGone'
    BY <1>4 DEF Replaced, Listening, StartupTypeOK, GateHeld, EndpointOwned,
                StaleStaysStale, Parents, VeteranGone
  <2>4. FailuresExcused' /\ StartsSucceed'
    BY <1>4 DEF Replaced, Hears, Serving, StartupTypeOK, FailuresExcused,
                StartsSucceed
  <2> QED BY <2>1, <2>2, <2>3, <2>4
<1>5. ASSUME NEW e \in Starters, GivesUp(e) PROVE StartInv'
  <2>1. StartupTypeOK'
    BY <1>5 DEF GivesUp, StartupTypeOK
  <2>2. GateHeld' /\ EndpointOwned' /\ StaleStaysStale'
    BY <1>5 DEF GivesUp, Listening, StartupTypeOK, GateHeld, EndpointOwned,
                StaleStaysStale
  <2>3. Parents' /\ VeteranGone'
    BY <1>5 DEF GivesUp, Listening, StartupTypeOK, Parents, VeteranGone
  <2>4. FailuresExcused' /\ StartsSucceed'
    BY <1>5 DEF GivesUp, Hears, Serving, StartupTypeOK, FailuresExcused,
                StartsSucceed
  <2> QED BY <2>1, <2>2, <2>3, <2>4
<1>6. ASSUME NEW e \in Starters, StarterCrashes(e) PROVE StartInv'
  <2>1. StartupTypeOK'
    BY <1>6 DEF StarterCrashes, Waiting, Disturb, StartupTypeOK
  <2>2. GateHeld' /\ EndpointOwned' /\ StaleStaysStale'
    BY <1>6 DEF StarterCrashes, Listening, Waiting, Disturb, StartupTypeOK,
                GateHeld, EndpointOwned, StaleStaysStale
  <2>3. Parents' /\ VeteranGone'
    BY <1>6 DEF StarterCrashes, Listening, Waiting, Disturb, StartupTypeOK,
                Parents, VeteranGone
  <2>4. FailuresExcused' /\ StartsSucceed'
    BY <1>6 DEF StarterCrashes, Hears, Serving, Waiting, Disturb, StartupTypeOK,
                FailuresExcused, StartsSucceed
  <2> QED BY <2>1, <2>2, <2>3, <2>4
<1>7. ASSUME NEW e \in Starters, NEW b \in Processes, SpawnBroker(e, b) PROVE StartInv'
  <2>1. StartupTypeOK'
    BY <1>7 DEF SpawnBroker, Reach, Fresh, LaunchProcess, StartupTypeOK
  <2>2. GateHeld' /\ EndpointOwned' /\ StaleStaysStale'
    BY <1>7 DEF SpawnBroker, Listening, Reach, Fresh, LaunchProcess, StartupTypeOK,
                GateHeld, EndpointOwned, StaleStaysStale
  <2>3. Parents' /\ VeteranGone'
    BY <1>7 DEF SpawnBroker, Listening, Reach, Fresh, LaunchProcess, StartupTypeOK,
                Parents, VeteranGone
  <2>4. FailuresExcused' /\ StartsSucceed'
    BY <1>7 DEF SpawnBroker, Hears, Listening, Serving, Reach, Fresh,
                LaunchProcess, StartupTypeOK, GateHeld, EndpointOwned,
                StaleStaysStale, Parents, VeteranGone, FailuresExcused,
                StartsSucceed
  <2> QED BY <2>1, <2>2, <2>3, <2>4
<1>8. ASSUME NEW b \in Processes, NEW cmd \in {"start", "cleanup"}, RunByHand(b, cmd)
      PROVE  StartInv'
  <2>1. StartupTypeOK'
    BY <1>8 DEF RunByHand, Reach, Fresh, LaunchProcess, StartupTypeOK
  <2>2. GateHeld' /\ EndpointOwned' /\ StaleStaysStale'
    BY <1>8 DEF RunByHand, Listening, Reach, Fresh, LaunchProcess, StartupTypeOK,
                GateHeld, EndpointOwned, StaleStaysStale
  <2>3. Parents' /\ VeteranGone'
    BY <1>8 DEF RunByHand, Listening, Reach, Fresh, LaunchProcess, StartupTypeOK,
                Parents, VeteranGone
  <2>4. FailuresExcused' /\ StartsSucceed'
    BY <1>8 DEF RunByHand, Hears, Serving, Reach, Fresh, LaunchProcess,
                StartupTypeOK, FailuresExcused, StartsSucceed
  <2> QED BY <2>1, <2>2, <2>3, <2>4
<1>9. ASSUME NEW b \in Processes, Look(b) PROVE StartInv'
  <2>1. StartupTypeOK'
    BY <1>9 DEF Look, Reach, Enter, StartupTypeOK
  <2>2. GateHeld' /\ EndpointOwned' /\ StaleStaysStale'
    BY <1>9 DEF Look, Listening, Reach, Enter, StartupTypeOK, GateHeld,
                EndpointOwned, StaleStaysStale
  <2>3. Parents' /\ VeteranGone'
    BY <1>9 DEF Look, Listening, Reach, Enter, StartupTypeOK, Parents, VeteranGone
  <2>4. FailuresExcused' /\ StartsSucceed'
    BY <1>9 DEF Look, Hears, Serving, Reach, Enter, StartupTypeOK, FailuresExcused,
                StartsSucceed
  <2> QED BY <2>1, <2>2, <2>3, <2>4
<1>10. ASSUME NEW b \in Processes, Probe(b) PROVE StartInv'
  <2>1. StartupTypeOK'
    BY <1>10 DEF Probe, Listening, Reach, StartupTypeOK
  <2>2. GateHeld' /\ EndpointOwned' /\ StaleStaysStale'
    BY <1>10 DEF Probe, Listening, Reach, StartupTypeOK, GateHeld, EndpointOwned,
                 StaleStaysStale
  <2>3. Parents' /\ VeteranGone'
    BY <1>10 DEF Probe, Listening, Reach, StartupTypeOK, Parents, VeteranGone
  <2>4. FailuresExcused' /\ StartsSucceed'
    BY <1>10 DEF Probe, Hears, Listening, Serving, Reach, StartupTypeOK, GateHeld,
                 EndpointOwned, StaleStaysStale, Parents, VeteranGone,
                 FailuresExcused, StartsSucceed
  <2> QED BY <2>1, <2>2, <2>3, <2>4
<1>11. ASSUME NEW b \in Processes, WaitsTooLong(b) PROVE StartInv'
  <2>1. StartupTypeOK'
    BY <1>11 DEF WaitsTooLong, Waiting, Reach, Disturb, StartupTypeOK
  <2>2. GateHeld' /\ EndpointOwned' /\ StaleStaysStale'
    BY <1>11 DEF WaitsTooLong, Listening, Waiting, Reach, Disturb, StartupTypeOK,
                 GateHeld, EndpointOwned, StaleStaysStale
  <2>3. Parents' /\ VeteranGone'
    BY <1>11 DEF WaitsTooLong, Listening, Waiting, Reach, Disturb, StartupTypeOK,
                 Parents, VeteranGone
  <2>4. FailuresExcused' /\ StartsSucceed'
    BY <1>11 DEF WaitsTooLong, Hears, Serving, Waiting, Reach, Disturb,
                 StartupTypeOK, FailuresExcused, StartsSucceed
  <2> QED BY <2>1, <2>2, <2>3, <2>4
<1>12. ASSUME NEW b \in Processes, Recheck(b) PROVE StartInv'
  <2>1. StartupTypeOK'
    BY <1>12 DEF Recheck, Reach, StartupTypeOK
  <2>2. GateHeld' /\ EndpointOwned' /\ StaleStaysStale'
    BY <1>12 DEF Recheck, Listening, Reach, StartupTypeOK, GateHeld, EndpointOwned,
                 StaleStaysStale
  <2>3. Parents' /\ VeteranGone'
    BY <1>12 DEF Recheck, Listening, Reach, StartupTypeOK, Parents, VeteranGone
  <2>4. FailuresExcused' /\ StartsSucceed'
    BY <1>12 DEF Recheck, Hears, Listening, Serving, Reach, StartupTypeOK,
                 GateHeld, EndpointOwned, StaleStaysStale, FailuresExcused,
                 StartsSucceed
  <2> QED BY <2>1, <2>2, <2>3, <2>4
<1>13. ASSUME NEW b \in Processes, Unlink(b) PROVE StartInv'
  <2>1. StartupTypeOK'
    BY <1>13 DEF Unlink, Reach, StartupTypeOK
  <2>2. GateHeld' /\ EndpointOwned' /\ StaleStaysStale'
    BY <1>13 DEF Unlink, Listening, Reach, StartupTypeOK, GateHeld, EndpointOwned,
                 StaleStaysStale
  <2>3. Parents' /\ VeteranGone'
    BY <1>13 DEF Unlink, Listening, Reach, StartupTypeOK, Parents, VeteranGone
  <2>4. FailuresExcused' /\ StartsSucceed'
    BY <1>13 DEF Unlink, Hears, Listening, Serving, Reach, StartupTypeOK, GateHeld,
                 EndpointOwned, StaleStaysStale, FailuresExcused, StartsSucceed
  <2> QED BY <2>1, <2>2, <2>3, <2>4
<1>14. ASSUME NEW b \in Processes, Bind(b) PROVE StartInv'
  <2>1. StartupTypeOK'
    BY <1>14 DEF Bind, Reach, StartupTypeOK
  <2>2. GateHeld' /\ EndpointOwned' /\ StaleStaysStale'
    BY <1>14 DEF Bind, Listening, Reach, StartupTypeOK, GateHeld, EndpointOwned,
                 StaleStaysStale
  <2>3. Parents' /\ VeteranGone'
    BY <1>14 DEF Bind, Listening, Reach, StartupTypeOK, Parents, VeteranGone
  <2>4. FailuresExcused' /\ StartsSucceed'
    BY <1>14 DEF Bind, Hears, Listening, Serving, Reach, StartupTypeOK, GateHeld,
                 EndpointOwned, StaleStaysStale, FailuresExcused, StartsSucceed
  <2> QED BY <2>1, <2>2, <2>3, <2>4
<1>15. ASSUME NEW b \in Processes, Open(b) PROVE StartInv'
  <2>1. StartupTypeOK'
    BY <1>15 DEF Open, Reach, Tell, StartupTypeOK
  <2>2. GateHeld' /\ EndpointOwned' /\ StaleStaysStale'
    BY <1>15 DEF Open, Listening, Reach, Tell, StartupTypeOK, GateHeld,
                 EndpointOwned, StaleStaysStale
  <2>3. Parents' /\ VeteranGone'
    BY <1>15 DEF Open, Listening, Reach, Tell, StartupTypeOK, Parents, VeteranGone
  <2>4. FailuresExcused' /\ StartsSucceed'
    BY <1>15 DEF Open, Hears, Serving, Reach, Tell, StartupTypeOK, FailuresExcused,
                 StartsSucceed
  <2> QED BY <2>1, <2>2, <2>3, <2>4
<1>16. ASSUME NEW b \in Processes, AnswerHealth(b) PROVE StartInv'
  <2>1. StartupTypeOK'
    BY <1>16 DEF AnswerHealth, Serving, Reach, Exits, Tell, StartupTypeOK
  <2>2. GateHeld' /\ EndpointOwned' /\ StaleStaysStale'
    BY <1>16 DEF AnswerHealth, Listening, Serving, Reach, Exits, Tell,
                 StartupTypeOK, GateHeld, EndpointOwned, StaleStaysStale
  <2>3. Parents' /\ VeteranGone'
    BY <1>16 DEF AnswerHealth, Listening, Serving, Reach, Exits, Tell,
                 StartupTypeOK, Parents, VeteranGone
  <2>4. FailuresExcused' /\ StartsSucceed'
    BY <1>16 DEF AnswerHealth, Hears, Serving, Reach, Exits, Tell, StartupTypeOK,
                 FailuresExcused, StartsSucceed
  <2> QED BY <2>1, <2>2, <2>3, <2>4
<1>17. ASSUME NEW b \in Processes, LeaveProcess(b) PROVE StartInv'
  <2>1. StartupTypeOK'
    BY <1>17 DEF LeaveProcess, Reach, Exits, Tell, StartupTypeOK
  <2>2. GateHeld' /\ EndpointOwned' /\ StaleStaysStale'
    BY <1>17 DEF LeaveProcess, Listening, Reach, Exits, Tell, StartupTypeOK,
                 GateHeld, EndpointOwned, StaleStaysStale
  <2>3. Parents' /\ VeteranGone'
    BY <1>17 DEF LeaveProcess, Listening, Reach, Exits, Tell, StartupTypeOK,
                 Parents, VeteranGone
  <2>4. FailuresExcused' /\ StartsSucceed'
    BY <1>17 DEF LeaveProcess, Hears, Listening, Serving, Reach, Exits, Tell,
                 StartupTypeOK, GateHeld, EndpointOwned, StaleStaysStale, Parents,
                 VeteranGone, FailuresExcused, StartsSucceed
  <2> QED BY <2>1, <2>2, <2>3, <2>4
<1>18. ASSUME NEW b \in Processes, Stop(b) PROVE StartInv'
  <2>1. StartupTypeOK'
    BY <1>18 DEF Stop, Listening, Waiting, Reach, Tell, Disturb, StartupTypeOK
  <2>2. GateHeld' /\ EndpointOwned' /\ StaleStaysStale'
    BY <1>18 DEF Stop, Listening, Waiting, Reach, Tell, Disturb, StartupTypeOK,
                 GateHeld, EndpointOwned, StaleStaysStale
  <2>3. Parents' /\ VeteranGone'
    BY <1>18 DEF Stop, Listening, Waiting, Reach, Tell, Disturb, StartupTypeOK,
                 Parents, VeteranGone
  <2>4. FailuresExcused' /\ StartsSucceed'
    BY <1>18 DEF Stop, Hears, Listening, Serving, Waiting, Reach, Tell, Disturb,
                 StartupTypeOK, GateHeld, EndpointOwned, StaleStaysStale, Parents,
                 VeteranGone, FailuresExcused, StartsSucceed
  <2> QED BY <2>1, <2>2, <2>3, <2>4
<1>19. ASSUME NEW b \in Processes, Stopped(b) PROVE StartInv'
  <2>1. StartupTypeOK'
    BY <1>19 DEF Stopped, Reach, Exits, StartupTypeOK
  <2>2. GateHeld' /\ EndpointOwned' /\ StaleStaysStale'
    BY <1>19 DEF Stopped, Listening, Reach, Exits, StartupTypeOK, GateHeld,
                 EndpointOwned, StaleStaysStale
  <2>3. Parents' /\ VeteranGone'
    BY <1>19 DEF Stopped, Listening, Reach, Exits, StartupTypeOK, Parents,
                 VeteranGone
  <2>4. FailuresExcused' /\ StartsSucceed'
    BY <1>19 DEF Stopped, Hears, Serving, Reach, Exits, StartupTypeOK,
                 FailuresExcused, StartsSucceed
  <2> QED BY <2>1, <2>2, <2>3, <2>4
<1>20. ASSUME NEW b \in Processes, Crash(b) PROVE StartInv'
  <2>1. StartupTypeOK'
    BY <1>20 DEF Crash, Waiting, Reach, Exits, Tell, Disturb, StartupTypeOK
  <2>2. GateHeld' /\ EndpointOwned' /\ StaleStaysStale'
    BY <1>20 DEF Crash, Listening, Waiting, Reach, Exits, Tell, Disturb,
                 StartupTypeOK, GateHeld, EndpointOwned, StaleStaysStale
  <2>3. Parents' /\ VeteranGone'
    BY <1>20 DEF Crash, Listening, Waiting, Reach, Exits, Tell, Disturb,
                 StartupTypeOK, Parents, VeteranGone
  <2>4. FailuresExcused' /\ StartsSucceed'
    BY <1>20 DEF Crash, Hears, Serving, Waiting, Reach, Exits, Tell, Disturb,
                 StartupTypeOK, FailuresExcused, StartsSucceed
  <2> QED BY <2>1, <2>2, <2>3, <2>4
<1> QED BY <1>1, <1>2, <1>3, <1>4, <1>5, <1>6, <1>7, <1>8, <1>9, <1>10,
           <1>11, <1>12, <1>13, <1>14, <1>15, <1>16, <1>17, <1>18, <1>19, <1>20
        DEF StartupNext

\* Nothing has started yet.
LEMMA InitStartInv == StartupInit => StartInv
  BY StartupAssumption DEF StartupInit, StartInv, StartupTypeOK, GateHeld, EndpointOwned,
     StaleStaysStale, Parents, VeteranGone, FailuresExcused, StartsSucceed, Hears, Listening

\* A stuttering step keeps the invariant.
LEMMA StutterKeepsStartInv == StartInv /\ UNCHANGED startupVars => StartInv'
  BY DEF startupVars, StartInv, StartupTypeOK, GateHeld, EndpointOwned, StaleStaysStale,
     Parents, VeteranGone, FailuresExcused, StartsSucceed, Hears, Listening, Serving

\* The startup invariant holds in every reachable state (startup.ts: the lock,
\* the probe and the spawned broker, in any interleaving of the starters).
THEOREM StartupInvariance == StartupSpec => []StartInv
<1>1. StartInv /\ [StartupNext]_startupVars => StartInv'
  BY StepKeepsStartInv, StutterKeepsStartInv
<1> QED BY <1>1, InitStartInv, PTL DEF StartupSpec

\* The endpoint of a broker that listens is its own, and a start that met no
\* crash, stop or timeout succeeds, however many start at the same time.
THEOREM StartupSoundness == StartupSpec => []StartupIsSound
<1>1. StartInv => StartupIsSound
  BY DEF StartInv, StartupIsSound
<1> QED BY <1>1, StartupInvariance, PTL

(***************************************************************************)
(* LinkIsOfSession of SessionLink for any number of sessions, concurrent   *)
(* connects, refreshes, enrolments and connections.                        *)
(*                                                                         *)
(* Why it holds.  A change of session or enrolment opens a new epoch, so   *)
(* an ask of the present epoch was made by the present session             *)
(* (AsksAreOfHome).  Only the flag's own epoch clears it, and it is up     *)
(* before a second connect can start, so at most one run is of the present *)
(* epoch (OneConnects).  A run carries its enrolment and epoch to the      *)
(* connection it opens (OpenedAsAsked), and takes it only after comparing  *)
(* both again.                                                             *)
(***************************************************************************)

ConnectionRecords ==
    [enrolment : 0..MaxEnrolments, epoch : Nat, open : BOOLEAN, beat : BOOLEAN]

ConnectorRecords ==
    [at : {"none", "ensuring", "opening", "opened", "greeting"}, epoch : Nat,
     credential : 0..MaxEnrolments, connection : Nat]

\* Every variable has its type; the bounds play no part.
ConnectionsTyped == connections \in Seq(ConnectionRecords)
ConnectorsTyped == connectors \in [Connectors -> ConnectorRecords]
EnrolmentsTyped ==
    /\ credential \in 0..MaxEnrolments
    /\ homeOf \in Seq(Homes) /\ Len(homeOf) <= MaxEnrolments
LinkTypes ==
    home \in Homes \cup {NoHome} /\ epoch \in Nat /\ client \in Nat
FlagsTyped ==
    /\ connecting \in BOOLEAN /\ refreshing \in BOOLEAN /\ ticking \in BOOLEAN
    /\ aborted \in BOOLEAN
FlowsTyped ==
    /\ refreshers \in [Refreshers -> [epoch : Nat, connection : Nat]]
    /\ joining \in [Asks -> [epoch : Nat, home : Homes \cup {NoHome}]]
    /\ leaving \in [at : {"none", "detaching", "leaving"}, epoch : Nat, connection : Nat]

\* What waits belongs to no later epoch; an ask of this one is of this session.
AsksAreOfHome ==
    \A ask \in Asks : joining[ask] # NoJoin =>
        /\ joining[ask].home \in Homes /\ joining[ask].epoch <= epoch
        /\ joining[ask].epoch = epoch => joining[ask].home = home

\* The enrolment the runtime has was granted to the session it runs in.
EnrolmentGranted ==
    credential # 0 => /\ credential \in 1..Len(homeOf) /\ home \in Homes
                      /\ homeOf[credential] = home

\* At most one run of connectWorker is of this epoch, and the flag shows it.
OneConnects ==
    /\ \A i \in Connectors :
        /\ connectors[i].at = "none" => connectors[i] = NoConnector
        /\ connectors[i].epoch <= epoch
        /\ connectors[i].at # "none" /\ connectors[i].epoch = epoch => connecting
    /\ connecting => \E i \in Connectors :
        connectors[i].at # "none" /\ connectors[i].epoch = epoch
    /\ \A i, j \in Connectors :
        /\ connectors[i].at # "none" /\ connectors[i].epoch = epoch
        /\ connectors[j].at # "none" /\ connectors[j].epoch = epoch
        => i = j

\* What the runtime holds was opened; a run's connection in the run's epoch,
\* with its enrolment.
OpenedAsAsked ==
    /\ client \in 0..Len(connections)
    /\ \A i \in Connectors : connectors[i].at \in {"opened", "greeting"} =>
        /\ connectors[i].connection \in 1..Len(connections)
        /\ connections[connectors[i].connection].epoch = connectors[i].epoch
        /\ connections[connectors[i].connection].enrolment = connectors[i].credential

LinkInv ==
    /\ ConnectionsTyped /\ ConnectorsTyped /\ EnrolmentsTyped /\ LinkTypes
    /\ FlagsTyped /\ FlowsTyped
    /\ AsksAreOfHome /\ EnrolmentGranted /\ OneConnects /\ OpenedAsAsked

\* Closing connections changes nothing else about them.
SameConnections ==
    /\ connections' \in Seq(ConnectionRecords)
    /\ Len(connections') = Len(connections)
    /\ \A c \in 1..Len(connections) :
        /\ connections'[c].epoch = connections[c].epoch
        /\ connections'[c].enrolment = connections[c].enrolment

\* Closing connections, or none, keeps what a connection was opened as.
LEMMA ClosesKeeps ==
    ASSUME NEW C, connections \in Seq(ConnectionRecords),
           Closes(C) \/ UNCHANGED connections
    PROVE SameConnections
<1>1. CASE UNCHANGED connections
  BY <1>1 DEF SameConnections
<1>2. CASE Closes(C)
  <2>1. \A c \in DOMAIN connections : connections[c] \in ConnectionRecords
    OBVIOUS
  <2>a. \A c \in DOMAIN connections :
          [connections[c] EXCEPT !.open = FALSE] \in ConnectionRecords
    BY <2>1 DEF ConnectionRecords
  <2>2. connections' \in Seq(ConnectionRecords) /\ Len(connections') = Len(connections)
    BY <1>2, <2>1, <2>a DEF Closes
  <2>3. ASSUME NEW c \in 1..Len(connections)
        PROVE /\ connections'[c].epoch = connections[c].epoch
              /\ connections'[c].enrolment = connections[c].enrolment
    BY <1>2, <2>1 DEF Closes, ConnectionRecords
  <2> QED BY <2>2, <2>3 DEF SameConnections
<1> QED BY <1>1, <1>2

\* A heartbeat that starts or ends keeps what its connection was opened as.
LEMMA BeatsKeep ==
    ASSUME connections \in Seq(ConnectionRecords),
           NEW c \in 1..Len(connections), NEW beat \in BOOLEAN, NEW drops \in BOOLEAN,
           connections' = [connections EXCEPT ![c].beat = beat, ![c].open = @ /\ ~drops]
    PROVE  /\ SameConnections
           /\ \A d \in 1..Len(connections) :
                d # c \/ ~drops => connections'[d].open = connections[d].open
<1>1. \A d \in 1..Len(connections) : connections[d] \in ConnectionRecords
  OBVIOUS
<1> DEFINE new == [connections[c] EXCEPT !.beat = beat, !.open = @ /\ ~drops]
<1>2. new \in ConnectionRecords
  BY <1>1 DEF ConnectionRecords
<1>3. connections' \in Seq(ConnectionRecords) /\ Len(connections') = Len(connections)
  <2>1. connections' = [connections EXCEPT ![c] = new]
    BY <1>1 DEF ConnectionRecords
  <2> QED BY <1>2, <2>1
<1>4. ASSUME NEW d \in 1..Len(connections)
      PROVE  /\ connections'[d].epoch = connections[d].epoch
             /\ connections'[d].enrolment = connections[d].enrolment
             /\ d # c \/ ~drops => connections'[d].open = connections[d].open
  BY <1>1, <1>4 DEF ConnectionRecords
<1> QED BY <1>3, <1>4 DEF SameConnections

\* A run that ends frees its place and clears the flag of its own epoch only.
LEMMA EndKeepsRuns ==
    ASSUME LinkInv, NEW i \in Connectors, connectors[i].at # "none", ConnectorEnds(i),
           UNCHANGED epoch, SameConnections, client' \in {client, 0}
    PROVE ConnectionsTyped' /\ ConnectorsTyped' /\ OneConnects' /\ OpenedAsAsked'
<1> USE LinkAssumption DEF LinkInv
<1>1. NoConnector \in ConnectorRecords
  BY DEF ConnectorRecords, NoConnector
<1>2. ConnectorsTyped'
  BY <1>1 DEF ConnectorEnds, ConnectorsTyped
<1>3. OneConnects'
  BY DEF ConnectorEnds, ConnectorsTyped, OneConnects, NoConnector, ConnectorRecords,
         LinkTypes
<1>4. OpenedAsAsked'
  BY DEF ConnectorEnds, ConnectorsTyped, ConnectionsTyped, OpenedAsAsked, NoConnector,
         SameConnections
<1> QED BY <1>2, <1>3, <1>4 DEF ConnectionsTyped, SameConnections

\* The initial state satisfies the invariant.
LEMMA InitLinkInv == LinkInit => LinkInv
<1> SUFFICES ASSUME LinkInit PROVE LinkInv
  OBVIOUS
<1>1. ConnectionsTyped /\ EnrolmentsTyped /\ LinkTypes
  BY LinkAssumption DEF LinkInit, ConnectionsTyped, EnrolmentsTyped, LinkTypes
<1>2. FlagsTyped
  BY DEF LinkInit, FlagsTyped
<1>3. FlowsTyped
  BY DEF LinkInit, FlowsTyped, NoRefresher, NoJoin, NoLeave
<1>4. ConnectorsTyped
  BY LinkAssumption DEF LinkInit, ConnectorsTyped, ConnectorRecords, NoConnector
<1>5. AsksAreOfHome /\ EnrolmentGranted /\ OneConnects /\ OpenedAsAsked
  BY DEF LinkInit, AsksAreOfHome, EnrolmentGranted, OneConnects, OpenedAsAsked,
         NoConnector
<1> QED BY <1>1, <1>2, <1>3, <1>4, <1>5 DEF LinkInv

\* Every step keeps the invariant, and a connection is held only for this epoch.
LEMMA StepKeepsLinkInv == LinkInv /\ LinkNext => LinkInv' /\ HoldsCurrent
<1> SUFFICES ASSUME LinkInv, LinkNext PROVE LinkInv' /\ HoldsCurrent
  OBVIOUS
<1> USE LinkAssumption DEF LinkInv
<1>1. ASSUME StartConnect PROVE LinkInv' /\ HoldsCurrent
  <2> DEFINE k == CHOOSE k \in FreeConnectors : TRUE
             run == [NoConnector EXCEPT !.at = "ensuring", !.epoch = epoch,
                                        !.credential = credential]
  <2>1. k \in Connectors /\ connectors[k] = NoConnector
    BY <1>1 DEF StartConnect, FreeConnectors
  <2>2. connectors' = [connectors EXCEPT ![k] = run] /\ connecting' = TRUE /\ ~connecting
    BY <1>1 DEF StartConnect, CanConnect
  <2>3. /\ run \in ConnectorRecords
        /\ run.at = "ensuring" /\ run.epoch = epoch
    BY DEF NoConnector, ConnectorRecords, EnrolmentsTyped, LinkTypes
  <2> HIDE DEF k, run
  <2>4. ConnectorsTyped'
    BY <2>1, <2>2, <2>3 DEF ConnectorsTyped
  <2>5. OneConnects'
    <3>1. UNCHANGED epoch
      BY <1>1 DEF StartConnect
    <3>2. connectors' \in [Connectors -> ConnectorRecords] /\ connectors'[k] = run
          /\ \A j \in Connectors \ {k} : connectors'[j] = connectors[j]
      BY <2>1, <2>2, <2>4 DEF ConnectorsTyped
    <3>3. \A j \in Connectors : connectors[j].at = "none" \/ connectors[j].epoch # epoch
      BY <2>2 DEF OneConnects
    <3>4. run.at # "none" /\ run.epoch <= epoch
      BY <2>3 DEF LinkTypes
    <3> QED BY <2>1, <2>2, <2>3, <3>1, <3>2, <3>3, <3>4 DEF OneConnects
  <2>6. OpenedAsAsked'
    BY <1>1, <2>1, <2>2, <2>3 DEF StartConnect, ConnectorsTyped, OpenedAsAsked
  <2>7. /\ ConnectionsTyped' /\ EnrolmentsTyped' /\ LinkTypes' /\ FlagsTyped'
        /\ FlowsTyped' /\ AsksAreOfHome' /\ EnrolmentGranted' /\ HoldsCurrent
    BY <1>1 DEF StartConnect, ConnectionsTyped, EnrolmentsTyped, LinkTypes,
             FlagsTyped, FlowsTyped, AsksAreOfHome, EnrolmentGranted, HoldsCurrent
  <2> QED BY <2>4, <2>5, <2>6, <2>7
<1>2. ASSUME StartRefresh PROVE LinkInv' /\ HoldsCurrent
  <2>1. /\ ConnectionsTyped' /\ ConnectorsTyped'
        /\ EnrolmentsTyped' /\ LinkTypes' /\ FlowsTyped'
    BY <1>2 DEF StartRefresh, NoRefresher, NoJoin, Asks, ConnectionsTyped,
                ConnectorsTyped, EnrolmentsTyped, LinkTypes, FlowsTyped,
                AsksAreOfHome
  <2>2. FlagsTyped'
    BY <1>2 DEF StartRefresh, NoRefresher, FlagsTyped
  <2>3. AsksAreOfHome' /\ EnrolmentGranted'
    BY <1>2 DEF StartRefresh, NoRefresher, NoJoin, Asks, EnrolmentsTyped,
                LinkTypes, FlowsTyped, AsksAreOfHome, EnrolmentGranted
  <2>4. OneConnects'
    BY <1>2 DEF StartRefresh, NoConnector, NoRefresher, LinkTypes, OneConnects
  <2>5. OpenedAsAsked' /\ HoldsCurrent
    BY <1>2 DEF StartRefresh, NoConnector, NoRefresher, LinkTypes, OneConnects,
                OpenedAsAsked, HoldsCurrent
  <2> QED BY <2>1, <2>2, <2>3, <2>4, <2>5
<1>3. ASSUME NEW i \in Connectors, Ensured(i) PROVE LinkInv' /\ HoldsCurrent
  <2>1. /\ EnrolmentsTyped' /\ LinkTypes' /\ FlagsTyped' /\ FlowsTyped'
        /\ AsksAreOfHome' /\ EnrolmentGranted' /\ HoldsCurrent /\ SameConnections
    BY <1>3 DEF Ensured, ConnectorEnds, ConnectionsTyped, EnrolmentsTyped, LinkTypes,
             FlagsTyped, FlowsTyped, AsksAreOfHome, EnrolmentGranted, HoldsCurrent, SameConnections
  <2>2. CASE IsCurrent(connectors[i])
    <3>1. connectors' = [connectors EXCEPT ![i].at = "opening"] /\ UNCHANGED connecting
      BY <1>3, <2>2 DEF Ensured
    <3>2. ConnectionsTyped' /\ ConnectorsTyped'
      BY <2>1, <3>1 DEF SameConnections, ConnectionsTyped, ConnectorsTyped,
                        ConnectorRecords
    <3>3. OneConnects'
      BY <1>3, <3>1 DEF Ensured, ConnectorsTyped, ConnectorRecords, OneConnects,
                     NoConnector
    <3>4. OpenedAsAsked'
      BY <1>3, <3>1 DEF Ensured, ConnectorsTyped, ConnectorRecords, OpenedAsAsked
    <3> QED BY <2>1, <3>2, <3>3, <3>4
  <2>3. CASE ~IsCurrent(connectors[i])
    <3>1. connectors[i].at # "none" /\ ConnectorEnds(i) /\ UNCHANGED <<epoch, client>>
      BY <1>3, <2>3 DEF Ensured
    <3> QED BY <2>1, <3>1, EndKeepsRuns
  <2> QED BY <2>2, <2>3
<1>4. ASSUME NEW i \in Connectors, Opens(i) PROVE LinkInv' /\ HoldsCurrent
  <2> DEFINE n == Len(connections) + 1
             new == [enrolment |-> connectors[i].credential, epoch |-> connectors[i].epoch,
                     open |-> TRUE, beat |-> FALSE]
  <2>1. /\ n \in Nat /\ n = Len(connections') /\ connections' = Append(connections, new)
        /\ new \in ConnectionRecords
    BY <1>4 DEF Opens, ConnectionsTyped, ConnectorsTyped, ConnectorRecords,
             ConnectionRecords
  <2>2. /\ ConnectionsTyped'
        /\ \A c \in 1..Len(connections) : connections'[c] = connections[c]
        /\ connections'[n] = new
    BY <2>1 DEF ConnectionsTyped
  <2>3. connectors' = [connectors EXCEPT ![i].at = "opened", ![i].connection = n]
    BY <1>4, <2>1 DEF Opens
  <2>4. ConnectorsTyped'
    <3>1. [connectors[i] EXCEPT !.at = "opened", !.connection = n] \in ConnectorRecords
      BY <2>1 DEF ConnectorsTyped, ConnectorRecords
    <3> QED BY <2>3, <3>1 DEF ConnectorsTyped
  <2>5. OneConnects'
    <3>1. connectors[i].at = "opening" /\ UNCHANGED <<epoch, connecting>>
      BY <1>4 DEF Opens
    <3>2. /\ connectors'[i].at = "opened" /\ connectors'[i].epoch = connectors[i].epoch
          /\ \A j \in Connectors \ {i} : connectors'[j] = connectors[j]
      BY <2>3 DEF ConnectorsTyped, ConnectorRecords
    <3> QED BY <3>1, <3>2 DEF OneConnects
  <2>6. OpenedAsAsked'
    <3>1. UNCHANGED client /\ Len(connections) \in Nat /\ Len(connections') = n
      BY <1>4, <2>1 DEF Opens, ConnectionsTyped
    <3>2. client' \in 0..Len(connections')
      BY <3>1 DEF OpenedAsAsked
    <3> HIDE DEF n
    <3>3. ASSUME NEW j \in Connectors, connectors'[j].at \in {"opened", "greeting"}
          PROVE  /\ connectors'[j].connection \in 1..Len(connections')
                 /\ connections'[connectors'[j].connection].epoch = connectors'[j].epoch
                 /\ connections'[connectors'[j].connection].enrolment
                      = connectors'[j].credential
      <4>1. CASE j = i
        <5>1. /\ connectors'[j].connection = n
              /\ connectors'[j].epoch = connectors[i].epoch
              /\ connectors'[j].credential = connectors[i].credential
          BY <2>3, <4>1 DEF ConnectorsTyped, ConnectorRecords
        <5>2. n \in 1..Len(connections')
          BY <2>1, <3>1 DEF n
        <5> QED BY <2>2, <5>1, <5>2
      <4>2. CASE j # i
        <5>1. connectors'[j] = connectors[j]
          BY <2>3, <4>2 DEF ConnectorsTyped
        <5>2. connectors[j].connection \in 1..Len(connections)
          BY <3>3, <5>1 DEF OpenedAsAsked
        <5>3. connectors[j].connection \in 1..Len(connections')
          BY <3>1, <5>2 DEF n
        <5> QED BY <2>2, <3>3, <5>1, <5>2, <5>3 DEF OpenedAsAsked
      <4> QED BY <4>1, <4>2
    <3> QED BY <3>2, <3>3 DEF OpenedAsAsked
  <2>7. /\ EnrolmentsTyped' /\ LinkTypes' /\ FlagsTyped' /\ FlowsTyped'
        /\ AsksAreOfHome' /\ EnrolmentGranted' /\ HoldsCurrent
    BY <1>4 DEF Opens, EnrolmentsTyped, LinkTypes, FlagsTyped, FlowsTyped, AsksAreOfHome,
             EnrolmentGranted, HoldsCurrent
  <2> QED BY <2>2, <2>4, <2>5, <2>6, <2>7
<1>5. ASSUME NEW i \in Connectors, Hold(i) PROVE LinkInv' /\ HoldsCurrent
  <2>1. /\ EnrolmentsTyped' /\ FlowsTyped' /\ AsksAreOfHome' /\ EnrolmentGranted'
        /\ UNCHANGED <<epoch, credential, home, refreshing, ticking, aborted>>
        /\ connectors[i].at = "opened"
    BY <1>5 DEF Hold, EnrolmentsTyped, FlowsTyped, AsksAreOfHome, EnrolmentGranted
  <2>2. CASE IsCurrent(connectors[i])
    <3>1. /\ connectors' = [connectors EXCEPT ![i].at = "greeting"]
          /\ UNCHANGED <<connecting, connections>>
          /\ client' = connectors[i].connection
      BY <1>5, <2>2 DEF Hold
    <3>2. ConnectionsTyped' /\ ConnectorsTyped'
      BY <3>1 DEF ConnectionsTyped, ConnectorsTyped, ConnectorRecords
    <3>3. OneConnects'
      BY <2>1, <3>1 DEF ConnectorsTyped, ConnectorRecords, OneConnects, NoConnector
    <3>4. OpenedAsAsked'
      BY <2>1, <3>1 DEF ConnectorsTyped, ConnectorRecords, OpenedAsAsked
    <3>5. LinkTypes' /\ FlagsTyped' /\ HoldsCurrent
      BY <2>1, <2>2, <3>1 DEF IsCurrent, LinkTypes, FlagsTyped, ConnectorsTyped,
                              ConnectorRecords,
                              OpenedAsAsked, HoldsCurrent
    <3> QED BY <2>1, <3>2, <3>3, <3>4, <3>5
  <2>3. CASE ~IsCurrent(connectors[i])
    <3>1. /\ connectors[i].at # "none" /\ ConnectorEnds(i)
          /\ Closes({connectors[i].connection}) /\ UNCHANGED <<epoch, client>>
      BY <1>5, <2>3 DEF Hold
    <3>2. SameConnections
      BY <3>1, ClosesKeeps DEF ConnectionsTyped
    <3>3. LinkTypes' /\ FlagsTyped' /\ HoldsCurrent
      BY <2>1, <3>1 DEF ConnectorEnds, LinkTypes, FlagsTyped, HoldsCurrent
    <3> QED BY <2>1, <3>1, <3>2, <3>3, EndKeepsRuns
  <2> QED BY <2>2, <2>3
<1>6. ASSUME NEW i \in Connectors, Greeted(i) PROVE LinkInv' /\ HoldsCurrent
  <2>1. /\ EnrolmentsTyped' /\ LinkTypes' /\ FlagsTyped' /\ FlowsTyped'
        /\ AsksAreOfHome' /\ EnrolmentGranted' /\ HoldsCurrent /\ SameConnections
        /\ connectors[i].at # "none" /\ ConnectorEnds(i) /\ UNCHANGED <<epoch, client>>
    BY <1>6 DEF Greeted, ConnectorEnds, ConnectionsTyped, EnrolmentsTyped, LinkTypes,
             FlagsTyped, FlowsTyped, AsksAreOfHome, EnrolmentGranted, HoldsCurrent, SameConnections
  <2> QED BY <2>1, EndKeepsRuns
<1>7. ASSUME NEW i \in Connectors, ConnectFails(i) PROVE LinkInv' /\ HoldsCurrent
  <2>1. /\ EnrolmentsTyped' /\ FlowsTyped' /\ AsksAreOfHome' /\ EnrolmentGranted'
        /\ connectors[i].at # "none" /\ ConnectorEnds(i)
        /\ UNCHANGED <<epoch, home, refreshing, ticking, aborted>>
        /\ client' \in {client, 0} /\ (Closes({client}) \/ UNCHANGED connections)
    BY <1>7 DEF ConnectFails, EnrolmentsTyped, FlowsTyped, AsksAreOfHome, EnrolmentGranted
  <2>2. SameConnections
    BY <2>1, ClosesKeeps DEF ConnectionsTyped
  <2>3. LinkTypes' /\ FlagsTyped' /\ HoldsCurrent
    <3>1. LinkTypes' /\ HoldsCurrent
      BY <2>1 DEF LinkTypes, HoldsCurrent
    <3>2. FlagsTyped'
      BY <2>1 DEF ConnectorEnds, FlagsTyped
    <3> QED BY <3>1, <3>2
  <2> QED BY <2>1, <2>2, <2>3, EndKeepsRuns
<1>8. ASSUME NEW i \in Refreshers, NEW fails \in BOOLEAN, RefreshEnds(i, fails)
      PROVE LinkInv' /\ HoldsCurrent
  <2>1. SameConnections
    <3>1. Closes({client}) \/ UNCHANGED connections
      BY <1>8 DEF RefreshEnds
    <3> QED BY <3>1, ClosesKeeps DEF ConnectionsTyped
  <2>2. /\ ConnectionsTyped' /\ ConnectorsTyped'
        /\ EnrolmentsTyped' /\ LinkTypes' /\ FlowsTyped'
    BY <1>8, <2>1 DEF RefreshEnds, NoRefresher, NoJoin, Asks, SameConnections,
                      ConnectionsTyped, ConnectorsTyped, EnrolmentsTyped,
                      LinkTypes, FlowsTyped, AsksAreOfHome
  <2>3. FlagsTyped'
    BY <1>8, <2>1 DEF RefreshEnds, NoRefresher, SameConnections, FlagsTyped
  <2>4. AsksAreOfHome' /\ EnrolmentGranted'
    BY <1>8, <2>1 DEF RefreshEnds, NoRefresher, NoJoin, Asks, SameConnections,
                      EnrolmentsTyped, LinkTypes, FlowsTyped, AsksAreOfHome,
                      EnrolmentGranted
  <2>5. OneConnects'
    BY <1>8, <2>1 DEF RefreshEnds, NoConnector, NoRefresher, SameConnections,
                      LinkTypes, OneConnects
  <2>6. OpenedAsAsked' /\ HoldsCurrent
    BY <1>8, <2>1 DEF RefreshEnds, NoConnector, NoRefresher, SameConnections,
                      LinkTypes, OneConnects, OpenedAsAsked, HoldsCurrent
  <2> QED BY <2>1, <2>2, <2>3, <2>4, <2>5, <2>6
<1>9. ASSUME NEW c \in DOMAIN connections, SocketCloses(c)
      PROVE LinkInv' /\ HoldsCurrent
  <2>1. SameConnections
    <3>1. Closes({c}) \/ UNCHANGED connections
      BY <1>9 DEF SocketCloses, flowVars
    <3> QED BY <3>1, ClosesKeeps DEF ConnectionsTyped
  <2>2. /\ ConnectionsTyped' /\ ConnectorsTyped'
        /\ EnrolmentsTyped' /\ LinkTypes' /\ FlowsTyped'
    BY <1>9, <2>1 DEF SocketCloses, NoJoin, Asks, flowVars, SameConnections,
                      ConnectionsTyped, ConnectorsTyped, EnrolmentsTyped,
                      LinkTypes, FlowsTyped, AsksAreOfHome
  <2>3. FlagsTyped'
    BY <1>9, <2>1 DEF SocketCloses, flowVars, SameConnections, FlagsTyped
  <2>4. AsksAreOfHome' /\ EnrolmentGranted'
    BY <1>9, <2>1 DEF SocketCloses, NoJoin, Asks, flowVars, SameConnections,
                      EnrolmentsTyped, LinkTypes, FlowsTyped, AsksAreOfHome,
                      EnrolmentGranted
  <2>5. OneConnects'
    BY <1>9, <2>1 DEF SocketCloses, NoConnector, flowVars, SameConnections,
                      LinkTypes, OneConnects
  <2>6. OpenedAsAsked' /\ HoldsCurrent
    BY <1>9, <2>1 DEF SocketCloses, NoConnector, flowVars, SameConnections,
                      LinkTypes, OneConnects, OpenedAsAsked, HoldsCurrent
  <2> QED BY <2>1, <2>2, <2>3, <2>4, <2>5, <2>6
<1>10. ASSUME StartJoin PROVE LinkInv' /\ HoldsCurrent
  <2>1. /\ ConnectionsTyped' /\ ConnectorsTyped'
        /\ EnrolmentsTyped' /\ LinkTypes' /\ FlowsTyped'
    BY <1>10 DEF StartJoin, NoJoin, Asks, ConnectionsTyped, ConnectorsTyped,
                 EnrolmentsTyped, LinkTypes, FlowsTyped, AsksAreOfHome
  <2>2. FlagsTyped'
    BY <1>10 DEF StartJoin, NoJoin, FlagsTyped
  <2>3. AsksAreOfHome' /\ EnrolmentGranted'
    BY <1>10 DEF StartJoin, NoJoin, Asks, EnrolmentsTyped, LinkTypes, FlowsTyped,
                 AsksAreOfHome, EnrolmentGranted
  <2>4. OneConnects'
    BY <1>10 DEF StartJoin, NoConnector, NoJoin, LinkTypes, OneConnects
  <2>5. OpenedAsAsked' /\ HoldsCurrent
    BY <1>10 DEF StartJoin, NoConnector, NoJoin, LinkTypes, OneConnects,
                 OpenedAsAsked, HoldsCurrent
  <2> QED BY <2>1, <2>2, <2>3, <2>4, <2>5
<1>11. ASSUME NEW ask \in Asks, TakeEnrolment(ask) PROVE LinkInv' /\ HoldsCurrent
  <2>1. /\ ConnectionsTyped' /\ ConnectorsTyped'
        /\ EnrolmentsTyped' /\ LinkTypes' /\ FlowsTyped'
    BY <1>11 DEF TakeEnrolment, NoJoin, Asks, ConnectionsTyped, ConnectorsTyped,
                 EnrolmentsTyped, LinkTypes, FlowsTyped, AsksAreOfHome
  <2>2. FlagsTyped'
    BY <1>11 DEF TakeEnrolment, NoJoin, FlagsTyped
  <2>3. AsksAreOfHome' /\ EnrolmentGranted'
    BY <1>11 DEF TakeEnrolment, NoJoin, Asks, EnrolmentsTyped, LinkTypes,
                 FlowsTyped, AsksAreOfHome, EnrolmentGranted
  <2>4. OneConnects'
    BY <1>11 DEF TakeEnrolment, NoConnector, NoJoin, LinkTypes, OneConnects
  <2>5. OpenedAsAsked' /\ HoldsCurrent
    BY <1>11 DEF TakeEnrolment, NoConnector, NoJoin, LinkTypes, OneConnects,
                 OpenedAsAsked, HoldsCurrent
  <2> QED BY <2>1, <2>2, <2>3, <2>4, <2>5
<1>12. ASSUME NEW ask \in Asks, JoinFails(ask) PROVE LinkInv' /\ HoldsCurrent
  <2>1. /\ ConnectionsTyped' /\ ConnectorsTyped'
        /\ EnrolmentsTyped' /\ LinkTypes' /\ FlowsTyped'
    BY <1>12 DEF JoinFails, NoJoin, Asks, ConnectionsTyped, ConnectorsTyped,
                 EnrolmentsTyped, LinkTypes, FlowsTyped, AsksAreOfHome
  <2>2. FlagsTyped'
    BY <1>12 DEF JoinFails, NoJoin, FlagsTyped
  <2>3. AsksAreOfHome' /\ EnrolmentGranted'
    BY <1>12 DEF JoinFails, NoJoin, Asks, EnrolmentsTyped, LinkTypes, FlowsTyped,
                 AsksAreOfHome, EnrolmentGranted
  <2>4. OneConnects'
    BY <1>12 DEF JoinFails, NoConnector, NoJoin, LinkTypes, OneConnects
  <2>5. OpenedAsAsked' /\ HoldsCurrent
    BY <1>12 DEF JoinFails, NoConnector, NoJoin, LinkTypes, OneConnects,
                 OpenedAsAsked, HoldsCurrent
  <2> QED BY <2>1, <2>2, <2>3, <2>4, <2>5
<1>13. ASSUME StartLeave PROVE LinkInv' /\ HoldsCurrent
  <2>1. /\ ConnectionsTyped' /\ ConnectorsTyped'
        /\ EnrolmentsTyped' /\ LinkTypes' /\ FlowsTyped'
    BY <1>13 DEF StartLeave, NoJoin, NoLeave, Asks, ConnectionsTyped,
                 ConnectorsTyped, EnrolmentsTyped, LinkTypes, FlowsTyped,
                 AsksAreOfHome
  <2>2. FlagsTyped'
    BY <1>13 DEF StartLeave, NoLeave, FlagsTyped
  <2>3. AsksAreOfHome' /\ EnrolmentGranted'
    BY <1>13 DEF StartLeave, NoJoin, NoLeave, Asks, EnrolmentsTyped, LinkTypes,
                 FlowsTyped, AsksAreOfHome, EnrolmentGranted
  <2>4. OneConnects'
    BY <1>13 DEF StartLeave, NoConnector, NoLeave, LinkTypes, OneConnects
  <2>5. OpenedAsAsked' /\ HoldsCurrent
    BY <1>13 DEF StartLeave, NoConnector, NoLeave, LinkTypes, OneConnects,
                 OpenedAsAsked, HoldsCurrent
  <2> QED BY <2>1, <2>2, <2>3, <2>4, <2>5
<1>14. ASSUME Refused PROVE LinkInv' /\ HoldsCurrent
  <2>1. /\ ConnectionsTyped' /\ ConnectorsTyped'
        /\ EnrolmentsTyped' /\ LinkTypes' /\ FlowsTyped'
    BY <1>14 DEF Refused, NoJoin, NoLeave, Asks, ConnectionsTyped, ConnectorsTyped,
                 EnrolmentsTyped, LinkTypes, FlowsTyped, AsksAreOfHome
  <2>2. FlagsTyped'
    BY <1>14 DEF Refused, NoLeave, FlagsTyped
  <2>3. AsksAreOfHome' /\ EnrolmentGranted'
    BY <1>14 DEF Refused, NoJoin, NoLeave, Asks, EnrolmentsTyped, LinkTypes,
                 FlowsTyped, AsksAreOfHome, EnrolmentGranted
  <2>4. OneConnects'
    BY <1>14 DEF Refused, NoConnector, NoLeave, LinkTypes, OneConnects
  <2>5. OpenedAsAsked' /\ HoldsCurrent
    BY <1>14 DEF Refused, NoConnector, NoLeave, LinkTypes, OneConnects,
                 OpenedAsAsked, HoldsCurrent
  <2> QED BY <2>1, <2>2, <2>3, <2>4, <2>5
<1>15. ASSUME DetachOffline PROVE LinkInv' /\ HoldsCurrent
  <2>1. SameConnections
    <3>1. Closes(DOMAIN connections)
      BY <1>15 DEF DetachOffline, ClearEnrolment, EndsEpoch
    <3> QED BY <3>1, ClosesKeeps DEF ConnectionsTyped
  <2>2. /\ ConnectionsTyped' /\ ConnectorsTyped'
        /\ EnrolmentsTyped' /\ LinkTypes' /\ FlowsTyped'
    BY <1>15, <2>1 DEF DetachOffline, ClearEnrolment, EndsEpoch, NoJoin, NoLeave, Asks,
                       SameConnections, ConnectionsTyped, ConnectorsTyped,
                       EnrolmentsTyped, LinkTypes, FlowsTyped, AsksAreOfHome
  <2>3. FlagsTyped'
    BY <1>15, <2>1 DEF DetachOffline, ClearEnrolment, EndsEpoch, NoLeave, SameConnections, FlagsTyped
  <2>4. AsksAreOfHome' /\ EnrolmentGranted'
    BY <1>15, <2>1 DEF DetachOffline, ClearEnrolment, EndsEpoch, NoJoin, NoLeave, Asks,
                       SameConnections, EnrolmentsTyped, LinkTypes, FlowsTyped,
                       AsksAreOfHome, EnrolmentGranted
  <2>5. OneConnects'
    BY <1>15, <2>1 DEF DetachOffline, ClearEnrolment, EndsEpoch, NoConnector, NoLeave,
                       ConnectionRecords, ConnectorRecords, SameConnections,
                       ConnectionsTyped, ConnectorsTyped, LinkTypes, OneConnects
  <2>6. OpenedAsAsked' /\ HoldsCurrent
    BY <1>15, <2>1 DEF DetachOffline, ClearEnrolment, EndsEpoch, NoConnector, NoLeave,
                       SameConnections, LinkTypes, OneConnects, OpenedAsAsked,
                       HoldsCurrent
  <2> QED BY <2>1, <2>2, <2>3, <2>4, <2>5, <2>6
<1>16. ASSUME Leave PROVE LinkInv' /\ HoldsCurrent
  <2>1. SameConnections
    <3>1. Closes(DOMAIN connections)
      BY <1>16 DEF Leave, ClearEnrolment, EndsEpoch
    <3> QED BY <3>1, ClosesKeeps DEF ConnectionsTyped
  <2>2. /\ ConnectionsTyped' /\ ConnectorsTyped'
        /\ EnrolmentsTyped' /\ LinkTypes' /\ FlowsTyped'
    BY <1>16, <2>1 DEF Leave, ClearEnrolment, EndsEpoch, NoJoin, NoLeave, Asks,
                       SameConnections, ConnectionsTyped, ConnectorsTyped,
                       EnrolmentsTyped, LinkTypes, FlowsTyped, AsksAreOfHome
  <2>3. FlagsTyped'
    BY <1>16, <2>1 DEF Leave, ClearEnrolment, EndsEpoch, NoLeave, SameConnections, FlagsTyped
  <2>4. AsksAreOfHome' /\ EnrolmentGranted'
    BY <1>16, <2>1 DEF Leave, ClearEnrolment, EndsEpoch, NoJoin, NoLeave, Asks,
                       SameConnections, EnrolmentsTyped, LinkTypes, FlowsTyped,
                       AsksAreOfHome, EnrolmentGranted
  <2>5. OneConnects'
    BY <1>16, <2>1 DEF Leave, ClearEnrolment, EndsEpoch, NoConnector, NoLeave,
                       ConnectionRecords, ConnectorRecords, SameConnections,
                       ConnectionsTyped, ConnectorsTyped, LinkTypes, OneConnects
  <2>6. OpenedAsAsked' /\ HoldsCurrent
    BY <1>16, <2>1 DEF Leave, ClearEnrolment, EndsEpoch, NoConnector, NoLeave,
                       SameConnections, LinkTypes, OneConnects, OpenedAsAsked,
                       HoldsCurrent
  <2> QED BY <2>1, <2>2, <2>3, <2>4, <2>5, <2>6
<1>17. ASSUME NEW s \in Homes, SwitchSession(s) PROVE LinkInv' /\ HoldsCurrent
  <2>1. SameConnections
    <3>1. Closes(DOMAIN connections)
      BY <1>17 DEF SwitchSession, ClearEnrolment, EndsEpoch
    <3> QED BY <3>1, ClosesKeeps DEF ConnectionsTyped
  <2>2. /\ ConnectionsTyped' /\ ConnectorsTyped'
        /\ EnrolmentsTyped' /\ LinkTypes' /\ FlowsTyped'
    BY <1>17, <2>1 DEF SwitchSession, ClearEnrolment, EndsEpoch, NoJoin, Asks, flowVars,
                       SameConnections, ConnectionsTyped, ConnectorsTyped,
                       EnrolmentsTyped, LinkTypes, FlowsTyped, AsksAreOfHome
  <2>3. FlagsTyped'
    BY <1>17, <2>1 DEF SwitchSession, ClearEnrolment, EndsEpoch, flowVars, SameConnections,
                       FlagsTyped
  <2>4. AsksAreOfHome' /\ EnrolmentGranted'
    BY <1>17, <2>1 DEF SwitchSession, ClearEnrolment, EndsEpoch, NoJoin, Asks, flowVars,
                       SameConnections, EnrolmentsTyped, LinkTypes, FlowsTyped,
                       AsksAreOfHome, EnrolmentGranted
  <2>5. OneConnects'
    BY <1>17, <2>1 DEF SwitchSession, ClearEnrolment, EndsEpoch, NoConnector, flowVars,
                       ConnectionRecords, ConnectorRecords, SameConnections,
                       ConnectionsTyped, ConnectorsTyped, LinkTypes, OneConnects
  <2>6. OpenedAsAsked' /\ HoldsCurrent
    BY <1>17, <2>1 DEF SwitchSession, ClearEnrolment, EndsEpoch, NoConnector, flowVars,
                       SameConnections, LinkTypes, OneConnects, OpenedAsAsked,
                       HoldsCurrent
  <2> QED BY <2>1, <2>2, <2>3, <2>4, <2>5, <2>6
<1>18. ASSUME NEW s \in Homes, NEW reload \in BOOLEAN, StartSession(s, reload)
      PROVE LinkInv' /\ HoldsCurrent
  <2>1. /\ ConnectionsTyped' /\ ConnectorsTyped'
        /\ EnrolmentsTyped' /\ LinkTypes' /\ FlowsTyped'
    BY <1>18 DEF StartSession, NoJoin, Asks, ConnectionsTyped, ConnectorsTyped,
                 EnrolmentsTyped, LinkTypes, FlowsTyped, AsksAreOfHome
  <2>2. FlagsTyped'
    BY <1>18 DEF StartSession, NoJoin, FlagsTyped
  <2>3. AsksAreOfHome' /\ EnrolmentGranted'
    BY <1>18 DEF StartSession, NoJoin, Asks, EnrolmentsTyped, LinkTypes,
                 FlowsTyped, AsksAreOfHome, EnrolmentGranted
  <2>4. OneConnects'
    BY <1>18 DEF StartSession, NoConnector, NoJoin, LinkTypes, OneConnects
  <2>5. OpenedAsAsked' /\ HoldsCurrent
    BY <1>18 DEF StartSession, NoConnector, NoJoin, LinkTypes, OneConnects,
                 OpenedAsAsked, HoldsCurrent
  <2> QED BY <2>1, <2>2, <2>3, <2>4, <2>5
<1>19. ASSUME Shutdown PROVE LinkInv' /\ HoldsCurrent
  <2>1. SameConnections
    <3>1. Closes(DOMAIN connections)
      BY <1>19 DEF Shutdown, EndsEpoch
    <3> QED BY <3>1, ClosesKeeps DEF ConnectionsTyped
  <2>2. /\ ConnectionsTyped' /\ ConnectorsTyped'
        /\ EnrolmentsTyped' /\ LinkTypes' /\ FlowsTyped'
    BY <1>19, <2>1 DEF Shutdown, EndsEpoch, NoJoin, Asks, flowVars,
                       SameConnections, ConnectionsTyped, ConnectorsTyped,
                       EnrolmentsTyped, LinkTypes, FlowsTyped, AsksAreOfHome
  <2>3. FlagsTyped'
    BY <1>19, <2>1 DEF Shutdown, EndsEpoch, NoJoin, flowVars, SameConnections,
                       FlagsTyped
  <2>4. AsksAreOfHome' /\ EnrolmentGranted'
    BY <1>19, <2>1 DEF Shutdown, EndsEpoch, NoJoin, Asks, flowVars,
                       SameConnections, EnrolmentsTyped, LinkTypes, FlowsTyped,
                       AsksAreOfHome, EnrolmentGranted
  <2>5. OneConnects'
    BY <1>19, <2>1 DEF Shutdown, EndsEpoch, NoConnector, NoJoin, flowVars,
                       ConnectionRecords, ConnectorRecords, SameConnections,
                       ConnectionsTyped, ConnectorsTyped, LinkTypes, OneConnects
  <2>6. OpenedAsAsked' /\ HoldsCurrent
    BY <1>19, <2>1 DEF Shutdown, EndsEpoch, NoConnector, NoJoin, flowVars,
                       SameConnections, LinkTypes, OneConnects, OpenedAsAsked,
                       HoldsCurrent
  <2> QED BY <2>1, <2>2, <2>3, <2>4, <2>5, <2>6
<1>20. ASSUME Beat
      PROVE LinkInv' /\ HoldsCurrent
  <2>1. SameConnections
    <3>1. client \in 1..Len(connections)
      BY <1>20 DEF Beat, LinkTypes, OpenedAsAsked
    <3>2. connections' = [connections EXCEPT ![client].beat = TRUE,
                                             ![client].open = @ /\ ~FALSE]
      <4>1. connections[client] \in ConnectionRecords
        BY <3>1 DEF ConnectionsTyped
      <4>2. [connections[client] EXCEPT !.beat = TRUE]
              = [connections[client] EXCEPT !.beat = TRUE, !.open = @ /\ ~FALSE]
        BY <4>1 DEF ConnectionRecords
      <4> QED BY <1>20, <3>1, <4>2 DEF Beat, ConnectionsTyped
    <3> QED BY <3>1, <3>2, BeatsKeep DEF ConnectionsTyped
  <2>2. /\ ConnectionsTyped' /\ ConnectorsTyped'
        /\ EnrolmentsTyped' /\ LinkTypes' /\ FlowsTyped'
    BY <1>20, <2>1 DEF Beat, NoJoin, Asks, flowVars, SameConnections,
                      ConnectionsTyped, ConnectorsTyped, EnrolmentsTyped,
                      LinkTypes, FlowsTyped, AsksAreOfHome
  <2>3. FlagsTyped'
    BY <1>20, <2>1 DEF Beat, flowVars, SameConnections, FlagsTyped
  <2>4. AsksAreOfHome' /\ EnrolmentGranted'
    BY <1>20, <2>1 DEF Beat, NoJoin, Asks, flowVars, SameConnections,
                      EnrolmentsTyped, LinkTypes, FlowsTyped, AsksAreOfHome,
                      EnrolmentGranted
  <2>5. OneConnects'
    BY <1>20, <2>1 DEF Beat, NoConnector, flowVars, SameConnections,
                      LinkTypes, OneConnects
  <2>6. OpenedAsAsked' /\ HoldsCurrent
    BY <1>20, <2>1 DEF Beat, NoConnector, flowVars, SameConnections,
                      LinkTypes, OneConnects, OpenedAsAsked, HoldsCurrent
  <2> QED BY <2>1, <2>2, <2>3, <2>4, <2>5, <2>6
<1>21. ASSUME NEW c \in DOMAIN connections, NEW fails \in BOOLEAN, BeatEnds(c, fails)
      PROVE LinkInv' /\ HoldsCurrent
  <2>1. SameConnections
    <3>1. c \in 1..Len(connections)
      BY DEF ConnectionsTyped
    <3>2. (fails /\ client = c) \in BOOLEAN
      OBVIOUS
    <3>3. connections' = [connections EXCEPT ![c].beat = FALSE,
                                    ![c].open = @ /\ ~(fails /\ client = c)]
      BY <1>21 DEF BeatEnds
    <3> QED BY <3>1, <3>2, <3>3, BeatsKeep DEF ConnectionsTyped
  <2>2. /\ ConnectionsTyped' /\ ConnectorsTyped'
        /\ EnrolmentsTyped' /\ LinkTypes' /\ FlowsTyped'
    BY <1>21, <2>1 DEF BeatEnds, NoJoin, Asks, flowVars, SameConnections,
                      ConnectionsTyped, ConnectorsTyped, EnrolmentsTyped,
                      LinkTypes, FlowsTyped, AsksAreOfHome
  <2>3. FlagsTyped'
    BY <1>21, <2>1 DEF BeatEnds, flowVars, SameConnections, FlagsTyped
  <2>4. AsksAreOfHome' /\ EnrolmentGranted'
    BY <1>21, <2>1 DEF BeatEnds, NoJoin, Asks, flowVars, SameConnections,
                      EnrolmentsTyped, LinkTypes, FlowsTyped, AsksAreOfHome,
                      EnrolmentGranted
  <2>5. OneConnects'
    BY <1>21, <2>1 DEF BeatEnds, NoConnector, flowVars, SameConnections,
                      LinkTypes, OneConnects
  <2>6. OpenedAsAsked' /\ HoldsCurrent
    BY <1>21, <2>1 DEF BeatEnds, NoConnector, flowVars, SameConnections,
                      LinkTypes, OneConnects, OpenedAsAsked, HoldsCurrent
  <2> QED BY <2>1, <2>2, <2>3, <2>4, <2>5, <2>6
<1> QED BY <1>1, <1>2, <1>3, <1>4, <1>5, <1>6, <1>7, <1>8, <1>9,
           <1>10, <1>11, <1>12, <1>13, <1>14, <1>15, <1>16, <1>17, <1>18, <1>19,
           <1>20, <1>21
        DEF LinkNext

\* A step that changes nothing keeps the invariant and holds nothing new.
LEMMA StutterKeepsLinkInv == LinkInv /\ UNCHANGED linkVars => LinkInv' /\ HoldsCurrent
BY DEF LinkInv, linkVars, flowVars, ConnectionsTyped, ConnectorsTyped,
       EnrolmentsTyped, LinkTypes, FlagsTyped, FlowsTyped, AsksAreOfHome, EnrolmentGranted,
       OneConnects, OpenedAsAsked, HoldsCurrent

\* The invariant gives the two state properties of the link.
LEMMA LinkInvImplies == LinkInv => EnrolmentIsOfSession /\ ConnectingIsTrue
<1> SUFFICES ASSUME LinkInv PROVE EnrolmentIsOfSession /\ ConnectingIsTrue
  OBVIOUS
<1> USE DEF LinkInv
<1>1. EnrolmentIsOfSession
  BY DEF EnrolmentGranted, EnrolmentIsOfSession
<1>2. ConnectingIsTrue
  BY DEF ConnectorsTyped, LinkTypes, OneConnects, ConnectingIsTrue, NoConnector,
         ConnectorRecords
<1> QED BY <1>1, <1>2

(***************************************************************************)
(* HeldIsOpen.  A connect takes its connection only while it is open: what *)
(* closes a connection of the present epoch is either the end of the epoch *)
(* or a step that also drops it.                                           *)
(***************************************************************************)

\* No connection is of an epoch to come.
EpochsPast == \A c \in 1..Len(connections) : connections[c].epoch <= epoch

\* A connect of this epoch that has just opened a connection finds it open and
\* is the only one that has it.
OpenedIsOpen ==
    \A i \in Connectors : connectors[i].at = "opened" /\ connectors[i].epoch = epoch =>
        /\ connections[connectors[i].connection].open
        /\ connectors[i].connection # client

OpenInv == EpochsPast /\ OpenedIsOpen /\ HeldIsOpen

\* Only the connections that are named are closed.
LEMMA ClosesOnly ==
    ASSUME connections \in Seq(ConnectionRecords), NEW C, Closes(C)
    PROVE  \A c \in 1..Len(connections) : c \notin C => connections'[c] = connections[c]
BY DEF Closes

\* A step within the epoch that closes only what it drops, and that nobody has
\* just opened, keeps what is held open.
LEMMA DropKeepsOpen ==
    ASSUME LinkInv, OpenInv, UNCHANGED epoch, SameConnections, client' \in {client, 0},
           \A i \in Connectors : connectors'[i].at = "opened" => connectors'[i] = connectors[i],
           \A c \in 1..Len(connections) :
             connections[c].open /\ connections[c].epoch = epoch /\ ~connections'[c].open
             => /\ client' # c
                /\ \A i \in Connectors :
                     connectors'[i].at = "opened" => connectors'[i].connection # c
    PROVE  OpenInv'
<1>1. EpochsPast'
  BY DEF OpenInv, EpochsPast, SameConnections
<1>2. OpenedIsOpen'
  <2> SUFFICES ASSUME NEW i \in Connectors,
                      connectors'[i].at = "opened", connectors'[i].epoch = epoch
               PROVE  /\ connections'[connectors'[i].connection].open
                      /\ connectors'[i].connection # client'
    BY DEF OpenedIsOpen
  <2>1. /\ connectors'[i] = connectors[i]
        /\ connections[connectors[i].connection].open
        /\ connectors[i].connection # client
        /\ connectors[i].connection \in 1..Len(connections)
        /\ connections[connectors[i].connection].epoch = epoch
    BY DEF OpenInv, OpenedIsOpen, LinkInv, OpenedAsAsked
  <2>2. connectors[i].connection # client'
    BY <2>1 DEF LinkInv, LinkTypes
  <2> QED BY <2>1, <2>2
<1>3. HeldIsOpen'
  <2> SUFFICES ASSUME client' # 0, connections'[client'].epoch = epoch
               PROVE  connections'[client'].open
    BY DEF HeldIsOpen
  <2>1. client' = client /\ client \in 1..Len(connections)
    BY DEF LinkInv, OpenedAsAsked, LinkTypes, ConnectionsTyped
  <2>2. connections[client].epoch = epoch
    BY <2>1 DEF SameConnections
  <2>3. connections[client].open
    BY <2>1, <2>2 DEF OpenInv, HeldIsOpen
  <2> QED BY <2>1, <2>2, <2>3
<1> QED BY <1>1, <1>2, <1>3 DEF OpenInv

\* Nothing that was held or opened is of the epoch that begins.
LEMMA EpochEndKeepsOpen ==
    ASSUME LinkInv, OpenInv, EndsEpoch, UNCHANGED connectors, client' \in {client, 0}
    PROVE  OpenInv'
<1>1. SameConnections /\ epoch' = epoch + 1 /\ epoch \in Nat
  BY ClosesKeeps DEF EndsEpoch, LinkInv, ConnectionsTyped, LinkTypes
<1>2. \A c \in 1..Len(connections) :
        connections'[c].epoch \in Nat /\ connections'[c].epoch <= epoch
  <2>1. \A c \in 1..Len(connections) : connections[c] \in ConnectionRecords
    BY DEF LinkInv, ConnectionsTyped
  <2> QED BY <1>1, <2>1 DEF OpenInv, EpochsPast, SameConnections, ConnectionRecords
<1>3. EpochsPast'
  BY <1>1, <1>2 DEF EpochsPast, SameConnections
<1>4. OpenedIsOpen'
  <2>1. \A i \in Connectors : connectors[i].epoch <= epoch /\ connectors[i].epoch \in Nat
    BY DEF LinkInv, OneConnects, ConnectorsTyped, ConnectorRecords
  <2> QED BY <1>1, <2>1 DEF OpenedIsOpen
<1>5. HeldIsOpen'
  <2>1. client' # 0 => client' \in 1..Len(connections)
    BY DEF LinkInv, OpenedAsAsked, LinkTypes, ConnectionsTyped
  <2> QED BY <1>1, <1>2, <2>1 DEF HeldIsOpen
<1> QED BY <1>3, <1>4, <1>5 DEF OpenInv

\* A step that leaves the connections and what runs as they are.
LEMMA QuietKeepsOpen ==
    ASSUME LinkInv, OpenInv, UNCHANGED <<epoch, client, connections>>,
           \A i \in Connectors : connectors'[i].at = "opened" => connectors'[i] = connectors[i]
    PROVE  OpenInv'
<1>1. SameConnections
  BY DEF SameConnections, LinkInv, ConnectionsTyped
<1> QED BY <1>1, DropKeepsOpen

\* Dropping the client closes it; no connect has just opened it.
LEMMA DropClientKeepsOpen ==
    ASSUME LinkInv, OpenInv, UNCHANGED epoch, SameConnections, client' = 0,
           \A c \in 1..Len(connections) :
             c # client => connections'[c].open = connections[c].open,
           \A i \in Connectors : connectors'[i].at = "opened" => connectors'[i] = connectors[i]
    PROVE  OpenInv'
<1>1. ASSUME NEW c \in 1..Len(connections),
             connections[c].open, connections[c].epoch = epoch, ~connections'[c].open
      PROVE  /\ client' # c
             /\ \A i \in Connectors :
                  connectors'[i].at = "opened" => connectors'[i].connection # c
  <2>1. c = client
    BY <1>1
  <2>2. \A i \in Connectors :
          connectors'[i].at = "opened" => connectors'[i].connection # c
    BY <1>1, <2>1 DEF LinkInv, OpenedAsAsked, OpenInv, OpenedIsOpen
  <2> QED BY <2>2
<1> QED BY <1>1, DropKeepsOpen

\* Every step keeps what is held open.
LEMMA StepKeepsOpenInv == LinkInv /\ OpenInv /\ LinkNext => OpenInv'
<1> SUFFICES ASSUME LinkInv, OpenInv, LinkNext PROVE OpenInv'
  OBVIOUS
<1>0. /\ connections \in Seq(ConnectionRecords)
      /\ connectors \in [Connectors -> ConnectorRecords]
      /\ client \in Nat /\ epoch \in Nat
  BY DEF LinkInv, ConnectionsTyped, ConnectorsTyped, LinkTypes
<1>1. ASSUME \/ StartRefresh \/ StartJoin \/ StartLeave \/ Refused
             \/ \E ask \in Asks : TakeEnrolment(ask) \/ JoinFails(ask)
             \/ \E s \in Homes, reload \in BOOLEAN : StartSession(s, reload)
      PROVE  OpenInv'
  <2>1. UNCHANGED <<epoch, client, connections, connectors>>
    BY <1>1 DEF StartRefresh, StartJoin, StartLeave, Refused, TakeEnrolment, JoinFails,
                StartSession
  <2> QED BY <2>1, QuietKeepsOpen
<1>2. ASSUME DetachOffline \/ Leave \/ Shutdown \/ \E s \in Homes : SwitchSession(s)
      PROVE  OpenInv'
  <2>1. EndsEpoch /\ UNCHANGED connectors /\ client' \in {client, 0}
    BY <1>2 DEF DetachOffline, Leave, Shutdown, SwitchSession, ClearEnrolment, flowVars
  <2> QED BY <2>1, EpochEndKeepsOpen
<1>3. ASSUME StartConnect PROVE OpenInv'
  <2> DEFINE k == CHOOSE k \in FreeConnectors : TRUE
             run == [NoConnector EXCEPT !.at = "ensuring", !.epoch = epoch,
                                        !.credential = credential]
  <2>1. run.at = "ensuring"
    BY DEF NoConnector
  <2>2. connectors' = [connectors EXCEPT ![k] = run] /\ UNCHANGED <<epoch, client, connections>>
    BY <1>3 DEF StartConnect
  <2> HIDE DEF k, run
  <2>3. \A i \in Connectors : connectors'[i].at = "opened" => connectors'[i] = connectors[i]
    BY <1>0, <2>1, <2>2
  <2> QED BY <2>2, <2>3, QuietKeepsOpen
<1>4. ASSUME NEW i \in Connectors, Ensured(i) \/ Greeted(i) \/ ConnectFails(i)
      PROVE  OpenInv'
  <2>1. /\ UNCHANGED epoch
        /\ \/ UNCHANGED <<client, connections>>
           \/ client' = 0 /\ Closes({client})
    BY <1>4 DEF Ensured, Greeted, ConnectFails
  <2>2. \A j \in Connectors : connectors'[j].at = "opened" => connectors'[j] = connectors[j]
    <3>1. \/ connectors' = [connectors EXCEPT ![i] = NoConnector]
          \/ connectors' = [connectors EXCEPT ![i].at = "opening"]
      BY <1>4 DEF Ensured, Greeted, ConnectFails, ConnectorEnds
    <3>2. connectors'[i].at # "opened" /\ \A j \in Connectors \ {i} :
            connectors'[j] = connectors[j]
      BY <1>0, <3>1 DEF NoConnector, ConnectorRecords
    <3> QED BY <3>2
  <2>3. CASE UNCHANGED <<client, connections>>
    BY <2>1, <2>2, <2>3, QuietKeepsOpen
  <2>4. CASE client' = 0 /\ Closes({client})
    <3>1. SameConnections
      BY <1>0, <2>4, ClosesKeeps
    <3>2. \A c \in 1..Len(connections) :
            c # client => connections'[c].open = connections[c].open
      BY <1>0, <2>4, ClosesOnly
    <3> QED BY <2>1, <2>2, <2>4, <3>1, <3>2, DropClientKeepsOpen
  <2> QED BY <2>1, <2>3, <2>4
<1>5. ASSUME NEW i \in Refreshers, NEW fails \in BOOLEAN, RefreshEnds(i, fails)
      PROVE  OpenInv'
  <2>1. /\ UNCHANGED <<epoch, connectors>>
        /\ \/ UNCHANGED <<client, connections>>
           \/ client' = 0 /\ Closes({client})
    BY <1>5 DEF RefreshEnds
  <2>2. CASE UNCHANGED <<client, connections>>
    BY <2>1, <2>2, QuietKeepsOpen
  <2>3. CASE client' = 0 /\ Closes({client})
    <3>1. SameConnections
      BY <1>0, <2>3, ClosesKeeps
    <3>2. \A c \in 1..Len(connections) :
            c # client => connections'[c].open = connections[c].open
      BY <1>0, <2>3, ClosesOnly
    <3> QED BY <2>1, <2>3, <3>1, <3>2, DropClientKeepsOpen
  <2> QED BY <2>1, <2>2, <2>3
<1>6. ASSUME NEW c \in DOMAIN connections, SocketCloses(c) PROVE OpenInv'
  <2>1. SameConnections
    BY <1>0, <1>6, ClosesKeeps DEF SocketCloses
  <2>2. \A d \in 1..Len(connections) : d # c => connections'[d] = connections[d]
    BY <1>0, <1>6, ClosesOnly DEF SocketCloses
  <2>3. /\ UNCHANGED <<epoch, connectors>> /\ client' \in {client, 0}
        /\ connections[c].epoch = epoch => client' # c
        /\ \A i \in Connectors : connectors[i].at = "opened" => connectors[i].connection # c
    BY <1>0, <1>6 DEF SocketCloses, flowVars
  <2> QED BY <2>1, <2>2, <2>3, DropKeepsOpen
<1>7. ASSUME Beat PROVE OpenInv'
  <2>1. client \in 1..Len(connections)
    BY <1>0, <1>7 DEF Beat, LinkInv, OpenedAsAsked
  <2>2. connections' = [connections EXCEPT ![client].beat = TRUE,
                                           ![client].open = @ /\ ~FALSE]
    <3>1. connections[client] \in ConnectionRecords
      BY <1>0, <2>1
    <3>2. [connections[client] EXCEPT !.beat = TRUE]
            = [connections[client] EXCEPT !.beat = TRUE, !.open = @ /\ ~FALSE]
      BY <3>1 DEF ConnectionRecords
    <3> QED BY <1>0, <1>7, <2>1, <3>2 DEF Beat
  <2>3. SameConnections /\ \A d \in 1..Len(connections) :
                             connections'[d].open = connections[d].open
    BY <1>0, <2>1, <2>2, BeatsKeep
  <2>4. UNCHANGED <<epoch, client, connectors>>
    BY <1>7 DEF Beat, flowVars
  <2> QED BY <2>3, <2>4, DropKeepsOpen
<1>8. ASSUME NEW c \in DOMAIN connections, NEW fails \in BOOLEAN, BeatEnds(c, fails)
      PROVE  OpenInv'
  <2> DEFINE drops == fails /\ client = c
  <2>1. /\ connections' = [connections EXCEPT ![c].beat = FALSE, ![c].open = @ /\ ~drops]
        /\ client' = IF drops THEN 0 ELSE client
        /\ UNCHANGED <<epoch, connectors>>
    BY <1>8 DEF BeatEnds, flowVars
  <2>2. drops \in BOOLEAN /\ (drops => client = c) /\ c \in 1..Len(connections)
    BY <1>0
  <2> HIDE DEF drops
  <2>3. SameConnections /\ \A d \in 1..Len(connections) :
                             d # c \/ ~drops => connections'[d].open = connections[d].open
    BY <1>0, <2>1, <2>2, BeatsKeep
  <2>4. CASE drops
    BY <2>1, <2>2, <2>3, <2>4, DropClientKeepsOpen
  <2>5. CASE ~drops
    BY <2>1, <2>3, <2>5, DropKeepsOpen
  <2> QED BY <2>2, <2>4, <2>5
<1>9. ASSUME NEW i \in Connectors, Opens(i) PROVE OpenInv'
  <2> DEFINE n == Len(connections) + 1
             new == [enrolment |-> connectors[i].credential, epoch |-> connectors[i].epoch,
                     open |-> TRUE, beat |-> FALSE]
  <2>1. /\ connections' = Append(connections, new)
        /\ connectors[i].epoch = epoch /\ UNCHANGED <<epoch, client>>
        /\ connectors' = [connectors EXCEPT ![i].at = "opened", ![i].connection = n]
    <3>1. connections' = Append(connections, new)
      BY <1>9 DEF Opens
    <3>2. Len(connections') = n
      BY <1>0, <3>1
    <3> QED BY <1>9, <3>1, <3>2 DEF Opens
  <2>2. /\ n \in Nat /\ Len(connections') = n /\ connections'[n] = new
        /\ \A c \in 1..Len(connections) : connections'[c] = connections[c] /\ c # n
        /\ \A c \in 1..n : c \in 1..Len(connections) \/ c = n
    BY <1>0, <2>1
  <2>3. new.epoch = epoch /\ new.open
    BY <2>1
  <2>4. client \in 0..Len(connections) /\ client # n
    BY <1>0 DEF LinkInv, OpenedAsAsked
  <2> HIDE DEF n, new
  <2>5. EpochsPast'
    BY <1>0, <2>1, <2>2, <2>3 DEF OpenInv, EpochsPast
  <2>6. HeldIsOpen'
    <3>1. client # 0 => client \in 1..Len(connections)
      BY <1>0, <2>4
    <3> QED BY <2>1, <2>2, <3>1 DEF OpenInv, HeldIsOpen
  <2>7. ASSUME NEW j \in Connectors, connectors'[j].at = "opened", connectors'[j].epoch = epoch
        PROVE  /\ connections'[connectors'[j].connection].open
               /\ connectors'[j].connection # client
    <3>1. CASE j = i
      <4>1. connectors'[j].connection = n
        BY <1>0, <2>1, <3>1 DEF ConnectorRecords
      <4> QED BY <2>2, <2>3, <2>4, <4>1
    <3>2. CASE j # i
      <4>1. connectors'[j] = connectors[j]
        BY <1>0, <2>1, <3>2
      <4> QED BY <2>2, <2>7, <4>1 DEF LinkInv, OpenedAsAsked, OpenInv, OpenedIsOpen
    <3> QED BY <3>1, <3>2
  <2> QED BY <2>1, <2>5, <2>6, <2>7 DEF OpenInv, OpenedIsOpen
<1>10. ASSUME NEW i \in Connectors, Hold(i) PROVE OpenInv'
  <2> DEFINE k == connectors[i]
  <2>1. /\ k.at = "opened" /\ UNCHANGED epoch
        /\ k.connection \in 1..Len(connections)
        /\ connections[k.connection].epoch = k.epoch
    BY <1>10 DEF Hold, LinkInv, OpenedAsAsked
  <2>2. CASE IsCurrent(k)
    <3>1. /\ client' = k.connection /\ UNCHANGED connections
          /\ connectors' = [connectors EXCEPT ![i].at = "greeting"]
      BY <1>10, <2>2 DEF Hold
    <3>2. k.epoch = epoch /\ connections[k.connection].open
      BY <2>1, <2>2 DEF IsCurrent, OpenInv, OpenedIsOpen
    <3>3. \A j \in Connectors : connectors'[j].at # "opened" \/ connectors'[j].epoch # epoch
      <4>1. \A j \in Connectors : connectors[j].at = "opened" /\ connectors[j].epoch = epoch
              => j = i
        BY <2>1, <3>2 DEF LinkInv, OneConnects
      <4>2. /\ connectors'[i].at = "greeting"
            /\ \A j \in Connectors : j # i => connectors'[j] = connectors[j]
        BY <1>0, <3>1 DEF ConnectorRecords
      <4> QED BY <4>1, <4>2
    <3>4. EpochsPast' /\ HeldIsOpen'
      BY <2>1, <3>1, <3>2 DEF OpenInv, EpochsPast, HeldIsOpen
    <3>5. OpenedIsOpen'
      BY <2>1, <3>3 DEF OpenedIsOpen
    <3> QED BY <3>4, <3>5 DEF OpenInv
  <2>3. CASE ~IsCurrent(k)
    <3>1. Closes({k.connection}) /\ ConnectorEnds(i) /\ UNCHANGED client
      BY <1>10, <2>3 DEF Hold
    <3>2. SameConnections
      BY <1>0, <3>1, ClosesKeeps
    <3>3. \A c \in 1..Len(connections) : c # k.connection => connections'[c] = connections[c]
      BY <1>0, <3>1, ClosesOnly
    <3>4. \A j \in Connectors : connectors'[j].at = "opened" =>
            j # i /\ connectors'[j] = connectors[j]
      BY <1>0, <3>1 DEF ConnectorEnds, NoConnector
    <3>5. ASSUME k.epoch = epoch
          PROVE  /\ client # k.connection
                 /\ \A j \in Connectors : connectors'[j].at = "opened" =>
                      connectors'[j].connection # k.connection
      <4>1. client # k.connection
        BY <2>1, <3>5 DEF OpenInv, OpenedIsOpen
      <4>2. ASSUME NEW j \in Connectors, connectors'[j].at = "opened",
                   connectors'[j].connection = k.connection
            PROVE  FALSE
        <5>1. connectors[j].at = "opened" /\ connectors[j].epoch = epoch /\ j # i
          BY <2>1, <3>4, <3>5, <4>2 DEF LinkInv, OpenedAsAsked
        <5> QED BY <2>1, <3>5, <5>1 DEF LinkInv, OneConnects
      <4> QED BY <4>1, <4>2
    <3> HIDE DEF k
    <3> QED BY <2>1, <3>1, <3>2, <3>3, <3>4, <3>5, DropKeepsOpen
  <2> QED BY <2>2, <2>3
<1> QED BY <1>1, <1>2, <1>3, <1>4, <1>5, <1>6, <1>7, <1>8, <1>9, <1>10 DEF LinkNext

\* Stuttering keeps it, and it holds at the start.
LEMMA RestKeepsOpenInv ==
    /\ LinkInit => OpenInv
    /\ LinkInv /\ OpenInv /\ UNCHANGED linkVars => OpenInv'
<1>1. LinkInit => OpenInv
  BY DEF LinkInit, OpenInv, EpochsPast, OpenedIsOpen, HeldIsOpen, NoConnector
<1>2. ASSUME LinkInv, OpenInv, UNCHANGED linkVars PROVE OpenInv'
  BY <1>2, QuietKeepsOpen DEF linkVars, flowVars
<1> QED BY <1>1, <1>2

\* The invariant of the link holds in every reachable state.
THEOREM LinkInvariance == LinkSpec => [](LinkInv /\ OpenInv)
<1>1. LinkInv /\ OpenInv /\ [LinkNext]_linkVars => (LinkInv /\ OpenInv)'
  BY StepKeepsLinkInv, StutterKeepsLinkInv, StepKeepsOpenInv, RestKeepsOpenInv
<1>2. LinkInit => LinkInv /\ OpenInv
  BY InitLinkInv, RestKeepsOpenInv
<1> QED BY <1>1, <1>2, PTL DEF LinkSpec

\* However many connects, refreshes, heartbeats, joins and restores end late, in
\* whatever order, across reloads, session switches and departures: the runtime
\* takes a connection only if this epoch opened it with the enrolment the runtime
\* has, the enrolment is one of the session it runs in, the flag that keeps the
\* timer from connecting is up exactly while a connect of this epoch runs, and
\* a connection of this epoch that is held is open (runtime.ts: connectWorker,
\* refresh, start, performJoin, sessionStart, clearEnrollment).
THEOREM LinkSoundness == LinkSpec => LinkIsOfSession
<1>1. LinkInv /\ OpenInv /\ [LinkNext]_linkVars
        => LinkInv' /\ OpenInv' /\ HoldsCurrent
  BY StepKeepsLinkInv, StutterKeepsLinkInv, StepKeepsOpenInv, RestKeepsOpenInv
<1>2. LinkInv' => EnrolmentIsOfSession' /\ ConnectingIsTrue'
  BY LinkInvImplies, PTL
<1>3. OpenInv' => HeldIsOpen'
  BY DEF OpenInv
<1>4. LinkInv /\ OpenInv /\ [LinkNext]_linkVars
        => [/\ HoldsCurrent
            /\ EnrolmentIsOfSession' /\ ConnectingIsTrue' /\ HeldIsOpen']_linkVars
  BY <1>1, <1>2, <1>3
<1> QED BY LinkInvariance, <1>4, PTL DEF LinkSpec, LinkIsOfSession

\* What connections and epochs count stays within its bounds.
LinkBounds ==
    epoch <= MaxEpoch /\ Len(connections) <= MaxConnections /\ client <= MaxConnections

\* Connecting, joining and leaving keep to the bounds.
LEMMA LinkKeepsBounds == LinkInv /\ LinkBounds /\ [LinkNext]_linkVars => LinkBounds'
<1> SUFFICES ASSUME LinkInv, LinkBounds, [LinkNext]_linkVars PROVE LinkBounds'
  OBVIOUS
<1>0. /\ epoch \in Nat /\ client \in Nat /\ MaxEpoch \in Nat /\ MaxConnections \in Nat
      /\ connections \in Seq(ConnectionRecords) /\ Len(connections) \in Nat
  BY LinkAssumption DEF LinkInv, LinkTypes, ConnectionsTyped
<1>1. \A C : Closes(C) => Len(connections') = Len(connections)
  BY <1>0, ClosesKeeps DEF LinkInv, SameConnections
<1>2. ASSUME UNCHANGED epoch \/ EndsEpoch, client' \in {client, 0},
             Len(connections') = Len(connections)
      PROVE  LinkBounds'
  <2>1. epoch' <= MaxEpoch
    BY <1>0, <1>2 DEF EndsEpoch, LinkBounds
  <2>2. client' <= MaxConnections
    BY <1>0, <1>2 DEF LinkBounds
  <2> QED BY <1>2, <2>1, <2>2 DEF LinkBounds
<1>3. ASSUME NEW i \in Connectors, Opens(i) PROVE LinkBounds'
  <2>1. /\ Len(connections) < MaxConnections /\ UNCHANGED <<epoch, client>>
        /\ connections' = Append(connections,
              [enrolment |-> connectors[i].credential, epoch |-> connectors[i].epoch,
               open |-> TRUE, beat |-> FALSE])
    BY <1>3 DEF Opens
  <2>2. Len(connections') = Len(connections) + 1
    BY <1>0, <2>1
  <2>3. Len(connections') <= MaxConnections
    BY <1>0, <2>1, <2>2
  <2> QED BY <2>1, <2>3 DEF LinkBounds
<1>4. ASSUME NEW i \in Connectors, Hold(i) PROVE LinkBounds'
  <2>1. CASE IsCurrent(connectors[i])
    <3>1. UNCHANGED <<epoch, connections>> /\ client' = connectors[i].connection
      BY <1>4, <2>1 DEF Hold
    <3>2. connectors[i].connection \in 1..Len(connections)
      BY <1>4 DEF Hold, LinkInv, OpenedAsAsked
    <3>3. client' <= MaxConnections
      BY <1>0, <3>1, <3>2 DEF LinkBounds
    <3> QED BY <3>1, <3>3 DEF LinkBounds
  <2>2. CASE ~IsCurrent(connectors[i])
    BY <1>1, <1>2, <1>4, <2>2 DEF Hold
  <2> QED BY <2>1, <2>2
<1>5. ASSUME \/ StartConnect \/ StartRefresh
             \/ \E i \in Connectors : Ensured(i) \/ Greeted(i) \/ ConnectFails(i)
             \/ \E i \in Refreshers, fails \in BOOLEAN : RefreshEnds(i, fails)
      PROVE  LinkBounds'
  BY <1>1, <1>2, <1>5 DEF StartConnect, StartRefresh, Ensured, Greeted, ConnectFails, RefreshEnds
<1>6. ASSUME \/ Beat
             \/ \E c \in DOMAIN connections :
                  SocketCloses(c) \/ \E fails \in BOOLEAN : BeatEnds(c, fails)
             \/ StartJoin \/ (\E ask \in Asks : TakeEnrolment(ask) \/ JoinFails(ask))
             \/ StartLeave \/ Refused \/ DetachOffline \/ Leave
      PROVE  LinkBounds'
  <2>1. ASSUME Beat PROVE LinkBounds'
    <3>1. UNCHANGED <<epoch, client>> /\ Len(connections') = Len(connections)
      BY <1>0, <2>1 DEF Beat, flowVars
    <3> QED BY <1>2, <3>1
  <2>2. ASSUME NEW c \in DOMAIN connections, NEW fails \in BOOLEAN, BeatEnds(c, fails)
        PROVE  LinkBounds'
    <3>1. UNCHANGED epoch /\ client' \in {client, 0}
      BY <2>2 DEF BeatEnds, flowVars
    <3>2. Len(connections') = Len(connections)
      BY <1>0, <2>2 DEF BeatEnds
    <3> QED BY <1>2, <3>1, <3>2
  <2> QED BY <1>1, <1>2, <1>6, <2>1, <2>2
        DEF SocketCloses, StartJoin, TakeEnrolment, JoinFails, StartLeave, Refused,
            DetachOffline, Leave, ClearEnrolment, EndsEpoch
<1>7. ASSUME \/ \E s \in Homes :
                  SwitchSession(s) \/ \E reload \in BOOLEAN : StartSession(s, reload)
             \/ Shutdown
      PROVE  LinkBounds'
  BY <1>1, <1>2, <1>7 DEF SwitchSession, StartSession, Shutdown, ClearEnrolment, EndsEpoch
<1>8. CASE UNCHANGED linkVars
  BY <1>2, <1>8 DEF linkVars
<1> QED BY <1>3, <1>4, <1>5, <1>6, <1>7, <1>8 DEF LinkNext

\* The link starts within its bounds, which give its types.
LEMMA LinkBoundsGiveTypes ==
  (LinkInit => LinkBounds) /\ (LinkInv /\ LinkBounds => LinkTypeOK)
<1>1. LinkInit => LinkBounds
  BY LinkAssumption DEF LinkInit, LinkBounds
<1>2. ASSUME LinkInv, LinkBounds PROVE LinkTypeOK
  <2>0. /\ MaxEpoch \in Nat /\ MaxConnections \in Nat /\ epoch \in Nat /\ client \in Nat
        /\ epoch <= MaxEpoch /\ client <= MaxConnections
    BY <1>2, LinkAssumption DEF LinkInv, LinkBounds, LinkTypes
  <2>1. joining \in [Asks -> [epoch : 0..MaxEpoch, home : Homes \cup {NoHome}]]
    <3>1. joining \in [Asks -> [epoch : Nat, home : Homes \cup {NoHome}]]
      BY <1>2 DEF LinkInv, FlowsTyped
    <3>2. \A ask \in Asks : joining[ask].epoch <= MaxEpoch
      BY <1>2, <2>0, <3>1 DEF LinkInv, AsksAreOfHome, NoJoin
    <3> QED BY <2>0, <3>1, <3>2
  <2>2. \A i \in Connectors :
          connectors[i].at \in {"none", "ensuring", "opening", "opened", "greeting"}
    BY <1>2 DEF LinkInv, ConnectorsTyped, ConnectorRecords
  <2>3. leaving.at \in {"none", "detaching", "leaving"}
    BY <1>2 DEF LinkInv, FlowsTyped
  <2>4. {connecting, refreshing, ticking, aborted} \subseteq BOOLEAN
    BY <1>2 DEF LinkInv, FlagsTyped
  <2>5. epoch \in 0..MaxEpoch /\ client \in 0..MaxConnections
    BY <2>0
  <2> QED BY <1>2, <2>1, <2>2, <2>3, <2>4, <2>5
          DEF LinkInv, EnrolmentsTyped, LinkTypes, LinkTypeOK
<1> QED BY <1>1, <1>2

(***************************************************************************)
(* TeamNavigation.  The cache is of the room the session is in, so that    *)
(* news of another room is not adopted; the dashboard's list is of one     *)
(* view, whichever steps rebuild it.                                       *)
(***************************************************************************)
NavItems == [id : NavMessages, history : BOOLEAN]
Views == {"closed", "loading", "overview", "more", "command", "participant", "message", "peer",
          "reading", "acting"}
Dashboards == [at : Views, of : Nat, history : BOOLEAN, loaded : BOOLEAN, cursor : BOOLEAN,
               shown : SUBSET NavItems]
OfOneView(d) == d \in Dashboards /\ \A m \in d.shown : m.history = d.history

CacheIsOfRoom ==
  /\ rooms \in Seq(NavRooms) /\ held \in 0..Len(rooms)
  /\ navRoom = IF held = 0 THEN NoRoom ELSE rooms[held]
  /\ held = 0 => people = {} /\ mail = {}
  /\ held # 0 => /\ people \subseteq {rooms[held]}
                 /\ mail \subseteq [room : {rooms[held]}, id : NavMessages, own : {held}]

NavInv == CacheIsOfRoom /\ OfOneView(dash)

\* The newest of a set are some of it.
LEMMA NewestAreSome == ASSUME NEW S PROVE Newest(S) \subseteq S
BY DEF Newest

\* Only news of the present room is adopted, and remembered.
LEMMA RememberedIsOfRoom ==
  ASSUME CacheIsOfRoom, NEW P \in SUBSET NavMessages, NEW room,
         UNCHANGED enrolVars,
         RememberMail(P, room), people' \subseteq people \/ people' \subseteq people \cup {room},
         people' # people => Adopts(room)
  PROVE  CacheIsOfRoom'
<1>1. held # 0 => rooms[held] \in NavRooms /\ rooms[held] # NoRoom
  BY NavigationAssumption DEF CacheIsOfRoom
<1>2. Adopts(room) => held # 0 /\ navRoom = rooms[held] /\ room = rooms[held]
  BY <1>1 DEF Adopts, CacheIsOfRoom
<1>3. navRoom' = navRoom
  BY <1>2 DEF RememberMail
<1>4. mail' \subseteq mail \cup [room : {room}, id : P, own : {held}]
  BY NewestAreSome DEF RememberMail
<1>5. mail' = mail \/ Adopts(room)
  BY DEF RememberMail
<1>6. CASE ~Adopts(room)
  BY <1>3, <1>5, <1>6 DEF CacheIsOfRoom, enrolVars
<1>7. CASE Adopts(room)
  <2>1. people' \subseteq {rooms[held]}
    BY <1>2, <1>7 DEF CacheIsOfRoom
  <2>2. [room : {room}, id : P, own : {held}]
          \subseteq [room : {rooms[held]}, id : NavMessages, own : {held}]
    BY <1>2, <1>7
  <2>3. mail' \subseteq [room : {rooms[held]}, id : NavMessages, own : {held}]
    BY <1>2, <1>4, <1>7, <2>2 DEF CacheIsOfRoom
  <2> QED BY <1>2, <1>3, <1>7, <2>1, <2>3 DEF CacheIsOfRoom, enrolVars
<1> QED BY <1>6, <1>7

\* So is a status.
LEMMA StatusIsOfRoom ==
  ASSUME CacheIsOfRoom, NEW room, UNCHANGED <<enrolVars, mail>>, RememberStatus(room)
  PROVE  CacheIsOfRoom'
<1>1. held # 0 => rooms[held] \in NavRooms /\ rooms[held] # NoRoom
  BY NavigationAssumption DEF CacheIsOfRoom
<1> QED BY <1>1 DEF RememberStatus, Adopts, CacheIsOfRoom, enrolVars

\* The head of the dashboard's loop keeps the list, or empties it.
LEMMA TurnKeepsView ==
  ASSUME NEW d, OfOneView(d) PROVE OfOneView(Turn(d))
<1>1. OfOneView(NoDash)
  BY DEF OfOneView, NoDash, Dashboards, Views
<1>2. OfOneView([d EXCEPT !.at = "overview"])
  BY DEF OfOneView, Dashboards, Views
<1>3. OfOneView([d EXCEPT !.at = "loading", !.shown = {}])
  BY DEF OfOneView, Dashboards, Views
<1> QED BY <1>1, <1>2, <1>3 DEF Turn

\* A page that arrives is of the view it was asked for.
LEMMA ShownIsOfView ==
  ASSUME NEW d, OfOneView(d), NEW P \in SUBSET NavMessages
  PROVE  Shown(d, P) \subseteq NavItems /\ \A m \in Shown(d, P) : m.history = d.history
<1>1. Shown(d, P) \subseteq d.shown \cup [id : P, history : {d.history}]
  BY NewestAreSome DEF Shown
<1>2. d.history \in BOOLEAN /\ d.shown \subseteq NavItems
  BY DEF OfOneView, Dashboards
<1>3. [id : P, history : {d.history}] \subseteq NavItems
  BY <1>2 DEF NavItems
<1> QED BY <1>1, <1>2, <1>3 DEF OfOneView

\* The steps of the enrolment, of refreshes, commands and tools.
LEMMA NewsKeepNavInv ==
  ASSUME NavInv,
         \/ \E room \in NavRooms : Enrol(room)
         \/ Unenrol \/ Relink \/ CallFails
         \/ \E by \in {"refresh", "status", "read"} : Ask(by)
         \/ \E fresh \in BOOLEAN : StatusArrives(fresh)
         \/ \E P \in Pages : PageArrives(P)
  PROVE  NavInv'
<1> USE DEF NavInv
<1>0. UNCHANGED dash
  BY DEF Enrol, Unenrol, Relink, CallFails, Ask, StatusArrives, PageArrives
<1>1. ASSUME NEW room \in NavRooms, Enrol(room) PROVE CacheIsOfRoom'
  <2>1. rooms' = Append(rooms, room) /\ held' = Len(rooms')
    BY <1>1 DEF Enrol
  <2>2. rooms' \in Seq(NavRooms) /\ Len(rooms') = Len(rooms) + 1 /\ rooms'[Len(rooms')] = room
    BY <2>1 DEF CacheIsOfRoom
  <2> QED BY <1>1, <2>1, <2>2 DEF Enrol, ResetCache, CacheIsOfRoom
<1>2. ASSUME Unenrol PROVE CacheIsOfRoom'
  BY <1>2 DEF Unenrol, ResetCache, CacheIsOfRoom
<1>3. ASSUME Relink \/ CallFails \/ \E by \in {"refresh", "status", "read"} : Ask(by)
      PROVE  CacheIsOfRoom'
  BY <1>3 DEF Relink, CallFails, Ask, CacheIsOfRoom, cacheVars, enrolVars
<1>4. ASSUME NEW fresh \in BOOLEAN, StatusArrives(fresh) PROVE CacheIsOfRoom'
  <2>1. CASE UNCHANGED <<enrolVars, cacheVars>>
    BY <2>1 DEF CacheIsOfRoom, cacheVars, enrolVars
  <2> QED BY <1>4, <2>1, StatusIsOfRoom DEF StatusArrives
<1>5. ASSUME NEW P \in Pages, PageArrives(P) PROVE CacheIsOfRoom'
  BY <1>5, RememberedIsOfRoom DEF PageArrives, Pages
<1> HIDE DEF NavInv
<1>6. CacheIsOfRoom'
  BY <1>1, <1>2, <1>3, <1>4, <1>5
<1> QED BY <1>0, <1>6 DEF NavInv, OfOneView

\* The steps of the dashboard that ask for nothing.
LEMMA ChoicesKeepNavInv ==
  ASSUME NavInv,
         \/ OpenDashboard \/ QuestionFails \/ GoOn \/ GoBack
         \/ \E view \in {"closed", "more", "command", "participant", "message"} : ChooseAction(view)
         \/ \E history \in BOOLEAN : Refresh(history)
  PROVE  NavInv'
<1>1. UNCHANGED <<enrolVars, cacheVars>>
  BY DEF OpenDashboard, QuestionFails, GoOn, GoBack, ChooseAction, Refresh
<1>2. CacheIsOfRoom'
  BY <1>1 DEF NavInv, CacheIsOfRoom, enrolVars, cacheVars
<1>3. OfOneView(dash) /\ OfOneView(NoDash)
  BY DEF NavInv, OfOneView, NoDash, Dashboards, Views
<1>4. ASSUME NEW view \in Views PROVE OfOneView([dash EXCEPT !.at = view])
  BY <1>3, <1>4 DEF OfOneView, Dashboards
<1>5. ASSUME NEW loaded \in BOOLEAN PROVE OfOneView([dash EXCEPT !.loaded = loaded])
  BY <1>3, <1>5 DEF OfOneView, Dashboards
<1>6. ASSUME OpenDashboard PROVE OfOneView(dash')
  <2>1. OfOneView([NoDash EXCEPT !.of = held])
    <3>1. held \in Nat
      BY DEF NavInv, CacheIsOfRoom
    <3> QED BY <1>3, <3>1 DEF OfOneView, NoDash, Dashboards
  <2> QED BY <1>6, <2>1, TurnKeepsView DEF OpenDashboard
<1>7. ASSUME QuestionFails PROVE OfOneView(dash')
  BY <1>5, <1>7, TurnKeepsView DEF QuestionFails
<1>8. ASSUME GoBack PROVE OfOneView(dash')
  BY <1>5, <1>8, TurnKeepsView DEF GoBack
<1>9. ASSUME GoOn PROVE OfOneView(dash')
  BY <1>3, <1>4, <1>9 DEF GoOn, Views
<1>10. ASSUME NEW view \in {"closed", "more", "command", "participant", "message"},
              ChooseAction(view)
       PROVE  OfOneView(dash')
  BY <1>3, <1>4, <1>10 DEF ChooseAction, Views
<1>11. ASSUME NEW history \in BOOLEAN, Refresh(history) PROVE OfOneView(dash')
  <2> DEFINE d == [dash EXCEPT !.history = history, !.loaded = FALSE]
  <2>1. d.loaded = FALSE /\ dash' = Turn(d)
    BY <1>3, <1>11 DEF Refresh, OfOneView, Dashboards
  <2>2. OfOneView([d EXCEPT !.at = "loading", !.shown = {}])
    BY <1>3 DEF OfOneView, Dashboards, Views
  <2> HIDE DEF d
  <2> QED BY <1>3, <2>1, <2>2 DEF Turn
<1>12. OfOneView(dash')
  BY <1>6, <1>7, <1>8, <1>9, <1>10, <1>11
<1>13. OfOneView(dash)'
  BY <1>12 DEF OfOneView
<1> QED BY <1>2, <1>13 DEF NavInv

\* The answers the dashboard waits for.
LEMMA AnswersKeepNavInv ==
  ASSUME NavInv,
         \/ \E P \in Pages, hasStatus, hasPage, more \in BOOLEAN : Load(P, hasStatus, hasPage, more)
         \/ \E P \in Pages, more \in BOOLEAN : LoadMore(P, more)
         \/ \E P \in Pages : ShowDetail(P)
  PROVE  NavInv'
<1>1. CacheIsOfRoom /\ OfOneView(dash) /\ OfOneView(NoDash)
  BY DEF NavInv, OfOneView, NoDash, Dashboards, Views
<1>2. ASSUME UNCHANGED <<enrolVars, cacheVars>> PROVE CacheIsOfRoom'
  BY <1>1, <1>2 DEF CacheIsOfRoom, enrolVars, cacheVars
<1>3. ASSUME NEW view \in Views PROVE OfOneView([dash EXCEPT !.at = view])
  BY <1>1, <1>3 DEF OfOneView, Dashboards
<1>4. ASSUME NEW P \in Pages, NEW hasStatus \in BOOLEAN, NEW hasPage \in BOOLEAN,
             NEW more \in BOOLEAN, Load(P, hasStatus, hasPage, more)
      PROVE  CacheIsOfRoom' /\ OfOneView(dash')
  <2> DEFINE got == IF hasPage THEN P ELSE {}
  <2>1. got \in SUBSET NavMessages
    BY DEF Pages
  <2>2. CASE dash' = NoDash /\ UNCHANGED cacheVars
    BY <1>1, <1>2, <1>4, <2>2 DEF Load
  <2>3. CASE /\ dash' = [dash EXCEPT !.at = "overview", !.loaded = TRUE,
                            !.cursor = hasPage /\ more, !.shown = Shown(dash, got)]
             /\ RememberMail(got, rooms[dash.of])
             /\ people' = IF hasStatus /\ Adopts(rooms[dash.of])
                          THEN people \cup {rooms[dash.of]} ELSE people
    <3>1. UNCHANGED enrolVars
      BY <1>4 DEF Load
    <3> HIDE DEF got
    <3>2. CacheIsOfRoom'
      BY <1>1, <2>1, <2>3, <3>1, RememberedIsOfRoom
    <3>3. /\ Shown(dash, got) \subseteq NavItems
          /\ \A m \in Shown(dash, got) : m.history = dash.history
      BY <1>1, <2>1, ShownIsOfView
    <3>4. OfOneView(dash')
      BY <1>1, <2>3, <3>3 DEF OfOneView, Dashboards, Views
    <3> QED BY <3>2, <3>4
  <2> QED BY <1>4, <2>2, <2>3 DEF Load
<1>5. ASSUME NEW P \in Pages, NEW more \in BOOLEAN, LoadMore(P, more)
      PROVE  CacheIsOfRoom' /\ OfOneView(dash')
  <2>1. P \in SUBSET NavMessages /\ UNCHANGED enrolVars
    BY <1>5 DEF Pages, LoadMore
  <2>2. CASE dash' = NoDash /\ UNCHANGED cacheVars
    BY <1>1, <1>2, <2>1, <2>2
  <2>3. CASE /\ dash' = Turn([dash EXCEPT !.shown = Shown(dash, P), !.cursor = more])
             /\ RememberMail(P, rooms[dash.of]) /\ UNCHANGED people
    <3>1. CacheIsOfRoom'
      BY <1>1, <2>1, <2>3, RememberedIsOfRoom
    <3>2. /\ Shown(dash, P) \subseteq NavItems
          /\ \A m \in Shown(dash, P) : m.history = dash.history
      BY <1>1, <2>1, ShownIsOfView
    <3>3. OfOneView([dash EXCEPT !.shown = Shown(dash, P), !.cursor = more])
      BY <1>1, <3>2 DEF OfOneView, Dashboards
    <3> QED BY <2>3, <3>1, <3>3, TurnKeepsView
  <2> QED BY <1>5, <2>2, <2>3 DEF LoadMore
<1>6. ASSUME NEW P \in Pages, ShowDetail(P) PROVE CacheIsOfRoom' /\ OfOneView(dash')
  <2>1. P \in SUBSET NavMessages /\ UNCHANGED enrolVars
    BY <1>6 DEF Pages, ShowDetail
  <2>2. CASE dash' = NoDash /\ UNCHANGED cacheVars
    BY <1>1, <1>2, <2>1, <2>2
  <2>3. CASE /\ dash' = [dash EXCEPT !.at = "peer"]
             /\ RememberStatus(rooms[dash.of]) /\ UNCHANGED mail
    BY <1>1, <1>3, <2>1, <2>3, StatusIsOfRoom DEF Views
  <2>4. CASE /\ dash' = [dash EXCEPT !.at = "reading"]
             /\ RememberMail(P, rooms[dash.of]) /\ UNCHANGED people
    BY <1>1, <1>3, <2>1, <2>4, RememberedIsOfRoom DEF Views
  <2> QED BY <1>6, <2>2, <2>3, <2>4 DEF ShowDetail
<1>7. CacheIsOfRoom' /\ OfOneView(dash')
  BY <1>4, <1>5, <1>6
<1>8. OfOneView(dash)'
  BY <1>7 DEF OfOneView
<1> QED BY <1>7, <1>8 DEF NavInv

\* The views start with an empty cache.
LEMMA NavInitInv == NavInit => NavInv
BY DEF NavInit, NavInv, CacheIsOfRoom, OfOneView, NoDash, Dashboards, Views

\* Every step keeps it.
LEMMA NavStepInv == NavInv /\ [NavNext]_navVars => NavInv'
<1>1. NavInv /\ UNCHANGED navVars => NavInv'
  BY DEF NavInv, navVars, enrolVars, cacheVars, CacheIsOfRoom, OfOneView
<1> QED BY <1>1, NewsKeepNavInv, ChoicesKeepNavInv, AnswersKeepNavInv DEF NavNext

\* However late an answer arrives, the cache and the dashboard offer only what
\* belongs to the room and the view they name, for any number of joins, rooms
\* and messages (navigation.ts: adoptRoom; dashboard.ts: the loop's reloads).
THEOREM NavigationSoundness == NavSpec => []NavigationIsTrue
<1>1. NavInv => NavigationIsTrue
  BY DEF NavInv, CacheIsOfRoom, OfOneView, NavigationIsTrue
<1> QED BY <1>1, NavInitInv, NavStepInv, PTL DEF NavSpec

\* What the views count stays within its bounds.
NavBounds ==
    /\ Len(rooms) <= MaxJoins /\ hasLink \in BOOLEAN
    /\ asking.by \in {"none", "refresh", "status", "read"}

\* Joins and questions keep to the bounds.
LEMMA NavKeepsBounds == NavInv /\ NavBounds /\ [NavNext]_navVars => NavBounds'
<1> SUFFICES ASSUME NavInv, NavBounds, [NavNext]_navVars PROVE NavBounds'
  OBVIOUS
<1>1. ASSUME NEW room \in NavRooms, Enrol(room) PROVE NavBounds'
  <2>1. /\ rooms' = Append(rooms, room) /\ Len(rooms) < MaxJoins
        /\ hasLink' = FALSE /\ UNCHANGED asking
    BY <1>1 DEF Enrol
  <2>2. Len(rooms) \in Nat /\ Len(rooms') = Len(rooms) + 1
    BY <2>1 DEF NavInv, CacheIsOfRoom
  <2>3. Len(rooms') <= MaxJoins
    BY <2>1, <2>2, NavigationAssumption
  <2>4. hasLink' \in BOOLEAN
    BY <2>1
  <2> QED BY <2>1, <2>3, <2>4 DEF NavBounds
<1>2. CASE Unenrol \/ Relink
  <2>1. UNCHANGED <<rooms, asking>>
    BY <1>2 DEF Unenrol, Relink
  <2>2. hasLink' \in BOOLEAN
    BY <1>2 DEF Unenrol, Relink
  <2> QED BY <2>1, <2>2 DEF NavBounds
<1>3. ASSUME UNCHANGED rooms, UNCHANGED hasLink,
             UNCHANGED asking \/ asking' = NoQuestion
                \/ \E by \in {"refresh", "status", "read"} : asking' = [by |-> by, of |-> held]
      PROVE NavBounds'
  <2>1. asking'.by \in {"none", "refresh", "status", "read"}
    BY <1>3 DEF NavBounds, NoQuestion
  <2> QED BY <1>3, <2>1 DEF NavBounds
<1>4. CASE \/ \E by \in {"refresh", "status", "read"} : Ask(by)
           \/ \E fresh \in BOOLEAN : StatusArrives(fresh)
           \/ \E P \in Pages : PageArrives(P)
           \/ CallFails
  BY <1>3, <1>4 DEF Ask, StatusArrives, PageArrives, CallFails, enrolVars
<1>5. CASE \/ OpenDashboard \/ QuestionFails \/ GoOn \/ GoBack
           \/ \E P \in Pages, hasStatus, hasPage, more \in BOOLEAN :
                Load(P, hasStatus, hasPage, more)
           \/ \E view \in {"closed", "more", "command", "participant", "message"} :
                ChooseAction(view)
           \/ \E history \in BOOLEAN : Refresh(history)
           \/ \E P \in Pages, more \in BOOLEAN : LoadMore(P, more)
           \/ \E P \in Pages : ShowDetail(P)
           \/ UNCHANGED navVars
  BY <1>3, <1>5 DEF OpenDashboard, QuestionFails, GoOn, GoBack, Load, ChooseAction, Refresh,
                    LoadMore, ShowDetail, enrolVars, navVars
<1> QED BY <1>1, <1>2, <1>4, <1>5 DEF NavNext

\* The views start within their bounds, which give their types.
LEMMA NavBoundsGiveTypes ==
  (NavInit => NavBounds) /\ (NavInv /\ NavBounds => NavTypeOK)
<1>1. ASSUME NavInit PROVE NavBounds
  <2>1. Len(rooms) = 0 /\ asking.by = "none" /\ hasLink = FALSE
    BY <1>1 DEF NavInit, NoQuestion
  <2>2. hasLink \in BOOLEAN
    BY <2>1
  <2> QED BY <2>1, <2>2, NavigationAssumption DEF NavBounds
<1>2. ASSUME NavInv, NavBounds PROVE NavTypeOK
  <2>1. /\ rooms \in Seq(NavRooms) /\ held \in 0..Len(rooms) /\ Len(rooms) \in Nat
        /\ Len(rooms) <= MaxJoins /\ MaxJoins \in Nat
    BY <1>2, NavigationAssumption DEF NavInv, NavBounds, CacheIsOfRoom
  <2>2. held # 0 => rooms[held] \in NavRooms /\ held \in 1..MaxJoins
    BY <2>1
  <2>3. navRoom \in NavRooms \cup {NoRoom} /\ people \subseteq NavRooms
    BY <1>2, <2>2 DEF NavInv, CacheIsOfRoom
  <2>4. mail \subseteq [room : NavRooms, id : NavMessages, own : 1..MaxJoins]
    BY <1>2, <2>2 DEF NavInv, CacheIsOfRoom
  <2>5. dash.at \in Views
    BY <1>2 DEF NavInv, OfOneView, Dashboards
  <2> QED BY <1>2, <2>1, <2>3, <2>4, <2>5 DEF NavBounds, NavTypeOK, Views
<1> QED BY <1>1, <1>2

(***************************************************************************)
(* SafetyGate.  The queue holds every call that waits, once, and only the  *)
(* one at its head has a dialog.                                           *)
(***************************************************************************)
Fates == {"none", "unasked", "queued", "asked", "allowed", "blocked", "explain"}
CallRecords == [at : Fates, kind : {"command", "user", "write"},
                key : CommandKeys \cup {FileWrite, "none"}, turn : Nat]

GateInv ==
  /\ calls \in [Calls -> CallRecords] /\ turn \in Nat
  /\ decisionQueue \in Seq(Calls)
  /\ \A i, j \in DOMAIN decisionQueue : decisionQueue[i] = decisionQueue[j] => i = j
  /\ \A i \in DOMAIN decisionQueue : calls[decisionQueue[i]].at \in {"queued", "asked"}
  /\ \A c \in Calls : calls[c].at \in {"queued", "asked"} =>
        \E i \in DOMAIN decisionQueue : decisionQueue[i] = c
  /\ \A c \in Calls : calls[c].at = "asked" => c = decisionQueue[1]

\* The head of the queue leaves it with its fate.
LEMMA HeadLeaves ==
  ASSUME GateInv, decisionQueue # <<>>, NEW fate \in Fates \ {"queued", "asked"},
         Fate(Head(decisionQueue), fate), decisionQueue' = Tail(decisionQueue), UNCHANGED turn
  PROVE  GateInv'
<1> DEFINE q == decisionQueue
           c == Head(q)
<1>1. /\ q \in Seq(Calls) /\ c \in Calls /\ c = q[1] /\ 1 \in DOMAIN q
      /\ Tail(q) \in Seq(Calls) /\ Len(q) \in Nat \ {0}
      /\ DOMAIN q = 1..Len(q) /\ DOMAIN Tail(q) = 1..(Len(q) - 1)
      /\ \A i \in DOMAIN Tail(q) : i + 1 \in DOMAIN q /\ Tail(q)[i] = q[i + 1]
  BY DEF GateInv
<1>2. calls[c] \in CallRecords
  BY <1>1 DEF GateInv
<1>3. [calls[c] EXCEPT !.at = fate] \in CallRecords
  BY <1>2 DEF CallRecords
<1>4. /\ calls' \in [Calls -> CallRecords]
      /\ calls'[c].at = fate
      /\ \A d \in Calls : d # c => calls'[d] = calls[d]
  BY <1>1, <1>2, <1>3 DEF GateInv, Fate, CallRecords
<1>5. \A i \in DOMAIN Tail(q) : Tail(q)[i] # c
  <2> SUFFICES ASSUME NEW i \in DOMAIN Tail(q), q[i + 1] = q[1] PROVE FALSE
    BY <1>1
  <2>1. i + 1 \in DOMAIN q /\ i + 1 # 1
    BY <1>1
  <2> QED BY <1>1, <2>1 DEF GateInv
<1>6. \A i, j \in DOMAIN Tail(q) : Tail(q)[i] = Tail(q)[j] => i = j
  <2> SUFFICES ASSUME NEW i \in DOMAIN Tail(q), NEW j \in DOMAIN Tail(q), Tail(q)[i] = Tail(q)[j]
               PROVE  i = j
    OBVIOUS
  <2>1. q[i + 1] = q[j + 1] /\ i + 1 \in DOMAIN q /\ j + 1 \in DOMAIN q
    BY <1>1
  <2>2. i + 1 = j + 1
    BY <2>1 DEF GateInv
  <2> QED BY <1>1, <2>2
<1>7. \A i \in DOMAIN Tail(q) : calls'[Tail(q)[i]].at \in {"queued", "asked"}
  <2> SUFFICES ASSUME NEW i \in DOMAIN Tail(q)
               PROVE  calls'[Tail(q)[i]].at \in {"queued", "asked"}
    OBVIOUS
  <2>1. Tail(q)[i] \in Calls /\ Tail(q)[i] = q[i + 1] /\ i + 1 \in DOMAIN q
    BY <1>1
  <2> QED BY <1>4, <1>5, <2>1 DEF GateInv
<1>8. \A d \in Calls : calls'[d].at \in {"queued", "asked"} =>
        \E i \in DOMAIN Tail(q) : Tail(q)[i] = d
  <2> SUFFICES ASSUME NEW d \in Calls, calls'[d].at \in {"queued", "asked"}
               PROVE  \E i \in DOMAIN Tail(q) : Tail(q)[i] = d
    OBVIOUS
  <2>1. d # c /\ calls[d].at \in {"queued", "asked"}
    BY <1>4
  <2>2. PICK j \in DOMAIN q : q[j] = d
    BY <2>1 DEF GateInv
  <2>3. j - 1 \in DOMAIN Tail(q) /\ (j - 1) + 1 = j
    BY <1>1, <2>1, <2>2
  <2> QED BY <1>1, <2>2, <2>3
<1>9. \A d \in Calls : calls'[d].at # "asked"
  BY <1>1, <1>4 DEF GateInv
<1> QED BY <1>1, <1>4, <1>6, <1>7, <1>8, <1>9 DEF GateInv

\* A call that needs a decision goes to the end of the queue, once.
LEMMA RequestKeepsGateInv ==
  ASSUME GateInv, NEW c \in Calls, NEW kind \in {"command", "user", "write"},
         NEW key \in CommandKeys \cup {FileWrite}, NEW signal \in 0..turn,
         RequestDecision(c, kind, key, signal)
  PROVE  GateInv'
<1> DEFINE q == decisionQueue
           fate == IF promptsEnabled THEN "queued" ELSE "unasked"
           r == [at |-> fate, kind |-> kind, key |-> key, turn |-> signal]
<1>1. /\ calls' = [calls EXCEPT ![c] = r] /\ UNCHANGED turn
      /\ decisionQueue' = IF promptsEnabled THEN Append(q, c) ELSE q
  BY DEF RequestDecision
<1>2. r \in CallRecords /\ r.at = fate
  BY DEF GateInv, CallRecords, Fates
<1>3. calls[c].at = "none"
  BY DEF RequestDecision, NoCall
<1> HIDE DEF r
<1>4. /\ calls' \in [Calls -> CallRecords] /\ calls'[c].at = fate
      /\ \A d \in Calls : d # c => calls'[d] = calls[d]
  BY <1>1, <1>2 DEF GateInv
<1>5. q \in Seq(Calls) /\ \A i \in DOMAIN q : q[i] # c /\ q[i] \in Calls
  BY <1>3 DEF GateInv
<1>6. CASE promptsEnabled
  <2>1. /\ decisionQueue' = Append(q, c) /\ decisionQueue' \in Seq(Calls)
        /\ Len(q) \in Nat /\ DOMAIN q = 1..Len(q)
        /\ DOMAIN decisionQueue' = 1..(Len(q) + 1)
        /\ \A i \in 1..(Len(q) + 1) : decisionQueue'[i] = IF i = Len(q) + 1 THEN c ELSE q[i]
    BY <1>1, <1>5, <1>6
  <2>2. \A i, j \in DOMAIN decisionQueue' : decisionQueue'[i] = decisionQueue'[j] => i = j
    BY <1>5, <2>1 DEF GateInv
  <2>3. \A i \in DOMAIN decisionQueue' : calls'[decisionQueue'[i]].at \in {"queued", "asked"}
    BY <1>4, <1>5, <1>6, <2>1 DEF GateInv
  <2>4. \A d \in Calls : calls'[d].at \in {"queued", "asked"} =>
            \E i \in DOMAIN decisionQueue' : decisionQueue'[i] = d
    <3> SUFFICES ASSUME NEW d \in Calls, calls'[d].at \in {"queued", "asked"}
                 PROVE  \E i \in DOMAIN decisionQueue' : decisionQueue'[i] = d
      OBVIOUS
    <3>1. CASE d = c
      <4>1. Len(q) + 1 \in DOMAIN decisionQueue' /\ decisionQueue'[Len(q) + 1] = c
        BY <2>1
      <4> QED BY <3>1, <4>1
    <3>2. CASE d # c
      <4>1. PICK i \in DOMAIN q : q[i] = d
        BY <1>4, <3>2 DEF GateInv
      <4>2. i \in DOMAIN decisionQueue' /\ decisionQueue'[i] = d
        BY <2>1, <4>1
      <4> QED BY <4>2
    <3> QED BY <3>1, <3>2
  <2>5. \A d \in Calls : calls'[d].at = "asked" => d = decisionQueue'[1]
    <3> SUFFICES ASSUME NEW d \in Calls, calls'[d].at = "asked" PROVE d = decisionQueue'[1]
      OBVIOUS
    <3>1. d # c /\ calls[d].at = "asked"
      BY <1>4, <1>6
    <3>2. d = q[1] /\ \E i \in DOMAIN q : q[i] = d
      BY <3>1 DEF GateInv
    <3>3. 1 \in DOMAIN q
      BY <2>1, <3>2
    <3> QED BY <2>1, <3>2, <3>3
  <2> QED BY <1>1, <1>4, <2>1, <2>2, <2>3, <2>4, <2>5 DEF GateInv
<1>7. CASE ~promptsEnabled
  <2>1. decisionQueue' = q /\ calls'[c].at = "unasked"
    BY <1>1, <1>4, <1>7
  <2>2. \A i \in DOMAIN q : calls'[q[i]].at \in {"queued", "asked"}
    BY <1>4, <1>5 DEF GateInv
  <2>3. \A d \in Calls : calls'[d].at \in {"queued", "asked"} => d # c
    BY <2>1
  <2> QED BY <1>1, <1>4, <2>1, <2>2, <2>3 DEF GateInv
<1> QED BY <1>6, <1>7

\* A dialog opens for the call at the head only.
LEMMA DecideKeepsGateInv ==
  ASSUME GateInv, Decide PROVE GateInv'
<1> DEFINE q == decisionQueue
           c == Head(q)
<1>1. q # <<>> /\ calls[c].at = "queued" /\ UNCHANGED turn
  BY DEF Decide
<1>2. CASE Aborted(c) \/ ~HasUI
  <2>1. Fate(c, "blocked") /\ decisionQueue' = Tail(q)
    BY <1>2 DEF Decide
  <2> QED BY <1>1, <2>1, HeadLeaves DEF Fates
<1>3. CASE ~(Aborted(c) \/ ~HasUI)
  <2>1. calls' = [calls EXCEPT ![c].at = "asked"] /\ UNCHANGED decisionQueue
    BY <1>3 DEF Decide, Fate
  <2>2. c \in Calls /\ c = q[1] /\ 1 \in DOMAIN q
    BY <1>1 DEF GateInv
  <2>3. calls[c] \in CallRecords
    BY <2>2 DEF GateInv
  <2>4. [calls[c] EXCEPT !.at = "asked"] \in CallRecords
    BY <2>3 DEF CallRecords, Fates
  <2>5. /\ calls' \in [Calls -> CallRecords] /\ calls'[c].at = "asked"
        /\ \A d \in Calls : d # c => calls'[d] = calls[d]
    BY <2>1, <2>2, <2>3, <2>4 DEF GateInv, CallRecords
  <2>6. \A i \in DOMAIN q : q[i] \in Calls /\ calls'[q[i]].at \in {"queued", "asked"}
    BY <2>5 DEF GateInv
  <2>7. \A d \in Calls : calls'[d].at \in {"queued", "asked"} => calls[d].at \in {"queued", "asked"}
    BY <1>1, <2>5
  <2>8. \A d \in Calls : calls'[d].at = "asked" => d = q[1]
    BY <2>2, <2>5 DEF GateInv
  <2> QED BY <1>1, <2>1, <2>5, <2>6, <2>7, <2>8 DEF GateInv
<1> QED BY <1>2, <1>3

\* The steps that decide nothing.
LEMMA OthersKeepGateInv ==
  ASSUME GateInv, UNCHANGED <<calls, decisionQueue>>, turn' \in Nat PROVE GateInv'
  BY DEF GateInv

\* Every step keeps the invariant.
LEMMA GateStepInv == GateInv /\ [SafetyNext]_safetyVars => GateInv'
<1> SUFFICES ASSUME GateInv, [SafetyNext]_safetyVars PROVE GateInv'
  OBVIOUS
<1>1. ASSUME NEW choice \in {"allow", "block", "explain"}, ChooseDecision(choice) PROVE GateInv'
  <2>1. /\ decisionQueue # <<>> /\ decisionQueue' = Tail(decisionQueue) /\ UNCHANGED turn
        /\ \E fate \in {"allowed", "explain", "blocked"} : Fate(Head(decisionQueue), fate)
    BY <1>1 DEF ChooseDecision
  <2> QED BY <2>1, HeadLeaves DEF Fates
<1>2. CASE DialogFails
  BY <1>2, HeadLeaves DEF DialogFails, Fates
<1>3. CASE \/ Toggle \/ RestoreMode \/ NextTurn \/ AbortTurn \/ Explained
           \/ \E k \in CommandKeys : RequestExpires(k)
  <2>1. UNCHANGED <<calls, decisionQueue>> /\ turn' \in {turn, turn + 1}
    BY <1>3 DEF Toggle, RestoreMode, NextTurn, AbortTurn, Explained, RequestExpires
  <2> QED BY <2>1, OthersKeepGateInv DEF GateInv
<1>4. CASE UNCHANGED safetyVars
  BY <1>4, OthersKeepGateInv DEF safetyVars, GateInv
<1> QED BY <1>1, <1>2, <1>3, <1>4, RequestKeepsGateInv, DecideKeepsGateInv DEF SafetyNext

\* The initial state satisfies the invariant.
LEMMA GateInitInv == SafetyInit => GateInv
  BY DEF SafetyInit, GateInv, CallRecords, Fates, NoCall

\* No call of an aborted turn ever runs, and the queue of decisions never
\* stalls, for any number of calls and turns (safety/index.ts: the signal kept
\* with the decision, and the queue that goes on when a dialog throws).
THEOREM GateSoundness == SafetySpec => DecidedByOwnTurn
<1> DEFINE Own == \A c \in Calls :
            calls[c].at # "allowed" /\ calls'[c].at = "allowed"
                => calls[c].turn \notin abortedTurns
           Goes == /\ \A c \in Calls :
                        calls[c].at # "allowed" /\ calls'[c].at = "allowed"
                            => calls[c].turn \notin abortedTurns
                   /\ QueueNeverStalls'
<1>1. GateInv => QueueNeverStalls
  <2> SUFFICES ASSUME GateInv PROVE QueueNeverStalls
    OBVIOUS
  <2>1. \A i \in DOMAIN decisionQueue : decisionQueue[i] \in Calls
    BY DEF GateInv
  <2>2. Undecided = {decisionQueue[i] : i \in DOMAIN decisionQueue}
    BY <2>1 DEF Undecided, GateInv
  <2> DEFINE A == {c \in Calls : calls[c].at = "asked"}
  <2>3. A \subseteq {decisionQueue[1]}
    BY DEF GateInv
  <2>4. Cardinality(A) <= 1
    <3>1. IsFiniteSet({decisionQueue[1]}) /\ Cardinality({decisionQueue[1]}) = 1
      BY FS_Singleton
    <3> HIDE DEF A
    <3> QED BY <2>3, <3>1, FS_Subset
  <2> QED BY <2>2, <2>4 DEF QueueNeverStalls
<1>2. GateInv /\ [SafetyNext]_safetyVars => [Own]_safetyVars
  <2> SUFFICES ASSUME GateInv, SafetyNext, NEW c \in Calls,
                      calls[c].at # "allowed", calls'[c].at = "allowed"
               PROVE  calls[c].turn \notin abortedTurns
    OBVIOUS
  <2>0. /\ calls[c] \in CallRecords /\ calls \in [Calls -> CallRecords]
        /\ decisionQueue # <<>> => Head(decisionQueue) \in Calls
    BY DEF GateInv
  <2>1. ASSUME NEW d \in Calls, NEW kind, NEW key, NEW signal,
               RequestDecision(d, kind, key, signal)
        PROVE  FALSE
    BY <2>0, <2>1 DEF RequestDecision
  <2>2. ASSUME NEW fate, NEW d \in Calls, Fate(d, fate) PROVE c = d /\ fate = "allowed"
    BY <2>0, <2>2 DEF Fate, CallRecords
  <2>3. ASSUME Decide \/ DialogFails PROVE FALSE
    <3>1. \/ \E fate \in {"blocked", "asked"} : Fate(Head(decisionQueue), fate)
      BY <2>3 DEF Decide, DialogFails
    <3>2. decisionQueue # <<>>
      BY <2>3 DEF Decide, DialogFails
    <3> QED BY <2>0, <2>2, <3>1, <3>2
  <2>4. ASSUME NEW choice \in {"allow", "block", "explain"}, ChooseDecision(choice)
        PROVE  calls[c].turn \notin abortedTurns
    <3> DEFINE h == Head(decisionQueue)
               decision == IF Aborted(h) THEN "block" ELSE choice
    <3>1. /\ decisionQueue # <<>>
          /\ Fate(h, CASE decision = "allow" -> "allowed"
                       [] decision = "explain" -> "explain"
                       [] OTHER -> "blocked")
      BY <2>4 DEF ChooseDecision
    <3>2. c = h /\ decision = "allow"
      BY <2>0, <2>2, <3>1
    <3>3. ~Aborted(h)
      BY <3>2
    <3> QED BY <3>2, <3>3 DEF Aborted, Signal
  <2>5. ASSUME UNCHANGED calls PROVE FALSE
    BY <2>5
  <2> QED BY <2>1, <2>3, <2>4, <2>5
          DEF SafetyNext, Toggle, RestoreMode, NextTurn, AbortTurn, Explained, RequestExpires
<1>3. GateInv' => QueueNeverStalls'
  BY <1>1, PTL
<1>4. DecidedByOwnTurn <=> [][Goes]_safetyVars
  BY DEF DecidedByOwnTurn
<1>5. GateInv /\ [SafetyNext]_safetyVars => [Goes]_safetyVars
  BY <1>2, <1>3, GateStepInv
<1> HIDE DEF Goes
<1> QED BY GateInitInv, GateStepInv, <1>4, <1>5, PTL DEF SafetySpec

\* The turns of the gate stay within their bound, and what it keeps of the
\* branch and of explanations has its type.
GateBounds ==
    /\ promptsEnabled \in BOOLEAN /\ savedModes \in Seq(BOOLEAN)
    /\ turn \in 1..MaxTurns /\ abortedTurns \subseteq 1..MaxTurns
    /\ \A c \in Calls :
        /\ calls[c].turn <= MaxTurns
        /\ calls[c].at # "none" /\ calls[c].kind # "write" => calls[c].key \in CommandKeys
    /\ pendingKeys \subseteq CommandKeys
    /\ requests \in [CommandKeys -> [asked : BOOLEAN, explained : BOOLEAN]]

\* A call that only changes its fate keeps its turn, its kind and its key.
LEMMA FateKeepsCall ==
  ASSUME GateInv, NEW c \in Calls, NEW fate \in Fates, Fate(c, fate)
  PROVE  \A d \in Calls : /\ calls'[d].turn = calls[d].turn /\ calls'[d].kind = calls[d].kind
                          /\ calls'[d].key = calls[d].key
                          /\ calls'[d].at \in {calls[d].at, IF d = c THEN fate ELSE calls[d].at}
<1>1. calls \in [Calls -> CallRecords] /\ calls' = [calls EXCEPT ![c].at = fate]
  BY DEF GateInv, Fate
<1> QED BY <1>1 DEF CallRecords

\* Decisions, modes and turns keep to the bounds.
LEMMA GateKeepsBounds == GateInv /\ GateBounds /\ [SafetyNext]_safetyVars => GateBounds'
<1> SUFFICES ASSUME GateInv, GateBounds, [SafetyNext]_safetyVars PROVE GateBounds'
  OBVIOUS
<1>0. /\ MaxTurns \in Nat \ {0} /\ calls \in [Calls -> CallRecords]
      /\ \A c \in Calls : calls[c] \in CallRecords
      /\ decisionQueue # <<>> => Head(decisionQueue) \in Calls
  BY SafetyAssumption DEF GateInv
<1>1. ASSUME NEW c \in Calls, NEW signal \in 0..turn, NEW kind \in {"command", "user", "write"},
             NEW key, kind # "write" => key \in CommandKeys, RequestDecision(c, kind, key, signal)
      PROVE  GateBounds'
  <2>1. /\ calls' = [calls EXCEPT ![c] =
              [at |-> IF promptsEnabled THEN "queued" ELSE "unasked",
               kind |-> kind, key |-> key, turn |-> signal]]
        /\ UNCHANGED <<turn, abortedTurns, requests, pendingKeys>>
        /\ UNCHANGED promptsEnabled /\ UNCHANGED savedModes
    BY <1>1 DEF RequestDecision
  <2>2. signal <= MaxTurns
    BY <1>0 DEF GateBounds
  <2>3. ASSUME NEW d \in Calls
        PROVE  /\ calls'[d].turn <= MaxTurns
               /\ calls'[d].at # "none" /\ calls'[d].kind # "write" => calls'[d].key \in CommandKeys
    <3>1. CASE d = c
      BY <1>0, <1>1, <2>1, <2>2, <3>1
    <3>2. CASE d # c
      BY <1>0, <2>1, <3>2 DEF GateBounds
    <3> QED BY <3>1, <3>2
  <2> QED BY <2>1, <2>3 DEF GateBounds
<1>2. ASSUME NEW c \in Calls, NEW fate \in Fates, Fate(c, fate), calls[c].at # "none",
             UNCHANGED <<turn, abortedTurns>>, UNCHANGED promptsEnabled, UNCHANGED savedModes,
             pendingKeys' \subseteq CommandKeys,
             requests' \in [CommandKeys -> [asked : BOOLEAN, explained : BOOLEAN]]
      PROVE  GateBounds'
  <2>1. \A d \in Calls :
          /\ calls'[d].turn <= MaxTurns
          /\ calls'[d].at # "none" /\ calls'[d].kind # "write" => calls'[d].key \in CommandKeys
    BY <1>2, FateKeepsCall DEF GateBounds
  <2> QED BY <1>2, <2>1 DEF GateBounds
<1>3. CASE Decide \/ DialogFails
  <2>1. PICK fate \in {"blocked", "asked"} : Fate(Head(decisionQueue), fate)
    BY <1>3 DEF Decide, DialogFails
  <2>2. /\ decisionQueue # <<>> /\ calls[Head(decisionQueue)].at # "none"
        /\ UNCHANGED <<turn, abortedTurns, pendingKeys, requests>>
        /\ UNCHANGED promptsEnabled /\ UNCHANGED savedModes
    BY <1>3 DEF Decide, DialogFails
  <2> QED BY <1>0, <1>2, <2>1, <2>2 DEF GateBounds, Fates
<1>4. ASSUME NEW choice \in {"allow", "block", "explain"}, ChooseDecision(choice)
      PROVE  GateBounds'
  <2> DEFINE c == Head(decisionQueue)
             decision == IF Aborted(c) THEN "block" ELSE choice
  <2>1. /\ decisionQueue # <<>> /\ calls[c].at = "asked"
        /\ calls[c].kind = "write" => choice # "explain"
        /\ \E fate \in {"allowed", "explain", "blocked"} : Fate(c, fate)
        /\ UNCHANGED <<turn, abortedTurns>> /\ UNCHANGED promptsEnabled /\ UNCHANGED savedModes
    BY <1>4 DEF ChooseDecision
  <2>2. \/ UNCHANGED <<requests, pendingKeys>>
        \/ /\ requests' = [requests EXCEPT ![calls[c].key].asked = TRUE]
           /\ pendingKeys' = pendingKeys \cup {calls[c].key} /\ choice = "explain"
    BY <1>4 DEF ChooseDecision
  <2> HIDE DEF c, decision
  <2>3. c \in Calls
    BY <1>0, <2>1 DEF c
  <2>4. /\ pendingKeys' \subseteq CommandKeys
        /\ requests' \in [CommandKeys -> [asked : BOOLEAN, explained : BOOLEAN]]
    <3>1. choice = "explain" => calls[c].key \in CommandKeys
      BY <2>1, <2>3 DEF GateBounds
    <3>2. CASE UNCHANGED <<requests, pendingKeys>>
      BY <3>2 DEF GateBounds
    <3>3. CASE /\ requests' = [requests EXCEPT ![calls[c].key].asked = TRUE]
               /\ pendingKeys' = pendingKeys \cup {calls[c].key} /\ choice = "explain"
      BY <3>1, <3>3 DEF GateBounds
    <3> QED BY <2>2, <3>2, <3>3
  <2>5. PICK fate \in {"allowed", "explain", "blocked"} : Fate(c, fate)
    BY <2>1 DEF c
  <2>6. fate \in Fates /\ calls[c].at # "none"
    BY <2>1 DEF Fates, c
  <2> QED BY <1>2, <2>1, <2>3, <2>4, <2>5, <2>6
<1>5. CASE Toggle \/ RestoreMode
  <2>1. promptsEnabled' \in BOOLEAN /\ savedModes' \in Seq(BOOLEAN)
    <3>1. CASE Toggle
      <4>1. promptsEnabled' \in BOOLEAN /\ savedModes' = Append(savedModes, promptsEnabled')
        BY <3>1 DEF Toggle
      <4>2. savedModes \in Seq(BOOLEAN)
        BY DEF GateBounds
      <4> QED BY <4>1, <4>2, AppendProperties
    <3>2. CASE RestoreMode
      <4>1. PICK n \in 0..Len(savedModes) :
              /\ savedModes' = SubSeq(savedModes, 1, n)
              /\ promptsEnabled' = IF n = 0 THEN TRUE ELSE savedModes[n]
        BY <3>2 DEF RestoreMode
      <4>2. savedModes' \in Seq(BOOLEAN)
        BY <4>1 DEF GateBounds
      <4>3. n # 0 => savedModes[n] \in BOOLEAN
        <5>1. savedModes \in Seq(BOOLEAN)
          BY DEF GateBounds
        <5> QED BY <4>1, <5>1, ElementOfSeq, LenProperties
      <4> QED BY <4>1, <4>2, <4>3
    <3> QED BY <1>5, <3>1, <3>2
  <2>2. UNCHANGED <<turn, abortedTurns, calls, requests, pendingKeys>>
    BY <1>5 DEF Toggle, RestoreMode
  <2> QED BY <2>1, <2>2 DEF GateBounds
<1>6. CASE NextTurn \/ AbortTurn
  <2>1. /\ UNCHANGED <<calls, requests, pendingKeys>>
        /\ UNCHANGED promptsEnabled /\ UNCHANGED savedModes
    BY <1>6 DEF NextTurn, AbortTurn
  <2>2. turn \in 1..MaxTurns /\ abortedTurns \subseteq 1..MaxTurns
    BY DEF GateBounds
  <2>3. turn' \in 1..MaxTurns
    BY <1>0, <1>6, <2>2 DEF NextTurn, AbortTurn
  <2>4. abortedTurns' \subseteq 1..MaxTurns
    BY <1>6, <2>2 DEF NextTurn, AbortTurn
  <2> QED BY <2>1, <2>3, <2>4 DEF GateBounds
<1>7. CASE Explained \/ \E k \in CommandKeys : RequestExpires(k)
  <2>1. requests' \in [CommandKeys -> [asked : BOOLEAN, explained : BOOLEAN]]
    <3>1. requests \in [CommandKeys -> [asked : BOOLEAN, explained : BOOLEAN]]
      BY DEF GateBounds
    <3>2. \A k \in CommandKeys :
            /\ requests[k] \in [asked : BOOLEAN, explained : BOOLEAN]
            /\ [requests[k] EXCEPT !.explained = TRUE] \in [asked : BOOLEAN, explained : BOOLEAN]
      BY <3>1
    <3>3. CASE Explained
      BY <3>2, <3>3 DEF Explained
    <3>4. ASSUME NEW k \in CommandKeys, RequestExpires(k)
          PROVE  requests' \in [CommandKeys -> [asked : BOOLEAN, explained : BOOLEAN]]
      BY <3>1, <3>4 DEF RequestExpires
    <3> QED BY <1>7, <3>3, <3>4
  <2>2. /\ pendingKeys' \subseteq CommandKeys /\ UNCHANGED <<calls, turn, abortedTurns>>
        /\ UNCHANGED promptsEnabled /\ UNCHANGED savedModes
    BY <1>7 DEF Explained, RequestExpires, GateBounds
  <2> QED BY <2>1, <2>2 DEF GateBounds
<1>8. CASE UNCHANGED safetyVars
  <2>1. /\ UNCHANGED <<calls, turn, abortedTurns, requests, pendingKeys>>
        /\ UNCHANGED promptsEnabled /\ UNCHANGED savedModes
    BY <1>8 DEF safetyVars
  <2> QED BY <2>1 DEF GateBounds
<1> QED BY <1>1, <1>3, <1>4, <1>5, <1>6, <1>7, <1>8 DEF SafetyNext

\* The gate starts within its bounds, which give its types.
LEMMA GateBoundsGiveTypes ==
  (SafetyInit => GateBounds) /\ (GateInv /\ GateBounds => SafetyTypeOK)
<1>1. SafetyInit => GateBounds
  BY SafetyAssumption, EmptySeq DEF SafetyInit, GateBounds, NoCall
<1>2. ASSUME GateInv, GateBounds PROVE SafetyTypeOK
  <2>1. \A c \in Calls : calls[c] \in CallRecords /\ calls[c].turn \in 0..MaxTurns
    BY <1>2, SafetyAssumption DEF GateInv, GateBounds, CallRecords
  <2> DEFINE Records == [at : Fates, kind : {"command", "user", "write"},
                         key : CommandKeys \cup {FileWrite, "none"}, turn : 0..MaxTurns]
  <2>2. \A c \in Calls : calls[c] \in Records
    BY <2>1 DEF CallRecords
  <2>3. calls \in [Calls -> Records]
    BY <1>2, <2>2 DEF GateInv
  <2> QED BY <1>2, <2>3 DEF GateInv, GateBounds, SafetyTypeOK, Fates
<1> QED BY <1>1, <1>2

(***************************************************************************)
(* QuestionForm.  An editor belongs to a question on the screen that takes *)
(* typed answers, and what is selected was offered; of a single choice the *)
(* form never holds two answers, counting the typed one.                   *)
(***************************************************************************)
OneAnswer(s, typed) == \A a, b \in s : a = b /\ ~typed

OpenFormInv ==
  /\ \A q \in Questions : OptionCount(q) >= 1
  /\ form.plain => tabIndex \in 1..form.questions[1].options /\ inputQuestion = 0
  /\ ~form.plain => tabIndex \in 1..(Len(form.questions) + 1)
  /\ ~form.plain /\ ~IsSubmitTab => optionIndex \in 1..OptionCount(tabIndex)
  /\ inputQuestion # 0 =>
       /\ inputQuestion = tabIndex /\ inputQuestion \in Questions
       /\ form.questions[inputQuestion].allowOther

FormInv ==
  /\ form \in Forms /\ inputQuestion \in {0, tabIndex}
  /\ selections \in [Questions -> SUBSET Nat]
  /\ \A q \in Questions :
       /\ selections[q] \subseteq 1..form.questions[q].options
       /\ q \in customAnswers => form.questions[q].allowOther
       /\ ~form.questions[q].multiple => OneAnswer(selections[q], q \in customAnswers)
       /\ outcome = "answered" => HasAnswer(q)
  /\ outcome = "open" => OpenFormInv

\* What is known of a form that may be asked.
LEMMA FormFacts ==
  ASSUME NEW f \in Forms
  PROVE  /\ Len(f.questions) \in Nat \ {0} /\ 1 \in DOMAIN f.questions
         /\ DOMAIN f.questions = 1..Len(f.questions)
         /\ \A q \in DOMAIN f.questions :
              /\ f.questions[q].options \in Nat /\ f.questions[q].marked \in SUBSET Nat
              /\ f.questions[q].multiple \in BOOLEAN /\ f.questions[q].allowOther \in BOOLEAN
              /\ f.questions[q].marked \subseteq 1..f.questions[q].options
         /\ f.plain => Len(f.questions) = 1 /\ ~f.questions[1].allowOther
<1> DEFINE Q == [options : Nat, marked : SUBSET Nat, multiple : BOOLEAN, allowOther : BOOLEAN]
<1>1. f.questions \in Seq(Q) /\ f.questions # <<>>
  BY FormsAssumption
<1>2. /\ Len(f.questions) \in Nat \ {0} /\ 1 \in DOMAIN f.questions
      /\ DOMAIN f.questions = 1..Len(f.questions)
  BY <1>1, EmptySeq, LenProperties
<1>3. \A q \in DOMAIN f.questions : f.questions[q] \in Q
  BY <1>1, <1>2, ElementOfSeq
<1> QED BY <1>2, <1>3, FormsAssumption

\* The ends of a row of options.
LEMMA MinOfTwo ==
  ASSUME NEW a \in Nat, NEW b \in Nat
  PROVE  Min({a, b}) = IF a <= b THEN a ELSE b
<1>1. \E x \in {a, b} : \A y \in {a, b} : x =< y
  OBVIOUS
<1>2. Min({a, b}) \in {a, b} /\ \A y \in {a, b} : Min({a, b}) =< y
  BY <1>1 DEF Min
<1> QED BY <1>2

\* The upper one.
LEMMA MaxOfTwo ==
  ASSUME NEW a \in Nat, NEW b \in Nat
  PROVE  Max({a, b}) = IF a >= b THEN a ELSE b
<1>1. \E x \in {a, b} : \A y \in {a, b} : x >= y
  OBVIOUS
<1>2. Max({a, b}) \in {a, b} /\ \A y \in {a, b} : Max({a, b}) >= y
  BY <1>1 DEF Max
<1> QED BY <1>2

\* No form is open at first.
LEMMA InitIsForm == FormInit => FormInv
<1> SUFFICES ASSUME FormInit PROVE FormInv
  OBVIOUS
<1> QED BY DEF FormInit, FormInv, OneAnswer

\* The form starts with what the agent marked.
LEMMA AskKeepsForm ==
  ASSUME FormInv, NEW f \in Forms, AskForm(f)
  PROVE  FormInv'
<1>1. /\ form' = f /\ tabIndex' = 1 /\ optionIndex' = 1 /\ inputQuestion' = 0
      /\ selections' = [q \in DOMAIN f.questions |-> Marked(f, q)] /\ customAnswers' = {}
      /\ outcome' \in {"open", "refused"}
      /\ outcome' = "open" =>
           \A q \in DOMAIN f.questions : f.questions[q].options # 0 \/ f.questions[q].allowOther
  BY DEF AskForm
<1>2. ASSUME NEW q \in DOMAIN f.questions
      PROVE  /\ Marked(f, q) \subseteq 1..f.questions[q].options
             /\ ~f.questions[q].multiple => OneAnswer(Marked(f, q), FALSE)
  BY FormFacts DEF Marked, OneAnswer
<1>3. Questions' = DOMAIN f.questions
  BY <1>1 DEF Questions
<1>4. ASSUME outcome' = "open" PROVE OpenFormInv'
  <2>1. ASSUME NEW q \in DOMAIN f.questions PROVE OptionCount(q)' >= 1
    <3>1. /\ f.questions[q].options \in Nat
          /\ f.questions[q].options # 0 \/ f.questions[q].allowOther
      BY <1>1, <1>4, FormFacts
    <3> QED BY <1>1, <3>1 DEF OptionCount
  <2>2. f.plain => 1 \in 1..f.questions[1].options
    BY <1>1, <1>4, FormFacts
  <2>3. ~IsSubmitTab' => 1 \in 1..OptionCount(1)'
    BY <1>1, <2>1, FormFacts DEF OptionCount
  <2> QED BY <1>1, <1>3, <2>1, <2>2, <2>3, FormFacts DEF OpenFormInv
<1>5. selections' \in [DOMAIN f.questions -> SUBSET Nat]
  <2>1. \A q \in DOMAIN f.questions : Marked(f, q) \in SUBSET Nat
    <3>1. \A q \in DOMAIN f.questions : Marked(f, q) \subseteq f.questions[q].marked
      BY DEF Marked
    <3> QED BY <3>1, FormFacts
  <2> QED BY <1>1, <2>1
<1>6. ASSUME NEW q \in DOMAIN f.questions
      PROVE  /\ selections'[q] \subseteq 1..f.questions[q].options
             /\ ~f.questions[q].multiple => OneAnswer(selections'[q], q \in customAnswers')
  <2>1. selections'[q] = Marked(f, q) /\ q \notin customAnswers'
    BY <1>1
  <2> QED BY <1>2, <2>1 DEF OneAnswer
<1> QED BY <1>1, <1>3, <1>4, <1>5, <1>6 DEF FormInv, OneAnswer

\* Moves change neither the form nor what is chosen in it.
LEMMA MovesKeepForm ==
  ASSUME FormInv, NEW b \in BOOLEAN,
         MoveTab(b) \/ MoveOption(b) \/ MovePlain(b) \/ Escape \/ UNCHANGED formVars
  PROVE  FormInv'
<1> DEFINE n == Len(form.questions)
<1>1. /\ form \in Forms /\ form' = form /\ Questions' = Questions
      /\ selections' = selections /\ customAnswers' = customAnswers
      /\ \A q \in Questions : OptionCount(q)' = OptionCount(q)
  BY DEF FormInv, MoveTab, MoveOption, MovePlain, Escape, formVars, Questions, OptionCount
<1>2. n \in Nat \ {0} /\ Questions = 1..n /\ (form.plain => n = 1)
  BY <1>1, FormFacts DEF Questions
<1>3. \A q \in Questions : form.questions[q].options \in Nat /\ OptionCount(q) \in Nat
  BY <1>1, FormFacts DEF Questions, OptionCount
<1>4. outcome' = "answered" => outcome = "answered"
  BY DEF MoveTab, MoveOption, MovePlain, Escape, Keys, PlainKeys, formVars
<1>5. ASSUME inputQuestion' \in {0, tabIndex'}, outcome' = "open" => OpenFormInv'
      PROVE  FormInv'
  <2>1. ASSUME NEW q \in Questions'
        PROVE  /\ selections'[q] \subseteq 1..form'.questions[q].options
               /\ q \in customAnswers' => form'.questions[q].allowOther
               /\ ~form'.questions[q].multiple => OneAnswer(selections'[q], q \in customAnswers')
               /\ outcome' = "answered" => HasAnswer(q)'
    BY <1>1, <1>4 DEF FormInv, OneAnswer, HasAnswer
  <2> QED BY <1>1, <1>5, <2>1 DEF FormInv, OneAnswer
<1>6. CASE MoveTab(b)
  <2> DEFINE total == n + 1
             delta == IF b THEN total - 1 ELSE 1
  <2>1. /\ ~form.plain /\ inputQuestion = 0 /\ inputQuestion' = 0 /\ outcome = "open"
        /\ tabIndex' = ((tabIndex - 1 + delta) % total) + 1 /\ optionIndex' = 1
    BY <1>6 DEF MoveTab, Keys
  <2>2. OpenFormInv
    BY <2>1 DEF FormInv
  <2>3. tabIndex' \in 1..(n + 1)
    <3>1. tabIndex \in 1..total /\ total \in Nat \ {0} /\ delta \in Nat
      BY <1>2, <2>1, <2>2 DEF OpenFormInv
    <3>2. tabIndex - 1 + delta \in Nat
      BY <3>1
    <3> HIDE DEF delta, total
    <3>3. (tabIndex - 1 + delta) % total \in 0..(total - 1)
      BY <3>1, <3>2
    <3>4. tabIndex' \in 1..total
      BY <2>1, <3>1, <3>3
    <3> QED BY <3>4 DEF total
  <2>4. ~IsSubmitTab' => tabIndex' \in Questions
    BY <1>1, <1>2, <2>1, <2>3 DEF IsSubmitTab
  <2>5. \A q \in Questions : 1 \in 1..OptionCount(q)
    BY <1>3, <2>2 DEF OpenFormInv
  <2>6. ~IsSubmitTab' => optionIndex' \in 1..OptionCount(tabIndex)'
    BY <1>1, <2>1, <2>4, <2>5 DEF OptionCount
  <2>7. OpenFormInv'
    BY <1>1, <2>1, <2>2, <2>3, <2>6 DEF OpenFormInv
  <2> QED BY <1>5, <2>1, <2>7
<1>7. CASE MoveOption(b)
  <2>1. /\ ~form.plain /\ inputQuestion = 0 /\ inputQuestion' = 0 /\ outcome = "open"
        /\ ~IsSubmitTab /\ tabIndex' = tabIndex
        /\ optionIndex' = IF b THEN Max({1, optionIndex - 1})
                          ELSE Min({OptionCount(tabIndex), optionIndex + 1})
    BY <1>7 DEF MoveOption, Keys
  <2>2. OpenFormInv
    BY <2>1 DEF FormInv
  <2>3. tabIndex \in Questions /\ optionIndex \in 1..OptionCount(tabIndex)
    BY <1>2, <2>1, <2>2 DEF OpenFormInv, IsSubmitTab
  <2>4. optionIndex' \in 1..OptionCount(tabIndex)
    <3>1. OptionCount(tabIndex) \in Nat /\ optionIndex - 1 \in Nat /\ optionIndex + 1 \in Nat
      BY <1>3, <2>3
    <3>2. CASE b
      <4>1. optionIndex' = IF 1 >= optionIndex - 1 THEN 1 ELSE optionIndex - 1
        BY <2>1, <3>1, <3>2, MaxOfTwo
      <4> QED BY <2>3, <3>1, <4>1
    <3>3. CASE ~b
      <4>1. optionIndex' = IF OptionCount(tabIndex) <= optionIndex + 1
                           THEN OptionCount(tabIndex) ELSE optionIndex + 1
        BY <2>1, <3>1, <3>3, MinOfTwo
      <4> QED BY <2>3, <3>1, <4>1
    <3> QED BY <3>2, <3>3
  <2>5. OptionCount(tabIndex)' = OptionCount(tabIndex)
    BY <1>1, <2>1 DEF OptionCount
  <2>6. OpenFormInv'
    BY <1>1, <2>1, <2>2, <2>4, <2>5 DEF OpenFormInv
  <2> QED BY <1>5, <2>1, <2>6
<1>8. CASE MovePlain(b)
  <2>1. /\ form.plain /\ outcome = "open" /\ inputQuestion' = inputQuestion
        /\ tabIndex' = IF b THEN Max({1, tabIndex - 1})
                       ELSE Min({form.questions[1].options, tabIndex + 1})
    BY <1>8 DEF MovePlain, PlainKeys
  <2>2. OpenFormInv
    BY <2>1 DEF FormInv
  <2>3. /\ inputQuestion = 0 /\ tabIndex \in 1..form.questions[1].options
        /\ form.questions[1].options \in Nat
    BY <1>2, <1>3, <2>1, <2>2 DEF OpenFormInv
  <2>4. tabIndex' \in 1..form.questions[1].options
    <3>1. tabIndex - 1 \in Nat /\ tabIndex + 1 \in Nat
      BY <2>3
    <3>2. CASE b
      <4>1. tabIndex' = IF 1 >= tabIndex - 1 THEN 1 ELSE tabIndex - 1
        BY <2>1, <3>1, <3>2, MaxOfTwo
      <4> QED BY <2>3, <4>1
    <3>3. CASE ~b
      <4>1. tabIndex' = IF form.questions[1].options <= tabIndex + 1
                        THEN form.questions[1].options ELSE tabIndex + 1
        BY <2>1, <2>3, <3>1, <3>3, MinOfTwo
      <4> QED BY <2>3, <4>1
    <3> QED BY <3>2, <3>3
  <2>5. OpenFormInv'
    BY <1>1, <2>1, <2>2, <2>3, <2>4 DEF OpenFormInv
  <2> QED BY <1>5, <2>1, <2>3, <2>5
<1>9. CASE Escape \/ UNCHANGED formVars
  <2>1. /\ tabIndex' = tabIndex /\ optionIndex' = optionIndex
        /\ inputQuestion' \in {0, inputQuestion} /\ (outcome' = "open" => outcome = "open")
    BY <1>9 DEF Escape, formVars
  <2>2. inputQuestion' \in {0, tabIndex'}
    BY <2>1 DEF FormInv
  <2>3. IsSubmitTab' = IsSubmitTab /\ OptionCount(tabIndex)' = OptionCount(tabIndex)
    BY <1>1, <2>1 DEF IsSubmitTab, OptionCount
  <2>4. ASSUME outcome' = "open" PROVE OpenFormInv'
    <3>1. OpenFormInv
      BY <2>1, <2>4 DEF FormInv
    <3> QED BY <1>1, <2>1, <2>3, <3>1 DEF OpenFormInv
  <2> QED BY <1>5, <2>2, <2>4
<1> QED BY <1>6, <1>7, <1>8, <1>9

\* Choosing an option clears the typed answer of a single choice.
LEMMA SelectKeepsForm ==
  ASSUME FormInv, SelectCurrentOption
  PROVE  FormInv'
<1> DEFINE n == Len(form.questions)
           question == form.questions[tabIndex]
<1>1. /\ outcome = "open" /\ inputQuestion = 0 /\ ~form.plain /\ ~IsSubmitTab
      /\ form' = form /\ outcome' = outcome /\ OpenFormInv
  BY DEF SelectCurrentOption, Keys, FormInv
<1>2. /\ n \in Nat \ {0} /\ Questions = 1..n /\ Questions' = Questions
      /\ \A q \in Questions : /\ form.questions[q].options \in Nat
                               /\ form.questions[q].allowOther \in BOOLEAN
                               /\ form.questions[q].multiple \in BOOLEAN
  BY <1>1, FormFacts DEF FormInv, Questions
<1>3. tabIndex \in Questions /\ optionIndex \in 1..OptionCount(tabIndex)
  BY <1>1, <1>2 DEF OpenFormInv, IsSubmitTab
<1>4. \A q \in Questions : OptionCount(q)' = OptionCount(q) /\ OptionCount(q) >= 1
                          /\ OptionCount(q) \in Nat
  BY <1>1, <1>2 DEF OptionCount, OpenFormInv
<1>5. CASE question.allowOther /\ optionIndex = Other(tabIndex)
  <2>1. /\ inputQuestion' = tabIndex /\ tabIndex' = tabIndex /\ optionIndex' = optionIndex
        /\ selections' = selections /\ customAnswers' = customAnswers
    BY <1>5 DEF SelectCurrentOption
  <2>2. OpenFormInv'
    BY <1>1, <1>2, <1>3, <1>4, <1>5, <2>1 DEF OpenFormInv, IsSubmitTab
  <2> QED BY <1>1, <1>2, <2>1, <2>2 DEF FormInv, OneAnswer
<1>6. CASE ~(question.allowOther /\ optionIndex = Other(tabIndex))
  <2>1. inputQuestion' = 0 /\ optionIndex \in 1..question.options
    <3>1. inputQuestion' = 0
      BY <1>1, <1>6 DEF SelectCurrentOption
    <3>2. optionIndex \in 1..question.options
      BY <1>2, <1>3, <1>6 DEF OptionCount, Other
    <3> QED BY <3>1, <3>2
  <2>2. ASSUME \/ tabIndex' = tabIndex /\ optionIndex' = optionIndex
               \/ tabIndex' = tabIndex + 1 /\ optionIndex' = 1
        PROVE  OpenFormInv'
    <3>1. CASE tabIndex' = tabIndex /\ optionIndex' = optionIndex
      BY <1>1, <1>2, <1>3, <1>4, <2>1, <3>1 DEF OpenFormInv, IsSubmitTab
    <3>2. CASE tabIndex' = tabIndex + 1 /\ optionIndex' = 1
      <4>1. tabIndex' \in 1..(n + 1) /\ (~IsSubmitTab' => tabIndex' \in Questions)
        BY <1>1, <1>2, <1>3, <3>2 DEF IsSubmitTab
      <4>2. ~IsSubmitTab' => 1 \in 1..OptionCount(tabIndex)'
        <5>1. OptionCount(tabIndex)' = OptionCount(tabIndex')
          BY <1>1 DEF OptionCount
        <5>2. \A q \in Questions : 1 \in 1..OptionCount(q)
          BY <1>4
        <5> QED BY <4>1, <5>1, <5>2
      <4> QED BY <1>1, <1>2, <1>4, <2>1, <3>2, <4>1, <4>2 DEF OpenFormInv
    <3> QED BY <2>2, <3>1, <3>2
  <2>3. CASE question.multiple
    <3>1. /\ selections' = [selections EXCEPT ![tabIndex] = SymDiff(@, {optionIndex})]
          /\ customAnswers' = customAnswers /\ tabIndex' = tabIndex /\ optionIndex' = optionIndex
      BY <1>6, <2>3 DEF SelectCurrentOption
    <3>2. SymDiff(selections[tabIndex], {optionIndex}) \subseteq 1..question.options
      BY <1>3, <2>1 DEF FormInv, SymDiff
    <3>3. /\ selections' \in [Questions -> SUBSET Nat]
          /\ \A q \in Questions :
               selections'[q] = IF q = tabIndex THEN SymDiff(selections[q], {optionIndex})
                                ELSE selections[q]
      <4>1. selections \in [Questions -> SUBSET Nat] /\ 1..question.options \subseteq Nat
        BY <1>2, <1>3 DEF FormInv
      <4> QED BY <1>3, <3>1, <3>2, <4>1
    <3>4. ASSUME NEW q \in Questions
          PROVE  /\ selections'[q] \subseteq 1..form.questions[q].options
                 /\ q \in customAnswers' => form.questions[q].allowOther
                 /\ ~form.questions[q].multiple => OneAnswer(selections'[q], q \in customAnswers')
      BY <2>3, <3>1, <3>2, <3>3 DEF FormInv
    <3> QED BY <1>1, <1>2, <2>1, <2>2, <3>1, <3>3, <3>4 DEF FormInv, OneAnswer
  <2>4. CASE ~question.multiple
    <3>1. /\ selections' = [selections EXCEPT ![tabIndex] = {optionIndex}]
          /\ customAnswers' = customAnswers \ {tabIndex}
          /\ tabIndex' = tabIndex + 1 /\ optionIndex' = 1
      BY <1>6, <2>4 DEF SelectCurrentOption, ChooseOption
    <3>2. /\ selections' \in [Questions -> SUBSET Nat]
          /\ \A q \in Questions :
               selections'[q] = IF q = tabIndex THEN {optionIndex} ELSE selections[q]
      <4>1. selections \in [Questions -> SUBSET Nat] /\ {optionIndex} \subseteq Nat
        BY <1>2, <1>3, <2>1 DEF FormInv
      <4> QED BY <1>3, <3>1, <4>1
    <3>3. ASSUME NEW q \in Questions
          PROVE  /\ selections'[q] \subseteq 1..form.questions[q].options
                 /\ q \in customAnswers' => form.questions[q].allowOther
                 /\ ~form.questions[q].multiple => OneAnswer(selections'[q], q \in customAnswers')
      <4>1. CASE q = tabIndex
        BY <2>1, <3>1, <3>2, <4>1 DEF OneAnswer
      <4>2. CASE q # tabIndex
        BY <3>1, <3>2, <4>2 DEF FormInv, OneAnswer
      <4> QED BY <4>1, <4>2
    <3> QED BY <1>1, <1>2, <2>1, <2>2, <3>1, <3>2, <3>3 DEF FormInv, OneAnswer
  <2> QED BY <2>3, <2>4
<1> QED BY <1>5, <1>6

\* A typed answer clears the options of a single choice.
LEMMA SubmitKeepsForm ==
  ASSUME FormInv, NEW text \in BOOLEAN, SubmitText(text)
  PROVE  FormInv'
<1> DEFINE n == Len(form.questions)
           typed == inputQuestion
           single == ~form.questions[typed].multiple
<1>1. /\ outcome = "open" /\ typed # 0 /\ inputQuestion' = 0
      /\ form' = form /\ outcome' = outcome /\ OpenFormInv
      /\ customAnswers' = IF text THEN customAnswers \cup {typed} ELSE customAnswers \ {typed}
      /\ IF text /\ single
         THEN /\ selections' = [selections EXCEPT ![typed] = {}]
              /\ tabIndex' = typed + 1 /\ optionIndex' = 1
         ELSE UNCHANGED <<selections, tabIndex, optionIndex>>
  BY DEF SubmitText, FormInv
<1>2. /\ n \in Nat \ {0} /\ Questions = 1..n /\ Questions' = Questions
      /\ \A q \in Questions : /\ form.questions[q].options \in Nat
                               /\ form.questions[q].allowOther \in BOOLEAN
  BY <1>1, FormFacts DEF FormInv, Questions
<1>3. /\ ~form.plain /\ typed = tabIndex /\ typed \in Questions
      /\ form.questions[typed].allowOther
  BY <1>1 DEF OpenFormInv
<1>4. \A q \in Questions : OptionCount(q)' = OptionCount(q) /\ OptionCount(q) >= 1
                          /\ OptionCount(q) \in Nat
  BY <1>1, <1>2 DEF OptionCount, OpenFormInv
<1>5. OpenFormInv'
  <2>1. CASE text /\ single
    <3>1. tabIndex' \in 1..(n + 1) /\ (~IsSubmitTab' => tabIndex' \in Questions)
      BY <1>1, <1>2, <1>3, <2>1 DEF IsSubmitTab
    <3>2. ~IsSubmitTab' => 1 \in 1..OptionCount(tabIndex)'
      <4>1. OptionCount(tabIndex)' = OptionCount(tabIndex')
        BY <1>1 DEF OptionCount
      <4>2. \A q \in Questions : 1 \in 1..OptionCount(q)
        BY <1>4
      <4> QED BY <3>1, <4>1, <4>2
    <3> QED BY <1>1, <1>2, <1>3, <1>4, <2>1, <3>1, <3>2 DEF OpenFormInv
  <2>2. CASE ~(text /\ single)
    <3>1. tabIndex' = tabIndex /\ optionIndex' = optionIndex
      BY <1>1, <2>2
    <3>2. IsSubmitTab' = IsSubmitTab /\ OptionCount(tabIndex)' = OptionCount(tabIndex)
      BY <1>1, <3>1 DEF IsSubmitTab, OptionCount
    <3> QED BY <1>1, <1>2, <1>3, <1>4, <3>1, <3>2 DEF OpenFormInv
  <2> QED BY <2>1, <2>2
<1>6. /\ selections' \in [Questions -> SUBSET Nat]
      /\ \A q \in Questions : q # typed => selections'[q] = selections[q]
      /\ selections'[typed] = IF text /\ single THEN {} ELSE selections[typed]
  <2>1. selections \in [Questions -> SUBSET Nat]
    BY DEF FormInv
  <2>2. CASE text /\ single
    <3>1. selections' = [selections EXCEPT ![typed] = {}]
      BY <1>1, <2>2
    <3> QED BY <1>3, <2>1, <2>2, <3>1
  <2>3. CASE ~(text /\ single)
    <3>1. selections' = selections
      BY <1>1, <2>3
    <3> QED BY <2>1, <2>3, <3>1
  <2> QED BY <2>2, <2>3
<1>7. ASSUME NEW q \in Questions
      PROVE  /\ selections'[q] \subseteq 1..form.questions[q].options
             /\ q \in customAnswers' => form.questions[q].allowOther
             /\ ~form.questions[q].multiple => OneAnswer(selections'[q], q \in customAnswers')
  <2>1. /\ selections[q] \subseteq 1..form.questions[q].options
        /\ q \in customAnswers => form.questions[q].allowOther
        /\ ~form.questions[q].multiple => OneAnswer(selections[q], q \in customAnswers)
    BY DEF FormInv
  <2>2. CASE q = typed
    BY <1>1, <1>3, <1>6, <2>1, <2>2 DEF OneAnswer
  <2>3. CASE q # typed
    <3>1. q \in customAnswers' <=> q \in customAnswers
      BY <1>1, <2>3
    <3> QED BY <1>6, <2>1, <2>3, <3>1 DEF OneAnswer
  <2> QED BY <2>2, <2>3
<1> QED BY <1>1, <1>2, <1>5, <1>6, <1>7 DEF FormInv, OneAnswer

\* The plain dialog offers no typed answer, and the form is only submitted whole.
LEMMA FinishKeepsForm ==
  ASSUME FormInv, FinishQuestionnaire \/ TogglePlain \/ FinishPlain
  PROVE  FormInv'
<1>1. /\ form \in Forms /\ form' = form /\ Questions' = Questions
      /\ tabIndex' = tabIndex /\ optionIndex' = optionIndex
      /\ inputQuestion' = inputQuestion /\ customAnswers' = customAnswers
      /\ \A q \in Questions : OptionCount(q)' = OptionCount(q)
      /\ IsSubmitTab' = IsSubmitTab /\ OptionCount(tabIndex)' = OptionCount(tabIndex)
      /\ outcome = "open" /\ OpenFormInv
  BY DEF FormInv, FinishQuestionnaire, TogglePlain, FinishPlain, Keys, PlainKeys,
         Questions, OptionCount, IsSubmitTab
<1>2. OpenFormInv'
  BY <1>1 DEF OpenFormInv
<1>3. CASE FinishQuestionnaire
  <2>1. selections' = selections /\ \A q \in Questions : HasAnswer(q)
    BY <1>3 DEF FinishQuestionnaire
  <2>2. \A q \in Questions : HasAnswer(q)'
    BY <1>1, <2>1 DEF HasAnswer
  <2> QED BY <1>1, <1>2, <2>1, <2>2 DEF FormInv, OneAnswer
<1>4. CASE TogglePlain \/ FinishPlain
  <2>1. form.plain /\ Questions = {1} /\ 1 \notin customAnswers
    <3>1. form.plain
      BY <1>4 DEF TogglePlain, FinishPlain, PlainKeys
    <3>2. Len(form.questions) = 1 /\ ~form.questions[1].allowOther /\ Questions = 1..1
      BY <1>1, <3>1, FormFacts DEF Questions
    <3> QED BY <3>1, <3>2 DEF FormInv
  <2>2. /\ tabIndex \in 1..form.questions[1].options /\ form.questions[1].options \in Nat
        /\ selections \in [Questions -> SUBSET Nat]
        /\ selections[1] \subseteq 1..form.questions[1].options
        /\ ~form.questions[1].multiple => OneAnswer(selections[1], FALSE)
    <3>1. form.questions[1].options \in Nat
      BY <1>1, FormFacts
    <3>2. tabIndex \in 1..form.questions[1].options
      BY <1>1, <2>1 DEF OpenFormInv
    <3>3. 1 \in Questions
      BY <2>1
    <3>4. /\ selections \in [Questions -> SUBSET Nat]
          /\ selections[1] \subseteq 1..form.questions[1].options
          /\ ~form.questions[1].multiple => OneAnswer(selections[1], 1 \in customAnswers)
      BY <3>3 DEF FormInv
    <3> QED BY <2>1, <3>1, <3>2, <3>4 DEF OneAnswer
  <2> DEFINE chosen == IF form.questions[1].multiple THEN selections[1] ELSE {tabIndex}
  <2>3. PICK s :
          /\ selections' = [selections EXCEPT ![1] = s]
          /\ s \subseteq 1..form.questions[1].options
          /\ ~form.questions[1].multiple => OneAnswer(s, FALSE)
          /\ outcome' = "answered" => s # {}
    <3>1. CASE TogglePlain
      <4>1. /\ selections' = [selections EXCEPT ![1] = SymDiff(selections[1], {tabIndex})]
            /\ form.questions[1].multiple /\ outcome' = outcome
        BY <3>1 DEF TogglePlain
      <4>2. SymDiff(selections[1], {tabIndex}) \subseteq 1..form.questions[1].options
        BY <2>2 DEF SymDiff
      <4> QED BY <1>1, <4>1, <4>2
    <3>2. CASE FinishPlain
      <4>1. /\ selections' = [selections EXCEPT ![1] = chosen]
            /\ outcome' = IF chosen = {} THEN "cancelled" ELSE "answered"
        BY <3>2 DEF FinishPlain
      <4>2. /\ chosen \subseteq 1..form.questions[1].options
            /\ ~form.questions[1].multiple => OneAnswer(chosen, FALSE)
        BY <2>2 DEF OneAnswer
      <4>3. outcome' = "answered" => chosen # {}
        BY <4>1
      <4> HIDE DEF chosen
      <4> QED BY <4>1, <4>2, <4>3
    <3> QED BY <1>4, <3>1, <3>2
  <2>4. /\ selections' \in [Questions -> SUBSET Nat] /\ selections'[1] = s
    <3>1. s \in SUBSET Nat
      BY <2>2, <2>3
    <3> QED BY <2>1, <2>2, <2>3, <3>1
  <2>5. outcome' = "answered" => HasAnswer(1)'
    BY <2>3, <2>4 DEF HasAnswer
  <2> QED BY <1>1, <1>2, <2>1, <2>3, <2>4, <2>5 DEF FormInv, OneAnswer
<1> QED BY <1>3, <1>4

\* FormInv is inductive.
LEMMA StepKeepsForm == FormInv /\ [FormNext]_formVars => FormInv'
<1> SUFFICES ASSUME FormInv, [FormNext]_formVars PROVE FormInv'
  OBVIOUS
<1>1. CASE \E f \in Forms : AskForm(f)
  BY <1>1, AskKeepsForm
<1>2. CASE SelectCurrentOption
  BY <1>2, SelectKeepsForm
<1>3. CASE \E b \in BOOLEAN : SubmitText(b)
  BY <1>3, SubmitKeepsForm
<1>4. CASE FinishQuestionnaire \/ TogglePlain \/ FinishPlain
  BY <1>4, FinishKeepsForm
<1>5. CASE \/ \E b \in BOOLEAN : MoveTab(b) \/ MoveOption(b) \/ MovePlain(b)
           \/ Escape \/ UNCHANGED formVars
  <2>1. PICK b \in BOOLEAN :
          MoveTab(b) \/ MoveOption(b) \/ MovePlain(b) \/ Escape \/ UNCHANGED formVars
    BY <1>5
  <2> QED BY <2>1, MovesKeepForm
<1> QED BY <1>1, <1>2, <1>3, <1>4, <1>5 DEF FormNext

\* However a form is filled in, a single choice has one answer at most, and an
\* answered form has an offered answer to every question
\* (interactive-questions.ts, the handlers of both dialogs).
THEOREM FormSoundness == FormSpec => []AnswersAreSound
<1>1. FormInv => AnswersAreSound
  <2> SUFFICES ASSUME FormInv, NEW q \in Questions
               PROVE  /\ ~form.questions[q].multiple => Cardinality(Answer(q)) <= 1
                      /\ outcome = "answered" => Answer(q) # {}
                      /\ Answer(q) \subseteq 1..OptionCount(q)
    BY DEF FormInv, AnswersAreSound
  <2>1. /\ form.questions[q].options \in Nat /\ form.questions[q].allowOther \in BOOLEAN
        /\ selections[q] \subseteq 1..form.questions[q].options
        /\ q \in customAnswers => form.questions[q].allowOther
        /\ ~form.questions[q].multiple => OneAnswer(selections[q], q \in customAnswers)
        /\ outcome = "answered" => HasAnswer(q)
    BY FormFacts DEF FormInv, Questions
  <2>2. Answer(q) \subseteq 1..OptionCount(q)
    BY <2>1 DEF Answer, Other, OptionCount
  <2>3. outcome = "answered" => Answer(q) # {}
    BY <2>1 DEF Answer, HasAnswer
  <2>4. ASSUME ~form.questions[q].multiple PROVE Cardinality(Answer(q)) <= 1
    <3>1. \A a, b \in Answer(q) : a = b
      BY <2>1, <2>4 DEF Answer, OneAnswer
    <3>2. CASE Answer(q) = {}
      BY <3>2, FS_EmptySet
    <3>3. CASE Answer(q) # {}
      <4>1. PICK a : Answer(q) = {a}
        BY <3>1, <3>3
      <4>2. Cardinality({a}) = 1
        BY FS_Singleton
      <4> QED BY <4>1, <4>2
    <3> QED BY <3>2, <3>3
  <2> QED BY <2>2, <2>3, <2>4
<1> QED BY <1>1, InitIsForm, StepKeepsForm, PTL DEF FormSpec

\* Tabs, editors and answers keep the types of a form.
LEMMA FormKeepsTypes == FormInv /\ FormTypeOK /\ [FormNext]_formVars => FormTypeOK'
<1> SUFFICES ASSUME FormInv, FormTypeOK, [FormNext]_formVars PROVE FormTypeOK'
  OBVIOUS
<1>1. FormInv'
  BY StepKeepsForm
<1> DEFINE Longest(f) == Max({Len(f.questions), f.questions[1].options}) + 1
<1>2. \A f \in Forms :
        /\ Len(f.questions) \in Nat \ {0} /\ f.questions[1].options \in Nat
        /\ 1..(Len(f.questions) + 1) \subseteq 1..Longest(f)
        /\ 1..f.questions[1].options \subseteq 1..Longest(f)
  <2> SUFFICES ASSUME NEW f \in Forms
               PROVE  /\ Len(f.questions) \in Nat \ {0} /\ f.questions[1].options \in Nat
                      /\ 1..(Len(f.questions) + 1) \subseteq 1..Longest(f)
                      /\ 1..f.questions[1].options \subseteq 1..Longest(f)
    OBVIOUS
  <2>1. Len(f.questions) \in Nat \ {0} /\ f.questions[1].options \in Nat
    BY FormFacts
  <2>2. Longest(f) \in Nat /\ Longest(f) >= Len(f.questions) + 1 /\ Longest(f) >= f.questions[1].options
    BY <2>1, MaxOfTwo
  <2> HIDE DEF Longest
  <2> QED BY <2>1, <2>2
<1> HIDE DEF Longest
<1>3. form' \in Forms /\ \A q \in Questions' : selections'[q] \subseteq 1..form'.questions[q].options
  BY <1>1 DEF FormInv
<1>4. outcome' \in {"none", "open", "refused", "cancelled", "answered"}
  BY DEF FormTypeOK, FormNext, formVars, AskForm, Escape, MoveTab, MoveOption,
         SelectCurrentOption, SubmitText, FinishQuestionnaire, MovePlain, TogglePlain, FinishPlain
<1>5. CASE \E f \in Forms : AskForm(f)
  <2>1. tabIndex' = 1 /\ inputQuestion' = 0 /\ customAnswers' = {}
    BY <1>5 DEF AskForm
  <2>2. 1 \in 1..Longest(form')
    BY <1>2, <1>3
  <2> QED BY <1>3, <1>4, <2>1, <2>2 DEF FormTypeOK, Longest
<1>6. CASE UNCHANGED form
  <2>1. customAnswers' \subseteq Questions
    <3>1. UNCHANGED customAnswers \/ \E b \in BOOLEAN : SubmitText(b) \/ SelectCurrentOption
          \/ \E f \in Forms : AskForm(f)
      BY DEF FormNext, formVars, Escape, MoveTab, MoveOption,
         FinishQuestionnaire, MovePlain, TogglePlain, FinishPlain
    <3> QED BY <3>1 DEF FormTypeOK, SubmitText, SelectCurrentOption, ChooseOption, AskForm
  <2>2. CASE outcome' = "open"
    <3>1. OpenFormInv'
      BY <1>1, <2>2 DEF FormInv
    <3>2. tabIndex' \in 1..Longest(form')
      BY <1>2, <1>3, <3>1 DEF OpenFormInv
    <3>3. inputQuestion' \in Questions' \cup {0}
      BY <3>1 DEF OpenFormInv
    <3> QED BY <1>3, <1>4, <1>6, <2>1, <3>2, <3>3 DEF FormTypeOK, Longest, Questions
  <2>3. CASE outcome' # "open"
    <3>1. (UNCHANGED tabIndex /\ inputQuestion' \in {inputQuestion, 0})
          \/ \E f \in Forms : AskForm(f)
      BY <2>3 DEF FormNext, formVars, Escape, MoveTab, MoveOption, SelectCurrentOption,
         SubmitText, FinishQuestionnaire, MovePlain, TogglePlain, FinishPlain, Keys, PlainKeys
    <3>2. CASE UNCHANGED tabIndex /\ inputQuestion' \in {inputQuestion, 0}
      BY <1>3, <1>4, <1>6, <2>1, <3>2 DEF FormTypeOK, Questions
    <3> QED BY <1>5, <3>1, <3>2
  <2> QED BY <2>2, <2>3
<1> QED BY <1>5, <1>6 DEF FormNext, formVars, Escape, MoveTab, MoveOption, SelectCurrentOption,
      SubmitText, FinishQuestionnaire, MovePlain, TogglePlain, FinishPlain

\* A form starts with its types.
LEMMA FormTypesInit == FormInit => FormTypeOK
<1> SUFFICES ASSUME FormInit PROVE FormTypeOK
  OBVIOUS
<1>1. form \in Forms /\ Len(form.questions) \in Nat \ {0} /\ form.questions[1].options \in Nat
  BY FormFacts DEF FormInit
<1>2. 1 \in 1..(Max({Len(form.questions), form.questions[1].options}) + 1)
  BY <1>1, MaxOfTwo
<1> QED BY <1>1, <1>2 DEF FormInit, FormTypeOK, Questions

(***************************************************************************)
(* Todos.  Every list in memory, on the branch or still to be appended     *)
(* gives its ids once and below the next one; what the branch and the      *)
(* waiting results rebuild is the list in memory, unless it was overtaken. *)
(***************************************************************************)
TodoItems == [id : Nat, done : BOOLEAN]
Lists == [todos : Seq(TodoItems), nextId : Nat]

GivesIdsOnce(l) ==
  \A i, j \in 1..Len(l.todos) :
    l.todos[i].id < l.nextId /\ (l.todos[i].id = l.todos[j].id => i = j)

SoundLists == {l \in Lists : GivesIdsOnce(l)}

TodoInv ==
  /\ list \in SoundLists /\ branch \in Seq(SoundLists) /\ results \in Seq(SoundLists)
  /\ ~overtaken => Reconstruct(branch \o results) = list
  /\ overtaken => \E k \in DOMAIN branch : branch[k] = list

\* The empty list is sound.
LEMMA EmptyListIsSound == EmptyList \in SoundLists
<1>1. <<>> \in Seq(TodoItems) /\ Len(<<>>) = 0
  BY EmptySeq
<1> QED BY <1>1 DEF EmptyList, SoundLists, Lists, GivesIdsOnce

\* What a sequence keeps when one element is removed.
LEMMA RemoveAtKeepsOthers ==
  ASSUME NEW S, NEW s \in Seq(S), NEW i \in 1..Len(s)
  PROVE  /\ RemoveAt(s, i) \in Seq(S) /\ Len(RemoveAt(s, i)) = Len(s) - 1
         /\ \A j \in 1..(Len(s) - 1) : RemoveAt(s, i)[j] = s[IF j < i THEN j ELSE j + 1]
<1> DEFINE head == SubSeq(s, 1, i - 1)
           tail == SubSeq(s, i + 1, Len(s))
<1>1. Len(s) \in Nat /\ \A j \in 1..Len(s) : s[j] \in S
  BY LenProperties, ElementOfSeq
<1>2. /\ head \in Seq(S) /\ Len(head) = i - 1
      /\ \A j \in 1..(i - 1) : head[j] = s[j]
  BY <1>1, SubSeqProperties
<1>3. /\ tail \in Seq(S) /\ Len(tail) = Len(s) - i
      /\ \A j \in 1..(Len(s) - i) : tail[j] = s[i + j]
  <2>1. \A j \in (i + 1)..Len(s) : s[j] \in S
    BY <1>1
  <2>2. /\ tail \in Seq(S) /\ Len(tail) = IF i + 1 <= Len(s) THEN Len(s) - (i + 1) + 1 ELSE 0
        /\ \A j \in 1..(Len(s) - (i + 1) + 1) : tail[j] = s[(i + 1) + j - 1]
    BY <1>1, <2>1, SubSeqProperties
  <2> HIDE DEF tail
  <2> QED BY <1>1, <2>2
<1>4. RemoveAt(s, i) = head \o tail
  BY DEF RemoveAt
<1> HIDE DEF head, tail
<1>5. /\ head \o tail \in Seq(S) /\ Len(head \o tail) = Len(head) + Len(tail)
      /\ \A j \in 1..(Len(head) + Len(tail)) :
            (head \o tail)[j] = IF j <= Len(head) THEN head[j] ELSE tail[j - Len(head)]
  BY <1>2, <1>3, ConcatProperties
<1>6. Len(head) + Len(tail) = Len(s) - 1
  BY <1>1, <1>2, <1>3
<1>7. ASSUME NEW j \in 1..(Len(s) - 1)
      PROVE  (head \o tail)[j] = s[IF j < i THEN j ELSE j + 1]
  <2>1. (head \o tail)[j] = IF j <= Len(head) THEN head[j] ELSE tail[j - Len(head)]
    BY <1>5, <1>6
  <2>2. CASE j < i
    BY <1>1, <1>2, <2>1, <2>2
  <2>3. CASE ~(j < i)
    <3>1. (head \o tail)[j] = tail[j - (i - 1)] /\ j - (i - 1) \in 1..(Len(s) - i)
      BY <1>1, <1>2, <2>1, <2>3
    <3>2. tail[j - (i - 1)] = s[i + (j - (i - 1))] /\ i + (j - (i - 1)) = j + 1
      BY <1>1, <1>3, <3>1
    <3> QED BY <2>3, <3>1, <3>2
  <2> QED BY <2>2, <2>3
<1> QED BY <1>4, <1>5, <1>6, <1>7

\* Every change of the tool or the command leaves a sound list.
LEMMA MutationsAreSound ==
  ASSUME NEW l \in SoundLists PROVE Mutations(l) \subseteq SoundLists
<1>1. /\ l \in Lists /\ l.todos \in Seq(TodoItems) /\ l.nextId \in Nat /\ GivesIdsOnce(l)
      /\ Len(l.todos) \in Nat /\ DOMAIN l.todos = 1..Len(l.todos)
      /\ \A i \in 1..Len(l.todos) : l.todos[i] \in TodoItems
  BY LenProperties, ElementOfSeq DEF SoundLists, Lists
<1>2. AddTodo(l) \in SoundLists
  <2> DEFINE item == [id |-> l.nextId, done |-> FALSE]
             added == Append(l.todos, item)
  <2>1. item \in TodoItems /\ item.id = l.nextId
    BY <1>1 DEF TodoItems
  <2> HIDE DEF item
  <2>2. /\ added \in Seq(TodoItems) /\ Len(added) = Len(l.todos) + 1
        /\ \A i \in 1..Len(l.todos) : added[i] = l.todos[i]
        /\ added[Len(l.todos) + 1] = item
    BY <1>1, <2>1, AppendProperties
  <2>3. AddTodo(l) = [todos |-> added, nextId |-> l.nextId + 1]
    BY DEF AddTodo, item
  <2> HIDE DEF added
  <2>4. ASSUME NEW i \in 1..Len(added)
        PROVE  IF i = Len(l.todos) + 1 THEN added[i].id = l.nextId
               ELSE i \in 1..Len(l.todos) /\ added[i] = l.todos[i] /\ added[i].id < l.nextId
    BY <1>1, <2>1, <2>2 DEF GivesIdsOnce
  <2>5. \A i \in 1..Len(l.todos) : l.todos[i].id \in Nat
    BY <1>1 DEF TodoItems
  <2>6. \A i \in 1..Len(added) : added[i].id < l.nextId + 1
    BY <1>1, <2>4, <2>5
  <2>7. ASSUME NEW i \in 1..Len(added), NEW j \in 1..Len(added), added[i].id = added[j].id
        PROVE  i = j
    <3>1. CASE i # Len(l.todos) + 1 /\ j # Len(l.todos) + 1
      BY <2>4, <2>7, <3>1, <1>1 DEF GivesIdsOnce
    <3> QED BY <1>1, <2>4, <2>5, <2>7, <3>1
  <2> QED BY <1>1, <2>2, <2>3, <2>6, <2>7 DEF SoundLists, Lists, GivesIdsOnce
<1>3. ASSUME NEW i \in 1..Len(l.todos), NEW d \in BOOLEAN PROVE MarkTodo(l, i, d) \in SoundLists
  <2> DEFINE item == [l.todos[i] EXCEPT !.done = d]
             marked == [l.todos EXCEPT ![i] = item]
  <2>1. item \in TodoItems /\ item.id = l.todos[i].id
    BY <1>1 DEF TodoItems
  <2>2. MarkTodo(l, i, d) = [l EXCEPT !.todos = marked]
    BY <1>1 DEF MarkTodo
  <2> HIDE DEF item
  <2>3. /\ marked \in Seq(TodoItems) /\ Len(marked) = Len(l.todos)
        /\ \A j \in 1..Len(l.todos) : marked[j] = IF j = i THEN item ELSE l.todos[j]
    BY <1>1, <2>1, ExceptSeq
  <2> HIDE DEF marked
  <2>4. MarkTodo(l, i, d) = [todos |-> marked, nextId |-> l.nextId]
    BY <1>1, <2>2 DEF Lists
  <2>5. \A j \in 1..Len(marked) : marked[j].id = l.todos[j].id
    BY <2>1, <2>3
  <2> QED BY <1>1, <2>3, <2>4, <2>5 DEF SoundLists, Lists, GivesIdsOnce
<1>4. ASSUME NEW i \in 1..Len(l.todos) PROVE RemoveTodo(l, i) \in SoundLists
  <2> DEFINE left == RemoveAt(l.todos, i)
  <2>1. /\ left \in Seq(TodoItems) /\ Len(left) = Len(l.todos) - 1
        /\ \A j \in 1..(Len(l.todos) - 1) : left[j] = l.todos[IF j < i THEN j ELSE j + 1]
    BY <1>1, RemoveAtKeepsOthers
  <2>2. RemoveTodo(l, i) = [todos |-> left, nextId |-> l.nextId]
    BY <1>1 DEF RemoveTodo, Lists
  <2> HIDE DEF left
  <2>3. \A j \in 1..Len(left) : left[j].id < l.nextId
    BY <1>1, <2>1 DEF GivesIdsOnce
  <2>4. ASSUME NEW j \in 1..Len(left), NEW k \in 1..Len(left), left[j].id = left[k].id
        PROVE  j = k
    <3> DEFINE was(n) == IF n < i THEN n ELSE n + 1
    <3>1. was(j) \in 1..Len(l.todos) /\ was(k) \in 1..Len(l.todos)
      BY <1>1, <2>1
    <3>2. l.todos[was(j)].id = l.todos[was(k)].id
      BY <1>1, <2>1, <2>4
    <3>3. was(j) = was(k)
      BY <1>1, <3>1, <3>2 DEF GivesIdsOnce
    <3> QED BY <1>1, <2>1, <3>3
  <2> QED BY <1>1, <2>1, <2>2, <2>3, <2>4 DEF SoundLists, Lists, GivesIdsOnce
<1> QED BY <1>1, <1>2, <1>3, <1>4, EmptyListIsSound DEF Mutations

\* What is rebuilt is the last snapshot.
LEMMA RebuiltIsLast ==
  ASSUME NEW b \in Seq(SoundLists)
  PROVE  /\ Reconstruct(b) \in SoundLists
         /\ \A l \in SoundLists : Reconstruct(Append(b, l)) = l
<1>1. Len(b) \in Nat /\ (b # <<>> => Len(b) \in 1..Len(b) /\ b[Len(b)] \in SoundLists)
  <2>1. Len(b) \in Nat /\ (b # <<>> => Len(b) \in Nat \ {0})
    BY EmptySeq, LenProperties
  <2> QED BY <2>1, ElementOfSeq
<1>2. Reconstruct(b) \in SoundLists
  BY <1>1, EmptyListIsSound DEF Reconstruct, Last
<1>3. ASSUME NEW l \in SoundLists PROVE Reconstruct(Append(b, l)) = l
  BY AppendProperties DEF Reconstruct, Last
<1> QED BY <1>2, <1>3

\* The initial state satisfies the invariant.
LEMMA TodoInitInv == TodosInit => TodoInv
<1> SUFFICES ASSUME TodosInit PROVE TodoInv
  OBVIOUS
<1>1. <<>> \in Seq(SoundLists) /\ <<>> \o <<>> = <<>>
  BY EmptySeq, ConcatEmptySeq
<1> QED BY <1>1, EmptyListIsSound DEF TodosInit, TodoInv, Reconstruct

\* Every step keeps the invariant.
LEMMA TodoStepInv == TodoInv /\ [TodosNext]_todoVars => TodoInv'
<1> SUFFICES ASSUME TodoInv, [TodosNext]_todoVars PROVE TodoInv'
  OBVIOUS
<1> USE DEF TodoInv
<1>1. ASSUME NEW l \in Mutations(list), ExecuteTodo(l) PROVE TodoInv'
  <2>1. /\ l \in SoundLists /\ list' = l /\ results' = Append(results, l) /\ branch' = branch
        /\ ~overtaken'
    BY <1>1, MutationsAreSound DEF ExecuteTodo
  <2>2. results' \in Seq(SoundLists) /\ results' = results \o <<l>> /\ <<l>> \in Seq(SoundLists)
    BY <2>1, AppendProperties, AppendIsConcat
  <2>3. branch' \o results' = (branch \o results) \o <<l>>
    BY <2>1, <2>2, ConcatAssociative
  <2>4. branch \o results \in Seq(SoundLists)
    BY ConcatProperties
  <2>5. branch' \o results' = Append(branch \o results, l)
    BY <2>1, <2>3, <2>4, AppendIsConcat
  <2> QED BY <2>1, <2>2, <2>4, <2>5, RebuiltIsLast
<1>2. ASSUME NEW l \in Mutations(list), CommandTodo(l) PROVE TodoInv'
  <2>1. /\ l \in SoundLists /\ list' = l /\ branch' = Append(branch, l) /\ results' = results
        /\ overtaken' = (results # <<>>)
    BY <1>2, MutationsAreSound DEF CommandTodo
  <2>2. branch' \in Seq(SoundLists)
    BY <2>1, AppendProperties
  <2>3. results = <<>> => branch' \o results' = Append(branch, l)
    BY <2>1, <2>2, ConcatEmptySeq
  <2>4. branch'[Len(branch) + 1] = list' /\ Len(branch) + 1 \in DOMAIN branch'
    BY <2>1, AppendProperties
  <2> QED BY <2>1, <2>2, <2>3, <2>4, RebuiltIsLast
<1>3. CASE PersistResult
  <2>1. /\ results # <<>> /\ branch' = Append(branch, Head(results)) /\ results' = Tail(results)
        /\ UNCHANGED <<list, overtaken>>
    BY <1>3 DEF PersistResult
  <2>2. Head(results) \in SoundLists /\ results' \in Seq(SoundLists)
    BY <2>1, HeadTailProperties
  <2>3. branch' \in Seq(SoundLists) /\ branch' = branch \o <<Head(results)>>
    BY <2>1, <2>2, AppendProperties, AppendIsConcat
  <2>4. <<Head(results)>> \in Seq(SoundLists) /\ results = <<Head(results)>> \o Tail(results)
    BY <2>1, <2>2
  <2>5. branch' \o results' = branch \o results
    BY <2>1, <2>2, <2>3, <2>4, ConcatAssociative
  <2>6. \A k \in DOMAIN branch : k \in DOMAIN branch' /\ branch'[k] = branch[k]
    BY <2>1, <2>2, AppendProperties
  <2> QED BY <2>1, <2>2, <2>3, <2>5, <2>6
<1>4. ASSUME NEW on \in BOOLEAN, ToggleWidget(on) PROVE TodoInv'
  BY <1>4 DEF ToggleWidget
<1>5. ASSUME NEW n \in 0..MaxBranch, MoveInTree(n) PROVE TodoInv'
  <2>1. /\ results = <<>> /\ n < Len(branch) /\ branch' = SubSeq(branch, 1, n)
        /\ list' = Reconstruct(branch') /\ results' = results
        /\ ~overtaken'
    BY <1>5 DEF MoveInTree
  <2>2. branch' \in Seq(SoundLists)
    <3>1. \A i \in 1..n : branch[i] \in SoundLists
      BY <2>1, TodosAssumption, ElementOfSeq, LenProperties
    <3> QED BY <2>1, <3>1, TodosAssumption, SubSeqProperties
  <2>3. branch' \o results' = branch'
    BY <2>1, <2>2, ConcatEmptySeq
  <2> QED BY <2>1, <2>2, <2>3, RebuiltIsLast
<1>6. CASE Restart
  <2>1. list' = Reconstruct(branch) /\ results' = <<>> /\ branch' = branch /\ ~overtaken'
    BY <1>6 DEF Restart
  <2>2. branch' \o results' = branch /\ results' \in Seq(SoundLists)
    BY <2>1, EmptySeq, ConcatEmptySeq
  <2> QED BY <2>1, <2>2, RebuiltIsLast
<1>7. CASE UNCHANGED todoVars
  BY <1>7 DEF todoVars
<1> QED BY <1>1, <1>2, <1>3, <1>4, <1>5, <1>6, <1>7 DEF TodosNext

\* A reload loses nothing that was not overtaken, and no id is given twice,
\* however long the branch and the list (todos.ts: mutate, reconstructState).
THEOREM TodosSoundness == TodosSpec => []ReloadKeepsList
<1>1. TodoInv => ReloadKeepsList
  <2>1. list \in SoundLists => DOMAIN list.todos = 1..Len(list.todos)
    BY LenProperties DEF SoundLists, Lists
  <2> QED BY <2>1 DEF TodoInv, SoundLists, GivesIdsOnce, ReloadKeepsList
<1> QED BY <1>1, TodoInitInv, TodoStepInv, PTL DEF TodosSpec

\* Lists in memory, on the branch and in results keep their type.
LEMMA TodosTypesStep ==
  (TodosInit => TodosTypeOK) /\ (TodosTypeOK /\ [TodosNext]_todoVars => TodosTypeOK')
<1> DEFINE Item == [id : 1..MaxTodoId, done : BOOLEAN]
<1>1. EmptyList \in TodoLists
  BY TodosAssumption DEF EmptyList, TodoLists
<1>2. ASSUME NEW b \in Seq(TodoLists) PROVE Reconstruct(b) \in TodoLists
  BY <1>1, <1>2 DEF Reconstruct, Last
<1>3. ASSUME NEW l \in TodoLists, NEW k \in Mutations(l) PROVE k \in TodoLists
  <2>1. l.todos \in Seq(Item) /\ l.nextId \in 1..(MaxTodoId + 1)
    BY DEF TodoLists
  <2>2. CASE l.nextId <= MaxTodoId /\ k = AddTodo(l)
    <3>1. l.nextId \in 1..MaxTodoId /\ l.nextId + 1 \in 1..(MaxTodoId + 1)
      BY <2>1, <2>2, TodosAssumption
    <3>2. [id |-> l.nextId, done |-> FALSE] \in Item
      BY <3>1
    <3>3. Append(l.todos, [id |-> l.nextId, done |-> FALSE]) \in Seq(Item)
      BY <2>1, <3>2, AppendProperties
    <3> QED BY <2>2, <3>1, <3>3 DEF AddTodo, TodoLists
  <2>3. ASSUME NEW i \in DOMAIN l.todos, NEW d \in BOOLEAN, k = MarkTodo(l, i, d)
        PROVE  k \in TodoLists
    <3>1. l.todos[i] \in Item
      BY <2>1, <2>3, ElementOfSeq, LenProperties
    <3>2. [l.todos[i] EXCEPT !.done = d] \in Item
      BY <3>1
    <3>3. [l.todos EXCEPT ![i] = [l.todos[i] EXCEPT !.done = d]] \in Seq(Item)
      BY <2>1, <2>3, <3>2, ExceptSeq
    <3>4. k = [todos |-> [l.todos EXCEPT ![i] = [l.todos[i] EXCEPT !.done = d]], nextId |-> l.nextId]
      BY <2>3 DEF MarkTodo, TodoLists
    <3> QED BY <2>1, <3>3, <3>4 DEF TodoLists
  <2>4. ASSUME NEW i \in DOMAIN l.todos, k = RemoveTodo(l, i) PROVE k \in TodoLists
    <3>1. RemoveAt(l.todos, i) \in Seq(Item)
      BY <2>1, <2>4, RemoveAtKeepsOthers
    <3>2. k = [todos |-> RemoveAt(l.todos, i), nextId |-> l.nextId]
      BY <2>4 DEF RemoveTodo, TodoLists
    <3> QED BY <2>1, <3>1, <3>2 DEF TodoLists
  <2> QED BY <1>1, <2>2, <2>3, <2>4 DEF Mutations
<1>4. TodosInit => TodosTypeOK
  BY <1>1, EmptySeq DEF TodosInit, TodosTypeOK
<1>5. ASSUME TodosTypeOK, [TodosNext]_todoVars PROVE TodosTypeOK'
  <2> USE <1>5 DEF TodosTypeOK
  <2>1. ASSUME NEW l \in Mutations(list), ExecuteTodo(l) \/ CommandTodo(l) PROVE TodosTypeOK'
    <3>1. l \in TodoLists
      BY <1>3
    <3>2. /\ list' \in TodoLists
          /\ branch' \in {branch, Append(branch, l)} /\ results' \in {results, Append(results, l)}
      BY <2>1, <3>1 DEF ExecuteTodo, CommandTodo
    <3>3. Append(branch, l) \in Seq(TodoLists) /\ Append(results, l) \in Seq(TodoLists)
      BY <3>1, AppendProperties
    <3>5. branch' \in Seq(TodoLists) /\ results' \in Seq(TodoLists)
      BY <3>2, <3>3
    <3>4. overtaken' \in BOOLEAN /\ widgetVisible' \in BOOLEAN
      <4>1. CASE ExecuteTodo(l)
        BY <4>1 DEF ExecuteTodo
      <4>2. CASE CommandTodo(l)
        BY <4>2, Zenon DEF CommandTodo
      <4> QED BY <2>1, <4>1, <4>2
    <3> QED BY <3>2, <3>5, <3>4
  <2>2. ASSUME NEW on \in BOOLEAN, ToggleWidget(on) PROVE TodosTypeOK'
    BY <2>2 DEF ToggleWidget
  <2>3. ASSUME NEW n \in 0..MaxBranch, MoveInTree(n) PROVE TodosTypeOK'
    <3>1. branch' \in Seq(TodoLists)
      <4>1. n \in 0..Len(branch) /\ branch' = SubSeq(branch, 1, n)
        BY <2>3, TodosAssumption DEF MoveInTree
      <4> QED BY <4>1
    <3>2. Reconstruct(branch') \in TodoLists
      BY <1>2, <3>1
    <3>3. list' \in TodoLists /\ UNCHANGED results
      BY <2>3, <3>2 DEF MoveInTree
    <3>4. overtaken' \in BOOLEAN /\ widgetVisible' \in BOOLEAN
      BY <2>3 DEF MoveInTree
    <3> QED BY <3>1, <3>3, <3>4
  <2>4. CASE PersistResult
    <3>1. Head(results) \in TodoLists /\ Tail(results) \in Seq(TodoLists)
      BY <2>4 DEF PersistResult
    <3> QED BY <2>4, <3>1, AppendProperties DEF PersistResult
  <2>5. CASE Restart
    <3>1. Reconstruct(branch) \in TodoLists
      BY <1>2
    <3>2. list' \in TodoLists /\ results' \in Seq(TodoLists) /\ UNCHANGED branch
      BY <2>5, <3>1, EmptySeq DEF Restart
    <3>3. overtaken' \in BOOLEAN /\ widgetVisible' \in BOOLEAN
      BY <2>5 DEF Restart
    <3> QED BY <3>2, <3>3
  <2>6. CASE UNCHANGED todoVars
    <3>1. UNCHANGED list /\ UNCHANGED branch /\ UNCHANGED results /\ UNCHANGED overtaken
          /\ UNCHANGED widgetVisible
      BY <2>6 DEF todoVars
    <3> QED BY <3>1
  <2> QED BY <2>1, <2>2, <2>3, <2>4, <2>5, <2>6 DEF TodosNext
<1> QED BY <1>4, <1>5

(***************************************************************************)
(* AutoCompact.  A summary that is awaited belongs to the present          *)
(* generation or to an earlier one, and only one to the present one; an    *)
(* automatic attempt that counts has disarmed the next.                    *)
(***************************************************************************)
CompactInv ==
  /\ generation \in Nat \ {0}
  /\ summaries \in [Summaries -> Nat]
  /\ \A s \in Summaries : summaries[s] <= generation
  /\ compacting => \E s \in Summaries : summaries[s] = generation
  /\ ~compacting => \A s \in Summaries : summaries[s] # generation
  /\ \A s, t \in Summaries :
        summaries[s] = generation /\ summaries[t] = generation => s = t
  /\ attempts \in {0, 1}
  /\ attempts = 1 => attempted

\* A new generation leaves every summary that is awaited behind.
LEMMA ResetKeepsCompactInv ==
  ASSUME CompactInv, Reset, UNCHANGED summaries,
         attempts' = 0
  PROVE  CompactInv'
<1>1. \A s \in Summaries : summaries'[s] < generation'
  BY DEF CompactInv, Reset
<1>2. generation' \in Nat \ {0} /\ compacting' = FALSE
  BY DEF CompactInv, Reset
<1>3. \A s \in Summaries : summaries'[s] <= generation' /\ summaries'[s] # generation'
  BY <1>1, <1>2 DEF CompactInv
<1> QED BY <1>2, <1>3 DEF CompactInv

\* The cycle of warnings and attempts moves, the summaries do not.
LEMMA CycleKeepsCompactInv ==
  ASSUME CompactInv, UNCHANGED <<generation, compacting, summaries>>,
         attempts' \in {0, 1}, attempts' = 1 => attempted'
  PROVE  CompactInv'
  BY DEF CompactInv

\* A compaction starts only while none of this generation runs.
LEMMA StartKeepsCompactInv ==
  ASSUME CompactInv, NEW s \in Summaries, NEW level \in Levels, NEW automatic \in BOOLEAN,
         ~compacting, automatic => enabled /\ level = "ceiling" /\ ~attempted,
         Start(s, automatic, level), UNCHANGED generation
  PROVE  CompactInv'
<1>1. /\ summaries' = [summaries EXCEPT ![s] = generation] /\ compacting' = TRUE
      /\ attempted' = TRUE
  BY DEF Start
<1>2. attempts' \in {0, 1}
  <2>1. CASE automatic
    BY <2>1 DEF Start, Since, CompactInv
  <2>2. CASE ~automatic
    <3>1. (IF enabled THEN Since(level) ELSE attempts) \in {0, 1}
      BY DEF Since, CompactInv
    <3> QED BY <2>2, <3>1 DEF Start
  <2> QED BY <2>1, <2>2
<1>3. \A t \in Summaries : summaries'[t] = generation <=> t = s
  BY <1>1 DEF CompactInv
<1>4. summaries' \in [Summaries -> Nat] /\ \A t \in Summaries : summaries'[t] <= generation
  BY <1>1 DEF CompactInv
<1> QED BY <1>1, <1>2, <1>3, <1>4 DEF CompactInv

\* The flag comes down with the summary of its own generation and with no other.
LEMMA SummaryKeepsCompactInv ==
  ASSUME CompactInv, NEW s \in Summaries, NEW how, SummaryEnds(s, how)
  PROVE  CompactInv'
<1>1. /\ summaries' = [summaries EXCEPT ![s] = 0] /\ UNCHANGED generation
      /\ compacting' = IF summaries[s] = generation THEN FALSE ELSE compacting
  BY DEF SummaryEnds, LowersFlag
<1>2. attempts' \in {0, 1} /\ (attempts' = 1 => attempted')
  BY DEF SummaryEnds, KeepCycle, ResetCycle, CompactInv
<1>3. /\ summaries' \in [Summaries -> Nat]
      /\ \A t \in Summaries : summaries'[t] = IF t = s THEN 0 ELSE summaries[t]
  BY <1>1 DEF CompactInv
<1>4. CASE summaries[s] = generation
  <2>1. \A t \in Summaries : summaries'[t] # generation /\ summaries'[t] <= generation
    BY <1>3, <1>4 DEF CompactInv
  <2> QED BY <1>1, <1>2, <1>3, <1>4, <2>1 DEF CompactInv
<1>5. CASE summaries[s] # generation
  <2>1. \A t \in Summaries : summaries'[t] = generation <=> summaries[t] = generation
    BY <1>3, <1>5 DEF CompactInv
  <2>2. \A t \in Summaries : summaries'[t] <= generation
    BY <1>3 DEF CompactInv
  <2> QED BY <1>1, <1>2, <1>3, <1>5, <2>1, <2>2 DEF CompactInv
<1> QED BY <1>4, <1>5

\* Every step keeps the invariant.
LEMMA CompactStepInv == CompactInv /\ [CompactNext]_compactVars => CompactInv'
<1> SUFFICES ASSUME CompactInv, [CompactNext]_compactVars PROVE CompactInv'
  OBVIOUS
<1>0. attempts \in {0, 1} /\ (attempts = 1 => attempted)
  BY DEF CompactInv
<1>1. CASE SessionStart \/ SessionLeft \/ SessionCompact
  <2>1. Reset /\ UNCHANGED summaries /\ attempts' = 0
    BY <1>1 DEF SessionStart, SessionLeft, SessionCompact, ResetCycle
  <2> QED BY <2>1, ResetKeepsCompactInv
<1>2. CASE \/ ModelSelect \/ Status \/ RequestCompaction \/ TurnFails
           \/ \E patch \in {"on", "off"} : Save(patch)
           \/ \E r \in Readers : SettingsRead(r)
           \/ \E content \in {"on", "off", Invalid} : EditFile(content)
  <2>1. (KeepCycle \/ ResetCycle) /\ UNCHANGED <<generation, compacting, summaries>>
    BY <1>2 DEF ModelSelect, Status, RequestCompaction, TurnFails, Save, SettingsRead, EditFile
  <2>2. attempts' \in {0, 1} /\ (attempts' = 1 => attempted')
    BY <1>0, <2>1 DEF KeepCycle, ResetCycle
  <2> QED BY <2>1, <2>2, CycleKeepsCompactInv
<1>3. ASSUME NEW s \in Summaries, NEW level \in Levels, TurnEnd(s, level) PROVE CompactInv'
  <2>1. CASE pending \/ (enabled /\ level = "ceiling" /\ ~attempted)
    <3>1. Start(s, ~pending, level) /\ ~compacting /\ UNCHANGED generation
      BY <1>3, <2>1 DEF TurnEnd
    <3>2. (~pending) \in BOOLEAN /\ (~pending => enabled /\ level = "ceiling" /\ ~attempted)
      BY <2>1
    <3> QED BY <3>1, <3>2, StartKeepsCompactInv
  <2>2. CASE ~(pending \/ (enabled /\ level = "ceiling" /\ ~attempted))
    <3>1. /\ attempted' = Rearmed(level) /\ attempts' = Since(level)
          /\ UNCHANGED <<generation, compacting, summaries>>
      BY <1>3, <2>2 DEF TurnEnd
    <3>2. attempts' \in {0, 1} /\ (attempts' = 1 => attempted')
      BY <1>0, <3>1 DEF Rearmed, Since
    <3> QED BY <3>1, <3>2, CycleKeepsCompactInv
  <2> QED BY <2>1, <2>2
<1>4. CASE UNCHANGED compactVars
  BY <1>4 DEF compactVars, CompactInv
<1> QED BY <1>1, <1>2, <1>3, <1>4, SummaryKeepsCompactInv DEF CompactNext

\* The initial state satisfies the invariant.
LEMMA CompactInitInv == CompactInit => CompactInv
  BY DEF CompactInit, CompactInv

\* One compaction at a time: the flag is up exactly while a compaction of this
\* generation runs, and the context is attempted once while it stays above the
\* ceiling (autocompact/index.ts: the generation compared after the await).
THEOREM CompactSoundness == CompactSpec => []CompactsOnce
<1>1. CompactInv => CompactsOnce
  <2> SUFFICES ASSUME CompactInv PROVE CompactsOnce
    OBVIOUS
  <2> DEFINE Present == {s \in Summaries : summaries[s] = generation}
  <2>1. Present = {} \/ \E s \in Present : Present = {s}
    BY DEF CompactInv
  <2>2. Cardinality(Present) \in {0, 1}
    BY <2>1, FS_EmptySet, FS_Singleton
  <2>3. compacting <=> \E s \in Summaries : summaries[s] = generation
    BY DEF CompactInv
  <2>4. attempts <= 1
    BY DEF CompactInv
  <2> QED BY <2>2, <2>3, <2>4 DEF CompactsOnce
<1> QED BY CompactInitInv, CompactStepInv, <1>1, PTL DEF CompactSpec

\* The settings, the flags and the summaries awaited keep their types.
LEMMA CompactTypesStep ==
  (CompactInit => CompactTypeOK) /\ (CompactTypeOK /\ [CompactNext]_compactVars => CompactTypeOK')
<1> USE CompactAssumption DEF CompactTypeOK
<1>1. CompactInit => CompactTypeOK
  <2> SUFFICES ASSUME CompactInit PROVE CompactTypeOK
    OBVIOUS
  <2>1. reads \in [Readers -> {NoRead, "on", "off", Invalid}]
    BY DEF CompactInit
  <2>2. summaries \in [Summaries -> 0..MaxGeneration] /\ generation \in 1..MaxGeneration
    BY DEF CompactInit
  <2> QED BY <2>1, <2>2 DEF CompactInit
<1>2. ASSUME CompactTypeOK, [CompactNext]_compactVars PROVE CompactTypeOK'
  <2> USE <1>2
  <2>1. CASE SessionStart \/ SessionLeft \/ ModelSelect \/ SessionCompact
    <3>1. generation' \in 1..MaxGeneration /\ warned' = 0
      BY <2>1 DEF SessionStart, SessionLeft, ModelSelect, SessionCompact, Reset, ResetCycle
    <3>2. reads' \in [Readers -> {NoRead, "on", "off", Invalid}] /\ UNCHANGED <<settingsFile, summaries>>
      BY <2>1 DEF SessionStart, SessionLeft, ModelSelect, SessionCompact
    <3>3. {enabled', compacting', pending', attempted'} \subseteq BOOLEAN
      BY <2>1 DEF SessionStart, SessionLeft, ModelSelect, SessionCompact, Reset, ResetCycle
    <3> QED BY <3>1, <3>2, <3>3
  <2>2. CASE Status
    BY <2>2 DEF Status, KeepCycle
  <2>3. ASSUME NEW patch \in {"on", "off"}, Save(patch) PROVE CompactTypeOK'
    BY <2>3 DEF Save, KeepCycle
  <2>4. ASSUME NEW r \in Readers, SettingsRead(r) PROVE CompactTypeOK'
    <3>1. enabled' \in BOOLEAN
      BY <2>4 DEF SettingsRead
    <3>2. attempted' \in BOOLEAN /\ warned' \in {0, 80, 90}
      BY <2>4 DEF SettingsRead, ResetCycle, KeepCycle
    <3> QED BY <2>4, <3>1, <3>2 DEF SettingsRead
  <2>5. ASSUME NEW content \in {"on", "off", Invalid}, EditFile(content) PROVE CompactTypeOK'
    BY <2>5 DEF EditFile, KeepCycle
  <2>6. CASE RequestCompaction \/ TurnFails
    BY <2>6 DEF RequestCompaction, TurnFails, KeepCycle
  <2>7. ASSUME NEW s \in Summaries, NEW level \in Levels, TurnEnd(s, level) PROVE CompactTypeOK'
    <3>1. Percent(level) \in {0, 80, 90}
      BY DEF Percent
    <3>2. warned' \in {0, 80, 90}
      BY <2>7, <3>1 DEF TurnEnd, Start
    <3>3. attempted' \in BOOLEAN
      BY <2>7 DEF TurnEnd, Start, Rearmed
    <3>4. compacting' \in BOOLEAN /\ pending' \in BOOLEAN
      BY <2>7 DEF TurnEnd, Start
    <3>5. summaries' \in [Summaries -> 0..MaxGeneration]
      BY <2>7 DEF TurnEnd, Start
    <3> QED BY <2>7, <3>2, <3>3, <3>4, <3>5 DEF TurnEnd
  <2>8. ASSUME NEW s \in Summaries, NEW how \in {"done", "failed", "aborted"}, SummaryEnds(s, how)
        PROVE  CompactTypeOK'
    <3>1. attempted' \in BOOLEAN /\ warned' \in {0, 80, 90}
      BY <2>8 DEF SummaryEnds, ResetCycle, KeepCycle
    <3>2. compacting' \in BOOLEAN
      BY <2>8 DEF SummaryEnds, LowersFlag
    <3>3. summaries' \in [Summaries -> 0..MaxGeneration]
      BY <2>8 DEF SummaryEnds
    <3> QED BY <2>8, <3>1, <3>2, <3>3 DEF SummaryEnds
  <2>9. CASE UNCHANGED compactVars
    BY <2>9 DEF compactVars
  <2> QED BY <2>1, <2>2, <2>3, <2>4, <2>5, <2>6, <2>7, <2>8, <2>9 DEF CompactNext
<1> QED BY <1>1, <1>2

(***************************************************************************)
(* FastMode.  Every change of session or model opens a new generation, so  *)
(* a command of the present generation was typed in the present session    *)
(* and for the present model, and it alone turns priority on.              *)
(***************************************************************************)
FastInv ==
  /\ fast \in [enabled : BOOLEAN, selection : AnyModels, generation : Nat]
  /\ waiting \subseteq [action : {"on", "off", "toggle"}, generation : Nat,
                        session : Nat, model : AnyModels]
  /\ sessionId \in Nat /\ model \in AnyModels
  /\ \A c \in waiting :
       /\ c.generation <= fast.generation
       /\ c.generation = fast.generation => c.session = sessionId /\ c.model = model
  /\ fast.enabled =>
       fast.selection = model /\ wanted = [session |-> sessionId, model |-> model]

\* The initial state satisfies the invariant.
LEMMA FastInitInv == FastInit => FastInv
BY DEF FastInit, FastInv, AnyModels

\* Every step keeps the invariant.
LEMMA FastStepInv == FastInv /\ [FastNext]_fastVars => FastInv'
<1> SUFFICES ASSUME FastInv, [FastNext]_fastVars PROVE FastInv'
  OBVIOUS
<1> USE DEF FastInv
<1>1. ASSUME NEW m \in AnyModels, SelectModel(m) PROVE FastInv'
  BY <1>1 DEF SelectModel, ResetTo
<1>2. ASSUME NEW m \in AnyModels, ReplaceSession(m) PROVE FastInv'
  BY <1>2 DEF ReplaceSession, ResetTo
<1>3. CASE MoveTree
  BY <1>3 DEF MoveTree, ResetTo
<1>4. CASE OtherRegisters
  BY <1>4 DEF OtherRegisters
<1>5. CASE CheckRegistration
  BY <1>5 DEF CheckRegistration, ResetTo
<1>6. ASSUME NEW action \in {"on", "off", "toggle"}, TypeFast(action) PROVE FastInv'
  BY <1>6 DEF TypeFast
<1>7. ASSUME NEW c \in waiting, ApplyFast(c) PROVE FastInv'
  BY <1>7 DEF ApplyFast, StillApplies
<1>8. CASE UNCHANGED fastVars
  BY <1>8 DEF fastVars
<1> QED BY <1>1, <1>2, <1>3, <1>4, <1>5, <1>6, <1>7, <1>8 DEF FastNext

\* Priority is only asked for in the session and for the model its user was in
\* when typing the command that turned it on (fast.ts: the generation compared
\* after waitForIdle, the selection compared at every request).
THEOREM FastSoundness == FastSpec => []PriorityIsWanted
<1>1. FastInv => PriorityIsWanted
  BY DEF FastInv, PriorityIsWanted, AsksPriority
<1> QED BY FastInitInv, FastStepInv, <1>1, PTL DEF FastSpec

\* What /fast counts stays within its bounds.
FastBounds ==
  /\ fast.generation <= MaxResets /\ provider \in {"native", "wrapped", "other"}
  /\ IsFiniteSet(waiting) /\ Cardinality(waiting) <= MaxCommands

\* They hold at first, every step keeps them, and they give the types.
LEMMA FastKeepsBounds ==
  /\ FastInit => FastBounds
  /\ FastInv /\ FastBounds /\ [FastNext]_fastVars => FastBounds'
  /\ FastInv /\ FastBounds => FastTypeOK
<1>1. FastInit => FastBounds
  BY FastAssumption, FS_EmptySet DEF FastInit, FastBounds
<1>2. ASSUME FastInv, FastBounds, [FastNext]_fastVars PROVE FastBounds'
  <2>0. /\ fast.generation \in Nat /\ Cardinality(waiting) \in Nat /\ MaxCommands \in Nat
        /\ MaxResets \in Nat
    BY <1>2, FastAssumption, FS_CardinalityType DEF FastInv, FastBounds
  <2>1. ASSUME NEW m \in AnyModels, ResetTo(m), UNCHANGED waiting,
               provider' \in {"native", "wrapped", "other"}
        PROVE  FastBounds'
    <3>1. fast'.generation = fast.generation + 1 /\ fast.generation < MaxResets
      BY <2>1 DEF ResetTo
    <3> QED BY <1>2, <2>0, <2>1, <3>1 DEF FastBounds
  <2>2. ASSUME NEW m \in AnyModels, SelectModel(m) \/ ReplaceSession(m) PROVE FastBounds'
    <3>1. provider' \in {"native", "wrapped", "other"} /\ UNCHANGED waiting
      BY <1>2, <2>2 DEF SelectModel, ReplaceSession, FastBounds
    <3> QED BY <2>1, <2>2, <3>1 DEF SelectModel, ReplaceSession
  <2>3. CASE MoveTree \/ CheckRegistration
    <3>1. ResetTo(model) /\ UNCHANGED <<provider, waiting>> /\ model \in AnyModels
      BY <1>2, <2>3 DEF MoveTree, CheckRegistration, FastInv
    <3> QED BY <1>2, <2>1, <3>1 DEF FastBounds
  <2>4. CASE OtherRegisters
    BY <1>2, <2>4 DEF OtherRegisters, FastBounds
  <2>5. ASSUME NEW action \in {"on", "off", "toggle"}, TypeFast(action) PROVE FastBounds'
    <3> DEFINE c == [action |-> action, generation |-> fast.generation,
                     session |-> sessionId, model |-> model]
    <3>1. waiting' = waiting \cup {c} /\ Cardinality(waiting) < MaxCommands
      BY <2>5 DEF TypeFast
    <3> HIDE DEF c
    <3>2. /\ IsFiniteSet(waiting')
          /\ Cardinality(waiting') = Cardinality(waiting)
             \/ Cardinality(waiting') = Cardinality(waiting) + 1
      BY <1>2, <3>1, FS_AddElement DEF FastBounds
    <3>3. Cardinality(waiting') <= MaxCommands
      BY <2>0, <3>1, <3>2
    <3> QED BY <1>2, <2>5, <3>2, <3>3 DEF TypeFast, FastBounds
  <2>6. ASSUME NEW c \in waiting, ApplyFast(c) PROVE FastBounds'
    <3>1. waiting' = waiting \ {c}
      BY <2>6 DEF ApplyFast
    <3>2. IsFiniteSet(waiting') /\ Cardinality(waiting') = Cardinality(waiting) - 1
      BY <1>2, <2>6, <3>1, FS_RemoveElement DEF FastBounds
    <3>3. Cardinality(waiting') <= MaxCommands
      BY <1>2, <2>0, <3>2 DEF FastBounds
    <3>4. fast'.generation = fast.generation
      BY <1>2, <2>6 DEF ApplyFast, FastInv
    <3>5. provider' \in {"native", "wrapped", "other"}
      BY <1>2, <2>6 DEF ApplyFast, FastBounds
    <3> QED BY <1>2, <3>2, <3>3, <3>4, <3>5 DEF FastBounds
  <2>7. CASE UNCHANGED fastVars
    BY <1>2, <2>7 DEF fastVars, FastBounds
  <2> QED BY <1>2, <2>2, <2>3, <2>4, <2>5, <2>6, <2>7 DEF FastNext
<1>3. FastInv /\ FastBounds => FastTypeOK
  <2> SUFFICES ASSUME FastInv, FastBounds PROVE FastTypeOK
    OBVIOUS
  <2>1. fast.generation \in 0..MaxResets
    BY FastAssumption DEF FastInv, FastBounds
  <2> QED BY <2>1 DEF FastInv, FastBounds, FastTypeOK
<1> QED BY <1>1, <1>2, <1>3

(***************************************************************************)
(* CodexLimits.  The request that commands join is the only one that runs  *)
(* and was not aborted, and it is of the present generation; a command     *)
(* keeps the generation its request was started in.                        *)
(***************************************************************************)
LimitRequests ==
    [generation : Nat, at : {"token", "fetch", "limits", "failed"}, aborted : BOOLEAN]

LimitsTyped ==
    /\ codexGeneration \in Nat /\ limitRequests \in Seq(LimitRequests)
    /\ refresh \in 0..Len(limitRequests) /\ abort = refresh
    /\ asks \in [Askers -> [generation : Nat, request : 0..Len(limitRequests)]]

JoinedIsRunning ==
    /\ refresh # 0 => /\ limitRequests[refresh].at \in {"token", "fetch"}
                      /\ ~limitRequests[refresh].aborted
                      /\ limitRequests[refresh].generation = codexGeneration
    /\ \A r \in DOMAIN limitRequests :
        limitRequests[r].at \in {"token", "fetch"} /\ ~limitRequests[r].aborted
            => r = refresh

AsksKeepGeneration ==
    /\ \A a \in Askers : asks[a] # NoAsk =>
        /\ asks[a].request # 0
        /\ limitRequests[asks[a].request].generation = asks[a].generation
    /\ \A s \in limitsShown :
        /\ s.request \in DOMAIN limitRequests
        /\ limitRequests[s.request].generation = s.under

LimitsInv == LimitsTyped /\ JoinedIsRunning /\ AsksKeepGeneration

\* The initial state satisfies the invariant.
LEMMA LimitsInitInv == LimitsInit => LimitsInv
BY DEF LimitsInit, LimitsInv, LimitsTyped, JoinedIsRunning, AsksKeepGeneration, NoAsk

\* A request that moves on keeps its generation, and leaves the others alone.
LEMMA RequestMoves ==
    ASSUME LimitsTyped, NEW r \in DOMAIN limitRequests,
           NEW state \in {"token", "fetch", "limits", "failed"},
           limitRequests' = [limitRequests EXCEPT ![r].at = state]
    PROVE  /\ limitRequests' \in Seq(LimitRequests)
           /\ Len(limitRequests') = Len(limitRequests)
           /\ limitRequests'[r].at = state
           /\ \A q \in 1..Len(limitRequests) :
                /\ limitRequests'[q].generation = limitRequests[q].generation
                /\ limitRequests'[q].aborted = limitRequests[q].aborted
                /\ q # r => limitRequests'[q].at = limitRequests[q].at
<1>1. limitRequests \in Seq(LimitRequests) /\ r \in 1..Len(limitRequests)
  BY DEF LimitsTyped
<1>2. \A q \in 1..Len(limitRequests) : limitRequests[q] \in LimitRequests
  BY <1>1
<1>3. [limitRequests[r] EXCEPT !.at = state] \in LimitRequests
  BY <1>1, <1>2 DEF LimitRequests
<1>4. limitRequests' \in Seq(LimitRequests) /\ Len(limitRequests') = Len(limitRequests)
  BY <1>1, <1>3
<1> QED BY <1>1, <1>2, <1>4 DEF LimitRequests

\* Every step keeps the invariant.
LEMMA LimitsStepInv == LimitsInv /\ [LimitsNext]_limitVars => LimitsInv'
<1> SUFFICES ASSUME LimitsInv, [LimitsNext]_limitVars PROVE LimitsInv'
  OBVIOUS
<1> USE DEF LimitsInv
<1>1. ASSUME NEW a \in Askers, Command(a) PROVE LimitsInv'
  <2>1. CASE refresh # 0
    <3> DEFINE joined == [generation |-> codexGeneration, request |-> refresh]
    <3>1. /\ asks' = [asks EXCEPT ![a] = joined]
          /\ UNCHANGED <<refresh, abort, limitRequests, codexGeneration, limitsShown>>
      BY <1>1, <2>1 DEF Command
    <3>2. joined \in [generation : Nat, request : 0..Len(limitRequests)]
      BY DEF LimitsTyped
    <3> HIDE DEF joined
    <3>3. LimitsTyped'
      BY <3>1, <3>2 DEF LimitsTyped
    <3>4. JoinedIsRunning'
      BY <3>1 DEF JoinedIsRunning
    <3>5. \A b \in Askers : asks'[b] = IF b = a THEN joined ELSE asks[b]
      BY <3>1 DEF LimitsTyped
    <3>6. joined.request # 0 /\ limitRequests[joined.request].generation = joined.generation
      BY <2>1 DEF joined, JoinedIsRunning
    <3>7. AsksKeepGeneration'
      BY <3>1, <3>5, <3>6 DEF AsksKeepGeneration
    <3> QED BY <3>3, <3>4, <3>7
  <2>2. CASE refresh = 0
    <3> DEFINE n == Len(limitRequests) + 1
               new == [generation |-> codexGeneration, at |-> "token", aborted |-> FALSE]
    <3>1. /\ limitRequests' = Append(limitRequests, new) /\ new \in LimitRequests
          /\ n \in Nat /\ Len(limitRequests') = n
      BY <1>1, <2>2 DEF Command, LimitsTyped, LimitRequests
    <3>2. /\ limitRequests' \in Seq(LimitRequests)
          /\ \A r \in 1..Len(limitRequests) : limitRequests'[r] = limitRequests[r]
          /\ limitRequests'[n] = new
      BY <3>1 DEF LimitsTyped
    <3>3. /\ refresh' = n /\ abort' = n /\ UNCHANGED <<codexGeneration, limitsShown>>
          /\ asks' = [asks EXCEPT ![a] = [generation |-> codexGeneration, request |-> n]]
      BY <1>1, <2>2, <3>1 DEF Command
    <3> HIDE DEF n
    <3>4. LimitsTyped'
      BY <3>1, <3>2, <3>3 DEF LimitsTyped
    <3>5. JoinedIsRunning'
      BY <2>2, <3>1, <3>2, <3>3 DEF LimitsTyped, JoinedIsRunning
    <3>6. AsksKeepGeneration'
      BY <3>1, <3>2, <3>3 DEF LimitsTyped, AsksKeepGeneration, NoAsk
    <3> QED BY <3>4, <3>5, <3>6
  <2> QED BY <2>1, <2>2
<1>2. ASSUME NEW a \in Askers, AnswerAsk(a) PROVE LimitsInv'
  <2>1. LimitsTyped'
    BY <1>2 DEF AnswerAsk, LimitsTyped, NoAsk
  <2>2. JoinedIsRunning'
    BY <1>2 DEF AnswerAsk, JoinedIsRunning
  <2>3. AsksKeepGeneration'
    BY <1>2 DEF AnswerAsk, LimitsTyped, AsksKeepGeneration, NoAsk
  <2> QED BY <2>1, <2>2, <2>3
<1>3. ASSUME NEW r \in DOMAIN limitRequests, NEW verdict \in {"limits", "failed"},
             EndsRequest(r, verdict), limitRequests[r].at \in {"token", "fetch"},
             UNCHANGED <<codexGeneration, asks, limitsShown>>
      PROVE LimitsInv'
  <2>1. limitRequests' = [limitRequests EXCEPT ![r].at = verdict]
    BY <1>3 DEF EndsRequest
  <2>2. /\ limitRequests' \in Seq(LimitRequests)
        /\ Len(limitRequests') = Len(limitRequests)
        /\ limitRequests'[r].at = verdict
        /\ \A q \in 1..Len(limitRequests) :
             /\ limitRequests'[q].generation = limitRequests[q].generation
             /\ limitRequests'[q].aborted = limitRequests[q].aborted
             /\ q # r => limitRequests'[q].at = limitRequests[q].at
    BY <2>1, RequestMoves
  <2>3. IF refresh = r THEN abort' = 0 /\ refresh' = 0 ELSE UNCHANGED <<abort, refresh>>
    BY <1>3 DEF EndsRequest, LimitsTyped
  <2>4. LimitsTyped'
    BY <1>3, <2>2, <2>3 DEF LimitsTyped
  <2>5. JoinedIsRunning'
    <3>1. /\ DOMAIN limitRequests = 1..Len(limitRequests)
          /\ DOMAIN limitRequests' = 1..Len(limitRequests)
      BY <2>2 DEF LimitsTyped
    <3>2. UNCHANGED codexGeneration /\ verdict \notin {"token", "fetch"}
      BY <1>3
    <3>3. r \in 1..Len(limitRequests) /\ refresh \in 0..Len(limitRequests)
      BY <3>1 DEF LimitsTyped
    <3>4. CASE refresh = r
      BY <2>2, <2>3, <3>1, <3>2, <3>3, <3>4 DEF JoinedIsRunning
    <3>5. CASE refresh # r
      BY <2>2, <2>3, <3>1, <3>2, <3>3, <3>5 DEF JoinedIsRunning
    <3> QED BY <3>4, <3>5
  <2>6. AsksKeepGeneration'
    <3>1. /\ DOMAIN limitRequests = 1..Len(limitRequests)
          /\ DOMAIN limitRequests' = 1..Len(limitRequests)
          /\ UNCHANGED <<asks, limitsShown>>
      BY <1>3, <2>2 DEF LimitsTyped
    <3>2. \A q \in DOMAIN limitRequests :
            limitRequests'[q].generation = limitRequests[q].generation
      BY <2>2, <3>1
    <3>3. \A a \in Askers : asks[a] # NoAsk => asks[a].request \in DOMAIN limitRequests
      <4>1. \A a \in Askers : asks[a].request \in 0..Len(limitRequests)
        BY DEF LimitsTyped
      <4> QED BY <3>1, <4>1 DEF AsksKeepGeneration
    <3> QED BY <3>1, <3>2, <3>3 DEF AsksKeepGeneration
  <2> QED BY <2>4, <2>5, <2>6
<1>4. ASSUME NEW r \in DOMAIN limitRequests, NEW good \in BOOLEAN, TokenArrives(r, good)
      PROVE LimitsInv'
  <2>1. CASE good /\ ~IsCancelled(r)
    <3>1. /\ limitRequests' = [limitRequests EXCEPT ![r].at = "fetch"]
          /\ limitRequests[r].at = "token"
          /\ UNCHANGED <<codexGeneration, asks, limitsShown, abort, refresh>>
      BY <1>4, <2>1 DEF TokenArrives
    <3>2. /\ limitRequests' \in Seq(LimitRequests)
          /\ Len(limitRequests') = Len(limitRequests)
          /\ limitRequests'[r].at = "fetch"
          /\ \A q \in 1..Len(limitRequests) :
               /\ limitRequests'[q].generation = limitRequests[q].generation
               /\ limitRequests'[q].aborted = limitRequests[q].aborted
               /\ q # r => limitRequests'[q].at = limitRequests[q].at
      BY <3>1, RequestMoves
    <3>3. LimitsTyped'
      BY <3>1, <3>2 DEF LimitsTyped
    <3>4. JoinedIsRunning'
      BY <3>1, <3>2 DEF LimitsTyped, JoinedIsRunning
    <3>5. AsksKeepGeneration'
      BY <3>1, <3>2 DEF LimitsTyped, AsksKeepGeneration
    <3> QED BY <3>3, <3>4, <3>5
  <2>2. CASE ~(good /\ ~IsCancelled(r))
    BY <1>3, <1>4, <2>2 DEF TokenArrives
  <2> QED BY <2>1, <2>2
<1>5. ASSUME NEW r \in DOMAIN limitRequests, NEW good \in BOOLEAN, FetchEnds(r, good)
      PROVE LimitsInv'
  BY <1>3, <1>5 DEF FetchEnds
<1>6. CASE EndLimits
  <2>1. /\ codexGeneration \in Nat /\ codexGeneration' = codexGeneration + 1
        /\ refresh' = 0 /\ abort' = 0 /\ UNCHANGED <<asks, limitsShown>>
    BY <1>6 DEF EndLimits, LimitsTyped
  <2>2. /\ limitRequests' \in Seq(LimitRequests)
        /\ Len(limitRequests') = Len(limitRequests)
        /\ \A r \in 1..Len(limitRequests) :
             /\ limitRequests'[r].at = limitRequests[r].at
             /\ limitRequests'[r].generation = limitRequests[r].generation
             /\ r = refresh => limitRequests'[r].aborted
             /\ r # refresh => limitRequests'[r].aborted = limitRequests[r].aborted
    <3>1. limitRequests' = [r \in DOMAIN limitRequests |->
              IF r = refresh THEN [limitRequests[r] EXCEPT !.aborted = TRUE]
              ELSE limitRequests[r]]
      BY <1>6 DEF EndLimits, LimitsTyped
    <3>2. \A r \in DOMAIN limitRequests : limitRequests[r] \in LimitRequests
      BY DEF LimitsTyped
    <3>3. \A r \in DOMAIN limitRequests :
            [limitRequests[r] EXCEPT !.aborted = TRUE] \in LimitRequests
      BY <3>2 DEF LimitRequests
    <3>4. /\ limitRequests' \in Seq(LimitRequests)
          /\ Len(limitRequests') = Len(limitRequests)
      BY <3>1, <3>2, <3>3 DEF LimitsTyped
    <3>7. DOMAIN limitRequests = 1..Len(limitRequests)
      BY DEF LimitsTyped
    <3>5. \A r \in 1..Len(limitRequests) :
            limitRequests'[r] = IF r = refresh THEN [limitRequests[r] EXCEPT !.aborted = TRUE]
                                ELSE limitRequests[r]
      BY <3>1, <3>7
    <3>6. ASSUME NEW r \in 1..Len(limitRequests)
          PROVE /\ limitRequests'[r].at = limitRequests[r].at
                /\ limitRequests'[r].generation = limitRequests[r].generation
                /\ r = refresh => limitRequests'[r].aborted
                /\ r # refresh => limitRequests'[r].aborted = limitRequests[r].aborted
      <4>1. limitRequests[r] \in LimitRequests
        BY <3>2 DEF LimitsTyped
      <4> QED BY <3>5, <4>1 DEF LimitRequests
    <3> QED BY <3>4, <3>6
  <2>3. LimitsTyped'
    BY <2>1, <2>2 DEF LimitsTyped
  <2>4. JoinedIsRunning'
    BY <2>1, <2>2 DEF LimitsTyped, JoinedIsRunning
  <2>5. AsksKeepGeneration'
    BY <2>1, <2>2 DEF LimitsTyped, AsksKeepGeneration
  <2> QED BY <2>3, <2>4, <2>5
<1>7. CASE UNCHANGED limitVars
  BY <1>7 DEF limitVars, LimitsTyped, JoinedIsRunning, AsksKeepGeneration
<1> QED BY <1>1, <1>2, <1>4, <1>5, <1>6, <1>7 DEF LimitsNext

\* A session is shown only what a request of its own brought, and commands join
\* the one request that runs and was not aborted (usage/index.ts:
\* refreshCodexLimits, its generation and its finally clause).
THEOREM LimitsSoundness == LimitsSpec => []LimitsAreOfSession
<1>1. LimitsInv => LimitsAreOfSession
  BY DEF LimitsInv, LimitsTyped, JoinedIsRunning, AsksKeepGeneration,
         LimitsAreOfSession, StillRunning
<1> QED BY LimitsInitInv, LimitsStepInv, <1>1, PTL DEF LimitsSpec

\* What the limits count stays within its bounds.
LimitsBounds ==
    /\ codexGeneration <= MaxGenerations /\ Len(limitRequests) <= MaxRequests
    /\ \A r \in DOMAIN limitRequests : limitRequests[r].generation <= MaxGenerations
    /\ \A a \in Askers : asks[a].generation <= MaxGenerations

\* Requests and answers keep to the bounds.
LEMMA LimitsKeepBounds == LimitsInv /\ LimitsBounds /\ [LimitsNext]_limitVars => LimitsBounds'
<1> SUFFICES ASSUME LimitsInv, LimitsBounds, [LimitsNext]_limitVars PROVE LimitsBounds'
  OBVIOUS
<1>0. /\ codexGeneration \in Nat /\ Len(limitRequests) \in Nat /\ LimitsTyped
      /\ DOMAIN limitRequests = 1..Len(limitRequests) /\ limitRequests \in Seq(LimitRequests)
      /\ MaxGenerations \in Nat /\ MaxRequests \in Nat
      /\ asks \in [Askers -> [generation : Nat, request : 0..Len(limitRequests)]]
  BY LimitsAssumption DEF LimitsInv, LimitsTyped
<1>1. ASSUME NEW a \in Askers, Command(a) PROVE LimitsBounds'
  <2>1. \A b \in Askers : asks'[b].generation \in {asks[b].generation, codexGeneration}
    <3>1. \E n \in Nat : asks' = [asks EXCEPT ![a] = [generation |-> codexGeneration, request |-> n]]
      <4>1. CASE refresh # 0
        BY <1>0, <1>1, <4>1 DEF Command, LimitsTyped
      <4>2. CASE refresh = 0
        <5>1. refresh' \in Nat
          BY <1>0, <1>1, <4>2 DEF Command
        <5> QED BY <1>1, <4>2, <5>1 DEF Command
      <4> QED BY <4>1, <4>2
    <3> QED BY <1>0, <3>1
  <2>2. \A b \in Askers : asks'[b].generation <= MaxGenerations
    BY <2>1 DEF LimitsBounds
  <2>3. UNCHANGED codexGeneration
    BY <1>1 DEF Command
  <2>4. CASE UNCHANGED limitRequests
    BY <2>2, <2>3, <2>4 DEF LimitsBounds
  <2>5. CASE refresh = 0
    <3> DEFINE new == [generation |-> codexGeneration, at |-> "token", aborted |-> FALSE]
    <3>1. limitRequests' = Append(limitRequests, new) /\ Len(limitRequests) < MaxRequests
      BY <1>1, <2>5 DEF Command
    <3>2. /\ Len(limitRequests') = Len(limitRequests) + 1
          /\ DOMAIN limitRequests' = 1..(Len(limitRequests) + 1)
          /\ \A r \in 1..(Len(limitRequests) + 1) :
               limitRequests'[r] = IF r = Len(limitRequests) + 1 THEN new ELSE limitRequests[r]
      BY <1>0, <3>1
    <3>3. \A r \in DOMAIN limitRequests' : limitRequests'[r].generation <= MaxGenerations
      BY <1>0, <3>2 DEF LimitsBounds
    <3>4. Len(limitRequests') <= MaxRequests
      BY <1>0, <3>1, <3>2
    <3> QED BY <2>2, <2>3, <3>3, <3>4 DEF LimitsBounds
  <2> QED BY <1>1, <2>4, <2>5 DEF Command
<1>2. ASSUME NEW a \in Askers, AnswerAsk(a) PROVE LimitsBounds'
  <2>1. asks' = [asks EXCEPT ![a] = NoAsk] /\ UNCHANGED <<codexGeneration, limitRequests>>
    BY <1>2 DEF AnswerAsk
  <2>2. \A b \in Askers : asks'[b].generation <= MaxGenerations
    BY <1>0, <2>1 DEF NoAsk, LimitsBounds
  <2> QED BY <2>1, <2>2 DEF LimitsBounds
<1>3. ASSUME NEW r \in DOMAIN limitRequests, NEW good \in BOOLEAN,
             TokenArrives(r, good) \/ FetchEnds(r, good)
      PROVE  LimitsBounds'
  <2>1. /\ UNCHANGED <<codexGeneration, asks>>
        /\ \E state \in {"fetch", "limits", "failed"} :
             limitRequests' = [limitRequests EXCEPT ![r].at = state]
    BY <1>3 DEF TokenArrives, FetchEnds, EndsRequest
  <2>2. /\ Len(limitRequests') = Len(limitRequests)
        /\ DOMAIN limitRequests' = 1..Len(limitRequests)
        /\ \A q \in 1..Len(limitRequests) :
             limitRequests'[q].generation = limitRequests[q].generation
    BY <1>0, <2>1, RequestMoves
  <2> QED BY <1>0, <2>1, <2>2 DEF LimitsBounds
<1>4. CASE EndLimits
  <2>1. /\ codexGeneration < MaxGenerations /\ codexGeneration' = codexGeneration + 1
        /\ UNCHANGED asks
        /\ limitRequests' = [r \in DOMAIN limitRequests |->
             IF r = abort THEN [limitRequests[r] EXCEPT !.aborted = TRUE] ELSE limitRequests[r]]
    BY <1>4 DEF EndLimits
  <2>2. \A r \in 1..Len(limitRequests) : limitRequests[r] \in LimitRequests
    BY <1>0
  <2>3. \A r \in 1..Len(limitRequests) : limitRequests'[r].generation = limitRequests[r].generation
    BY <1>0, <2>1, <2>2 DEF LimitRequests
  <2>4. DOMAIN limitRequests' = 1..Len(limitRequests) /\ Len(limitRequests') = Len(limitRequests)
    BY <1>0, <2>1
  <2>5. codexGeneration' <= MaxGenerations
    BY <1>0, <2>1
  <2> QED BY <1>0, <2>1, <2>3, <2>4, <2>5 DEF LimitsBounds
<1>5. CASE UNCHANGED limitVars
  BY <1>5 DEF limitVars, LimitsBounds
<1> QED BY <1>1, <1>2, <1>3, <1>4, <1>5 DEF LimitsNext

\* The limits start within their bounds, which give their types.
LEMMA LimitsBoundsGiveTypes ==
  (LimitsInit => LimitsBounds) /\ (LimitsInv /\ LimitsBounds => LimitsTypeOK)
<1>1. LimitsInit => LimitsBounds
  BY LimitsAssumption DEF LimitsInit, LimitsBounds, NoAsk
<1>2. ASSUME LimitsInv, LimitsBounds PROVE LimitsTypeOK
  <2>0. /\ codexGeneration \in Nat /\ Len(limitRequests) \in Nat
        /\ DOMAIN limitRequests = 1..Len(limitRequests)
        /\ MaxGenerations \in Nat /\ MaxRequests \in Nat
        /\ asks \in [Askers -> [generation : Nat, request : 0..Len(limitRequests)]]
        /\ refresh \in 0..Len(limitRequests) /\ abort = refresh
    BY <1>2, LimitsAssumption DEF LimitsInv, LimitsTyped
  <2>1. \A r \in 1..Len(limitRequests) : limitRequests[r] \in LimitRequests
    BY <1>2 DEF LimitsInv, LimitsTyped
  <2>2. \A r \in DOMAIN limitRequests :
          /\ limitRequests[r].at \in {"token", "fetch", "limits", "failed"}
          /\ limitRequests[r].generation \in 0..MaxGenerations
    BY <1>2, <2>0, <2>1 DEF LimitRequests, LimitsBounds
  <2>3. \A a \in Askers : asks[a] \in [generation : 0..MaxGenerations, request : 0..MaxRequests]
    <3> SUFFICES ASSUME NEW a \in Askers
                 PROVE asks[a] \in [generation : 0..MaxGenerations, request : 0..MaxRequests]
      OBVIOUS
    <3>1. asks[a] \in [generation : Nat, request : 0..Len(limitRequests)]
      BY <2>0
    <3>2. asks[a].generation <= MaxGenerations /\ Len(limitRequests) <= MaxRequests
      BY <1>2 DEF LimitsBounds
    <3> QED BY <2>0, <3>1, <3>2
  <2>4. codexGeneration \in 0..MaxGenerations
    BY <1>2, <2>0 DEF LimitsBounds
  <2> QED BY <2>0, <2>2, <2>3, <2>4 DEF LimitsTypeOK
<1> QED BY <1>1, <1>2

(***************************************************************************)
(* TeamReading.  A page holds, in order, the first of the rows above the   *)
(* cursor; its next cursor is its last row.  What was shown is therefore   *)
(* all that is below the cursor and still matches, once and in order.      *)
(***************************************************************************)
\* A set of naturals has a least member.
LEMMA LeastOfNaturals ==
  ASSUME NEW T, T \subseteq Nat, T # {} PROVE \E x \in T : \A y \in T : x <= y
<1>1. PICK x \in T : \A y \in T : ~(<<y, x>> \in OpToRel(<, Nat))
  BY NatLessThanWellFounded, WFMin
<1>2. ASSUME NEW y \in T PROVE x <= y
  <2>1. x \in Nat /\ y \in Nat
    OBVIOUS
  <2>2. y < x => <<y, x>> \in OpToRel(<, Nat)
    BY <2>1 DEF OpToRel
  <2>3. ~(y < x)
    BY <1>1, <2>2
  <2> QED BY <2>1, <2>3
<1> QED BY <1>2

UpTo(S, n) == {r \in S : r <= n}

\* How many of S are up to n.
LEMMA UpToCounted ==
  ASSUME NEW S, S \subseteq Nat, IsFiniteSet(S), NEW n \in Nat
  PROVE  /\ IsFiniteSet(UpTo(S, n)) /\ Cardinality(UpTo(S, n)) \in 0..Cardinality(S)
         /\ n > 0 => Cardinality(UpTo(S, n)) =
              IF n \in S THEN Cardinality(UpTo(S, n - 1)) + 1 ELSE Cardinality(UpTo(S, n - 1))
<1>1. /\ IsFiniteSet(UpTo(S, n)) /\ Cardinality(UpTo(S, n)) <= Cardinality(S)
      /\ Cardinality(S) \in Nat /\ Cardinality(UpTo(S, n)) \in Nat
  <2>1. UpTo(S, n) \in SUBSET S
    BY DEF UpTo
  <2> QED BY <2>1, FS_Subset, FS_CardinalityType
<1>2. ASSUME n > 0
      PROVE  Cardinality(UpTo(S, n)) =
               IF n \in S THEN Cardinality(UpTo(S, n - 1)) + 1 ELSE Cardinality(UpTo(S, n - 1))
  <2>0. \A r \in S : r \in Nat /\ (r <= n <=> r <= n - 1 \/ r = n)
    BY <1>2
  <2>1. IsFiniteSet(UpTo(S, n - 1))
    <3>1. UpTo(S, n - 1) \in SUBSET S
      BY DEF UpTo
    <3> QED BY <3>1, FS_Subset
  <2>2. n \notin UpTo(S, n - 1)
    BY <1>2 DEF UpTo
  <2>3. CASE n \in S
    <3>1. UpTo(S, n) = UpTo(S, n - 1) \cup {n}
      BY <2>0, <2>3 DEF UpTo
    <3> QED BY <2>1, <2>2, <2>3, <3>1, FS_AddElement
  <2>4. CASE n \notin S
    <3>1. UpTo(S, n) = UpTo(S, n - 1)
      BY <2>0, <2>4 DEF UpTo
    <3> QED BY <2>4, <3>1
  <2> QED BY <2>3, <2>4
<1> QED BY <1>1, <1>2

\* Each place up to the size of a set of positive naturals is taken by one.
LEMMA PlacesAreTaken ==
  ASSUME NEW S, S \subseteq Nat \ {0}, IsFiniteSet(S), NEW k \in 1..Cardinality(S),
         NEW top \in Nat, \A r \in S : r <= top
  PROVE  \E m \in S : Cardinality(UpTo(S, m)) = k
<1> DEFINE T == {n \in Nat : Cardinality(UpTo(S, n)) >= k}
<1>1. top \in T
  <2>1. UpTo(S, top) = S
    BY DEF UpTo
  <2>2. Cardinality(S) \in Nat
    BY FS_CardinalityType
  <2> QED BY <2>1, <2>2
<1>2. PICK m \in T : \A n \in T : m <= n
  <2>1. T \subseteq Nat /\ T # {}
    BY <1>1
  <2> QED BY <2>1, LeastOfNaturals
<1>3. m > 0
  <2>1. \A r \in S : ~(r <= 0)
    <3>1. \A r \in S : r \in Nat \ {0} OBVIOUS
    <3> QED BY <3>1
  <2>2. UpTo(S, 0) = {}
    BY <2>1 DEF UpTo
  <2> QED BY <2>2, FS_EmptySet
<1>4. m - 1 \in Nat /\ m - 1 \notin T
  <2>1. m - 1 \in Nat BY <1>3
  <2> QED BY <1>2, <2>1
<1>5. Cardinality(UpTo(S, m - 1)) < k /\ Cardinality(UpTo(S, m - 1)) \in Nat
  <2>1. S \subseteq Nat
    OBVIOUS
  <2>2. Cardinality(UpTo(S, m - 1)) \in Nat
    <3>1. Cardinality(UpTo(S, m - 1)) \in 0..Cardinality(S) BY <1>4, <2>1, UpToCounted
    <3> QED BY <3>1
  <2> QED BY <1>4, <2>2
<1>6. m \in S /\ Cardinality(UpTo(S, m)) = k
  <2>1. /\ S \subseteq Nat /\ m \in Nat /\ Cardinality(UpTo(S, m)) >= k
    OBVIOUS
  <2>2. Cardinality(UpTo(S, m)) =
          IF m \in S THEN Cardinality(UpTo(S, m - 1)) + 1 ELSE Cardinality(UpTo(S, m - 1))
    BY <1>3, <2>1, UpToCounted
  <2> QED BY <1>5, <2>1, <2>2
<1> QED BY <1>6

\* Of two members the smaller has the lower place.
LEMMA PlacesAreOrdered ==
  ASSUME NEW S, S \subseteq Nat, IsFiniteSet(S), NEW m \in S, NEW n \in S, m < n
  PROVE  Cardinality(UpTo(S, m)) < Cardinality(UpTo(S, n))
<1>0. m \in Nat /\ n \in Nat /\ \A r \in S : r \in Nat
  OBVIOUS
<1>1. UpTo(S, m) \in SUBSET UpTo(S, n) /\ n \in UpTo(S, n) /\ n \notin UpTo(S, m)
  <2>1. /\ \A r \in S : r <= m => r <= n
        /\ n <= n /\ ~(n <= m)
    BY <1>0
  <2> QED BY <2>1 DEF UpTo
<1>2. IsFiniteSet(UpTo(S, n)) /\ Cardinality(UpTo(S, n)) \in Nat /\ Cardinality(UpTo(S, m)) \in Nat
  <2>1. /\ IsFiniteSet(UpTo(S, n)) /\ Cardinality(UpTo(S, n)) \in 0..Cardinality(S)
        /\ Cardinality(UpTo(S, m)) \in 0..Cardinality(S)
    BY <1>0, UpToCounted
  <2> QED BY <2>1
<1>3. Cardinality(UpTo(S, m)) <= Cardinality(UpTo(S, n))
  BY <1>1, <1>2, FS_Subset
<1>4. Cardinality(UpTo(S, m)) # Cardinality(UpTo(S, n))
  BY <1>1, <1>2, FS_Subset
<1> QED BY <1>2, <1>3, <1>4

PostRecords == [thread : ReadThreads, mine : BOOLEAN, live : BOOLEAN, late : BOOLEAN,
                weight : 1..ResultWeight]
Queries == [thread : ReadThreads \cup {InboxQuery}, history : BOOLEAN,
            cursor : Nat, limit : Nat \ {0}]

RoomTyped == posts \in Seq(PostRecords) /\ Len(posts) <= MaxPosts /\ query \in Queries

\* The rows of a query are finitely many ordinals above its cursor.
LEMMA RowsTyped ==
  ASSUME RoomTyped
  PROVE  /\ Rows \subseteq Nat \ {0} /\ Rows \subseteq Nat /\ IsFiniteSet(Rows)
         /\ Cardinality(Rows) \in Nat
         /\ \A m \in Rows : m \in Ordinals /\ m <= Len(posts) /\ m > query.cursor /\ Matches(m)
<1>1. Len(posts) \in Nat
  BY DEF RoomTyped
<1>2. Rows \subseteq 1..Len(posts)
  BY DEF Rows, Ordinals
<1>3. IsFiniteSet(1..Len(posts))
  BY <1>1, FS_Interval
<1>4. IsFiniteSet(Rows)
  BY <1>2, <1>3, FS_Subset
<1>5. \A m \in Rows : m \in Nat \ {0} /\ m <= Len(posts)
  BY <1>1, <1>2
<1> QED BY <1>4, <1>5, FS_CardinalityType DEF Rows

\* The k-th row is at place k, and each row is at its place.
LEMMA RowsAreOrdered ==
  ASSUME RoomTyped
  PROVE  /\ \A k \in 1..Cardinality(Rows) : RowAt(k) \in Rows /\ Place(RowAt(k)) = k
         /\ \A m \in Rows : Place(m) \in 1..Cardinality(Rows) /\ RowAt(Place(m)) = m
         /\ \A m, n \in Rows : m < n <=> Place(m) < Place(n)
<1>1. /\ Rows \subseteq Nat \ {0} /\ Rows \subseteq Nat /\ IsFiniteSet(Rows)
      /\ Cardinality(Rows) \in Nat /\ Len(posts) \in Nat /\ \A r \in Rows : r <= Len(posts)
  BY RowsTyped DEF RoomTyped
<1>2. \A m : Place(m) = Cardinality(UpTo(Rows, m))
  BY DEF Place, UpTo
<1>3. ASSUME NEW k \in 1..Cardinality(Rows) PROVE RowAt(k) \in Rows /\ Place(RowAt(k)) = k
  <2>1. \E m \in Rows : Place(m) = k
    BY <1>1, <1>2, PlacesAreTaken
  <2> QED BY <2>1 DEF RowAt
<1>4. ASSUME NEW m \in Rows, NEW n \in Rows, m < n PROVE Place(m) < Place(n)
  BY <1>1, <1>2, <1>4, PlacesAreOrdered
<1>5. ASSUME NEW m \in Rows PROVE Place(m) \in 1..Cardinality(Rows)
  <2>1. m \in Nat /\ m <= m
    BY <1>1
  <2>2. IsFiniteSet(UpTo(Rows, m)) /\ Cardinality(UpTo(Rows, m)) \in 0..Cardinality(Rows)
    BY <1>1, <2>1, UpToCounted
  <2>3. m \in UpTo(Rows, m)
    BY <2>1 DEF UpTo
  <2>4. Cardinality(UpTo(Rows, m)) # 0
    BY <2>2, <2>3, FS_EmptySet
  <2> QED BY <1>1, <1>2, <2>2, <2>4
<1>6. \A m, n \in Rows : m < n <=> Place(m) < Place(n)
  <2> SUFFICES ASSUME NEW m \in Rows, NEW n \in Rows PROVE m < n <=> Place(m) < Place(n)
    OBVIOUS
  <2>1. m \in Nat /\ n \in Nat /\ Place(m) \in Nat /\ Place(n) \in Nat
    BY <1>1, <1>5
  <2>2. m < n \/ m = n \/ n < m
    BY <2>1
  <2> QED BY <1>4, <2>1, <2>2
<1>7. ASSUME NEW m \in Rows PROVE RowAt(Place(m)) = m
  <2>1. RowAt(Place(m)) \in Rows /\ Place(RowAt(Place(m))) = Place(m)
    BY <1>3, <1>5
  <2>2. m \in Nat /\ RowAt(Place(m)) \in Nat /\ Place(m) \in Nat
    <3>1. \A r \in Rows : r \in Nat
      BY <1>1
    <3>2. Place(m) \in Nat
      BY <1>1, <1>5
    <3> QED BY <2>1, <3>1, <3>2
  <2>3. ~(m < RowAt(Place(m))) /\ ~(RowAt(Place(m)) < m)
    BY <1>6, <2>1, <2>2
  <2> QED BY <2>2, <2>3
<1> QED BY <1>3, <1>5, <1>6, <1>7

Ascends(s) == \A i, j \in 1..Len(s) : i < j => s[i] < s[j]
PageLength == Least(query.limit, Cardinality(Rows))
PageItems == [k \in 1..PageLength |-> RowAt(k)]

\* A page has the first rows in order: all of them, or all up to its cursor.
LEMMA PageHasFirstRows ==
  ASSUME RoomTyped
  PROVE  /\ PageItems \in Seq(Rows) /\ Ascends(PageItems)
         /\ NextCursor # 0 => NextCursor \in Rows
         /\ \A k \in 1..Len(PageItems) : NextCursor # 0 => PageItems[k] <= NextCursor
         /\ \A m \in Rows : NextCursor = 0 \/ m <= NextCursor =>
              \E k \in 1..Len(PageItems) : PageItems[k] = m
<1> DEFINE n == PageLength
           size == Cardinality(Rows)
<1>1. /\ query.limit \in Nat \ {0} /\ size \in Nat /\ n \in 0..size
      /\ IF size > query.limit THEN n = query.limit ELSE n = size
  BY RowsTyped DEF RoomTyped, Queries, PageLength, Least
<1>2. \A k \in 1..size : RowAt(k) \in Rows /\ Place(RowAt(k)) = k
  BY RowsAreOrdered
<1>3. \A k \in Rows : k \in Nat \ {0}
  BY RowsTyped
<1>4. PageItems \in Seq(Rows) /\ Len(PageItems) = n /\ \A k \in 1..n : PageItems[k] = RowAt(k)
  BY <1>1, <1>2 DEF PageItems
<1>5. ASSUME NEW i \in 1..n, NEW j \in 1..n, i < j PROVE PageItems[i] < PageItems[j]
  <2>1. i \in 1..size /\ j \in 1..size
    BY <1>1
  <2>2. RowAt(i) < RowAt(j)
    BY <1>2, <1>5, <2>1, RowsAreOrdered
  <2> QED BY <1>4, <2>2
<1>6. NextCursor = IF size > query.limit THEN RowAt(n) ELSE 0
  BY <1>1 DEF NextCursor
<1>7. NextCursor # 0 => NextCursor \in Rows /\ Place(NextCursor) = n /\ size > query.limit
  BY <1>1, <1>2, <1>6
<1>8. ASSUME NEW k \in 1..n, NextCursor # 0 PROVE PageItems[k] <= NextCursor
  <2>1. k \in 1..size /\ n \in 1..size /\ NextCursor = RowAt(n)
    BY <1>1, <1>6, <1>8
  <2>2. /\ RowAt(k) \in Rows /\ Place(RowAt(k)) = k
        /\ RowAt(n) \in Rows /\ Place(RowAt(n)) = n
    BY <1>2, <2>1
  <2>3. ~(RowAt(n) < RowAt(k))
    BY <2>1, <2>2, RowsAreOrdered
  <2> QED BY <1>3, <1>4, <2>1, <2>2, <2>3
<1>9. ASSUME NEW m \in Rows, NextCursor = 0 \/ m <= NextCursor
      PROVE  \E k \in 1..n : PageItems[k] = m
  <2>1. Place(m) \in 1..size /\ RowAt(Place(m)) = m
    BY RowsAreOrdered
  <2>2. CASE NextCursor = 0
    <3>1. n = size
      <4>1. size > query.limit => RowAt(n) \in Rows
        BY <1>1, <1>2
      <4> QED BY <1>1, <1>3, <1>6, <2>2, <4>1
    <3> QED BY <1>4, <2>1, <3>1
  <2>3. CASE NextCursor # 0
    <3>1. NextCursor \in Rows /\ Place(NextCursor) = n
      BY <1>7, <2>3
    <3>2. m \in Nat /\ NextCursor \in Nat /\ ~(NextCursor < m)
      BY <1>3, <1>9, <2>3, <3>1
    <3>3. ~(n < Place(m))
      BY <3>1, <3>2, RowsAreOrdered
    <3>4. Place(m) \in 1..n
      BY <1>1, <2>1, <3>3
    <3> QED BY <1>4, <2>1, <3>4
  <2> QED BY <2>2, <2>3
<1> QED BY <1>4, <1>5, <1>7, <1>8, <1>9 DEF Ascends

PageRecords == [items : Seq(Nat), next : Nat, upTo : Nat, arrived : BOOLEAN]

\* Only a message that was redirected to the reader came late.
LateIsMine == \A m \in Ordinals : posts[m].late => posts[m].mine

\* What the query matches and was not redirected to the reader too late.
Due(m) == Matches(m) /\ ~posts[m].late
Seen(m) == \E i \in 1..Len(shown) : shown[i] = m

\* The page is what the query matched above its cursor when it was read: in
\* order, all up to its reach, and what matches since matched then.
PageIsSound ==
  /\ Ascends(page.items) /\ PageReach <= page.upTo
  /\ page.next # 0 => page.next > query.cursor
  /\ \A i \in 1..Len(page.items) : page.items[i] > query.cursor /\ page.items[i] <= PageReach
  /\ \A m \in Ordinals : Due(m) /\ m > query.cursor /\ m <= PageReach =>
        \E i \in 1..Len(page.items) : page.items[i] = m

ReadInv ==
  /\ RoomTyped /\ page \in PageRecords /\ shown \in Seq(Nat)
  /\ query.cursor <= Len(posts) /\ page.upTo <= Len(posts) /\ Ascends(shown)
  /\ page.arrived \/ page = NoPage => \A i \in 1..Len(shown) : shown[i] <= query.cursor
  /\ \A m \in Ordinals : Due(m) /\ (m <= query.cursor \/ (~page.arrived /\ m <= page.upTo))
        => Seen(m)
  /\ ~page.arrived => page.next = 0
  /\ LateIsMine
  /\ page.arrived => PageIsSound

\* The initial state satisfies the invariant.
LEMMA ReadInitInv == ReadingInit => ReadInv
<1> SUFFICES ASSUME ReadingInit PROVE ReadInv
  OBVIOUS
<1> USE ReadingAssumption DEF ReadingInit
<1>1. RoomTyped
  BY DEF RoomTyped, Queries
<1>2. /\ page \in PageRecords /\ ~page.arrived /\ page.next = 0
      /\ shown \in Seq(Nat) /\ Len(shown) = 0
  BY DEF PageRecords, NoPage
<1>3. Ordinals = {} /\ query.cursor <= Len(posts) /\ page.upTo <= Len(posts)
  BY DEF Ordinals, NoPage
<1> QED BY <1>1, <1>2, <1>3 DEF ReadInv, Ascends, LateIsMine

\* A message posted lies above every cursor and page, one that leaves the inbox
\* only stops matching, and one redirected in comes late or above both.
LEMMA RoomKeepsReadInv ==
  ASSUME ReadInv, UNCHANGED <<query, page, shown>>, RoomTyped', Len(posts) <= Len(posts'),
         \A m \in Ordinals' : Due(m)' =>
             \/ m > Len(posts)
             \/ m \in Ordinals /\ Due(m)
             \/ m > query.cursor /\ m > PageReach,
         LateIsMine'
  PROVE  ReadInv'
<1>1. /\ page \in PageRecords /\ query \in Queries
      /\ Len(posts) \in Nat /\ Len(posts') \in Nat /\ query.cursor \in Nat
      /\ page.upTo \in Nat /\ page.next \in Nat
      /\ query.cursor <= Len(posts) /\ page.upTo <= Len(posts)
  BY DEF ReadInv, RoomTyped, PageRecords, Queries
<1>2. Ordinals' \subseteq Nat
  BY <1>1 DEF Ordinals
<1>3. page.arrived => PageIsSound'
  <2> SUFFICES ASSUME page.arrived PROVE PageIsSound'
    OBVIOUS
  <2>1. PageIsSound /\ PageReach' = PageReach /\ PageReach \in Nat /\ PageReach <= Len(posts)
    BY <1>1 DEF ReadInv, PageIsSound, PageReach
  <2>2. \A m \in Ordinals' : Due(m)' /\ m > query.cursor /\ m <= PageReach
          => m \in Ordinals /\ Due(m)
    BY <1>1, <1>2, <2>1
  <2> QED BY <1>1, <2>1, <2>2 DEF PageIsSound, Ascends
<1>4. \A m \in Ordinals' : Due(m)' /\ (m <= query.cursor \/ (~page.arrived /\ m <= page.upTo))
        => Seen(m)
  <2>0. ~page.arrived => PageReach = page.upTo
    BY DEF ReadInv, PageReach
  <2>1. \A m \in Ordinals' :
          Due(m)' /\ (m <= query.cursor \/ (~page.arrived /\ m <= page.upTo))
          => m \in Ordinals /\ Due(m)
    BY <1>1, <1>2, <2>0
  <2> QED BY <2>1 DEF ReadInv
<1> QED BY <1>1, <1>3, <1>4 DEF ReadInv, Ascends, Seen

\* Posting, settling and redirecting keep the invariant.
LEMMA RoomStepsKeepReadInv ==
  ASSUME ReadInv,
         \/ \E thread \in ReadThreads, mine \in BOOLEAN, weight \in 1..ResultWeight :
                Post(thread, mine, weight)
         \/ \E m \in Ordinals : LeaveInbox(m) \/ Redirected(m)
  PROVE  ReadInv'
<1>0. /\ RoomTyped /\ Len(posts) \in Nat /\ DOMAIN posts = 1..Len(posts)
      /\ LateIsMine /\ query.cursor \in Nat /\ PageReach \in Nat
      /\ \A m \in Ordinals : m \in Nat
  BY DEF ReadInv, RoomTyped, PageRecords, PageReach, Queries, Ordinals
<1>1. ASSUME NEW thread \in ReadThreads, NEW mine \in BOOLEAN, NEW weight \in 1..ResultWeight,
             Post(thread, mine, weight)
      PROVE  ReadInv'
  <2> DEFINE new == [thread |-> thread, mine |-> mine, live |-> mine, late |-> FALSE,
                     weight |-> weight]
  <2>1. /\ posts' = Append(posts, new) /\ UNCHANGED <<query, page, shown>>
        /\ Len(posts) < MaxPosts
    BY <1>1 DEF Post
  <2>2. new \in PostRecords /\ ~new.late
    BY DEF PostRecords
  <2> HIDE DEF new
  <2>3. /\ posts' \in Seq(PostRecords) /\ Len(posts') = Len(posts) + 1
        /\ \A m \in 1..Len(posts) : posts'[m] = posts[m]
        /\ posts'[Len(posts) + 1] = new
    BY <1>0, <2>1, <2>2 DEF RoomTyped
  <2>4. RoomTyped'
    BY <1>0, <2>1, <2>3, ReadingAssumption DEF RoomTyped
  <2>5. \A m \in Ordinals' : m \in 1..Len(posts) \/ m = Len(posts) + 1
    BY <1>0, <2>3 DEF Ordinals
  <2>6. \A m \in Ordinals' : Due(m)' => m > Len(posts) \/ (m \in Ordinals /\ Due(m))
    <3> SUFFICES ASSUME NEW m \in Ordinals', Due(m)', ~(m > Len(posts))
                 PROVE  m \in Ordinals /\ Due(m)
      OBVIOUS
    <3>1. m \in 1..Len(posts) /\ posts'[m] = posts[m]
      BY <1>0, <2>3, <2>5
    <3> QED BY <2>1, <3>1 DEF Ordinals, Matches, Due
  <2>7. Len(posts) <= Len(posts')
    BY <1>0, <2>3
  <2>8. LateIsMine'
    <3> SUFFICES ASSUME NEW m \in Ordinals', posts'[m].late PROVE posts'[m].mine
      BY DEF LateIsMine
    <3>1. m \in 1..Len(posts) /\ posts'[m] = posts[m]
      BY <2>2, <2>3, <2>5
    <3> QED BY <1>0, <3>1 DEF LateIsMine, Ordinals
  <2> QED BY <2>1, <2>4, <2>6, <2>7, <2>8, RoomKeepsReadInv
<1>2. ASSUME NEW n \in Ordinals, NEW new \in PostRecords,
             posts' = [posts EXCEPT ![n] = new], UNCHANGED <<query, page, shown>>,
             new.late => new.mine,
             Due(n)' => Due(n) \/ (n > query.cursor /\ n > PageReach)
      PROVE  ReadInv'
  <2>1. /\ posts' \in Seq(PostRecords) /\ Len(posts') = Len(posts)
        /\ \A m \in 1..Len(posts) : posts'[m] = IF m = n THEN new ELSE posts[m]
    BY <1>0, <1>2 DEF RoomTyped, Ordinals
  <2>2. RoomTyped'
    BY <1>0, <1>2, <2>1 DEF RoomTyped
  <2>3. Ordinals' = Ordinals
    BY <2>1 DEF Ordinals
  <2>4. ASSUME NEW m \in Ordinals', Due(m)'
        PROVE  (m \in Ordinals /\ Due(m)) \/ (m > query.cursor /\ m > PageReach)
    <3>1. CASE m = n
      BY <1>2, <2>3, <2>4, <3>1
    <3>2. CASE m # n
      <4>1. posts'[m] = posts[m]
        BY <2>1, <2>3, <3>2 DEF Ordinals
      <4> QED BY <1>2, <2>3, <2>4, <4>1 DEF Due, Matches
    <3> QED BY <3>1, <3>2
  <2>5. LateIsMine'
    BY <1>0, <1>2, <2>1, <2>3 DEF LateIsMine, Ordinals
  <2> QED BY <1>0, <1>2, <2>1, <2>2, <2>4, <2>5, RoomKeepsReadInv
<1>3. ASSUME NEW n \in Ordinals, LeaveInbox(n) PROVE ReadInv'
  <2> DEFINE new == [posts[n] EXCEPT !.live = FALSE]
  <2>1. /\ posts' = [posts EXCEPT ![n] = new] /\ UNCHANGED <<query, page, shown>>
    BY <1>3 DEF LeaveInbox
  <2>2. n \in 1..Len(posts) /\ posts[n] \in PostRecords /\ (posts[n].late => posts[n].mine)
    BY <1>0 DEF Ordinals, RoomTyped, LateIsMine
  <2>3. /\ new \in PostRecords /\ new.thread = posts[n].thread /\ new.mine = posts[n].mine
        /\ new.late = posts[n].late /\ ~new.live
    BY <2>2 DEF PostRecords
  <2> HIDE DEF new
  <2>4. posts'[n] = new
    BY <1>0, <2>1, <2>2
  <2>5. Due(n)' => Due(n)
    BY <2>1, <2>3, <2>4 DEF Due, Matches
  <2> QED BY <1>2, <2>1, <2>2, <2>3, <2>5
<1>4. ASSUME NEW n \in Ordinals, Redirected(n) PROVE ReadInv'
  <2> DEFINE past == query.thread = InboxQuery /\ (n <= query.cursor \/ n <= PageReach)
             new == [posts[n] EXCEPT !.mine = TRUE, !.live = TRUE, !.late = past]
  <2>0. UNCHANGED <<query, page, shown>> /\ ~posts[n].mine
    BY <1>4 DEF Redirected
  <2>2. n \in 1..Len(posts) /\ posts[n] \in PostRecords /\ ~posts[n].late
    BY <1>0, <2>0 DEF Ordinals, RoomTyped, LateIsMine
  <2>1. posts' = [posts EXCEPT ![n] = new]
    BY <1>4 DEF Redirected
  <2>3. /\ new \in PostRecords /\ new.thread = posts[n].thread /\ new.mine
        /\ new.late = past
    BY <2>2 DEF PostRecords
  <2> HIDE DEF new
  <2>4. posts'[n] = new
    BY <1>0, <2>1, <2>2
  <2>5. ASSUME Due(n)' PROVE Due(n) \/ (n > query.cursor /\ n > PageReach)
    <3>1. CASE query.thread = InboxQuery
      <4>1. ~past
        BY <2>3, <2>4, <2>5 DEF Due
      <4> QED BY <1>0, <3>1, <4>1
    <3>2. CASE query.thread # InboxQuery
      BY <2>0, <2>2, <2>3, <2>4, <2>5, <3>2 DEF Due, Matches
    <3> QED BY <3>1, <3>2
  <2> HIDE DEF past
  <2> QED BY <1>2, <2>0, <2>1, <2>3, <2>5
<1> QED BY <1>1, <1>3, <1>4

\* The broker reads a page, which is sound.
LEMMA ReadPageKeepsReadInv == ASSUME ReadInv, ReadPage PROVE ReadInv'
<1> DEFINE new == [items |-> PageItems, next |-> NextCursor, upTo |-> Len(posts), arrived |-> TRUE]
<1>1. /\ page = NoPage /\ page' = new /\ UNCHANGED <<posts, query, shown>>
  BY DEF ReadPage, PageItems, PageLength
<1>2. RoomTyped /\ Len(posts) \in Nat /\ query.cursor \in Nat /\ query.cursor <= Len(posts)
  BY DEF ReadInv, RoomTyped, Queries
<1>3. /\ \A m \in Rows : m \in Nat \ {0} /\ m <= Len(posts) /\ m > query.cursor
      /\ \A m \in Ordinals : Matches(m) /\ m > query.cursor => m \in Rows
  <2>1. \A m \in Rows : m \in Nat \ {0} /\ m <= Len(posts) /\ m > query.cursor
    BY <1>2, RowsTyped
  <2> QED BY <2>1 DEF Rows
<1>4. /\ PageItems \in Seq(Rows) /\ Ascends(PageItems)
      /\ NextCursor # 0 => NextCursor \in Rows
      /\ \A k \in 1..Len(PageItems) : PageItems[k] \in Rows
      /\ \A k \in 1..Len(PageItems) : NextCursor # 0 => PageItems[k] <= NextCursor
      /\ \A m \in Rows : NextCursor = 0 \/ m <= NextCursor =>
           \E k \in 1..Len(PageItems) : PageItems[k] = m
  BY <1>2, PageHasFirstRows
<1>5. PageItems \in Seq(Nat) /\ NextCursor \in Nat
  BY <1>3, <1>4
<1> HIDE DEF new
<1>6. /\ page'.items = PageItems /\ page'.next = NextCursor /\ page'.upTo = Len(posts)
      /\ page'.arrived /\ page' \in PageRecords
  BY <1>1, <1>2, <1>5 DEF new, PageRecords
<1>7. PageReach' = IF NextCursor = 0 THEN Len(posts) ELSE NextCursor
  BY <1>6 DEF PageReach
<1>8. PageIsSound'
  <2>1. PageReach' <= page'.upTo
    BY <1>2, <1>3, <1>4, <1>6, <1>7
  <2>2. page'.next # 0 => page'.next > query.cursor
    BY <1>3, <1>4, <1>6
  <2>3. \A i \in 1..Len(page'.items) : page'.items[i] > query.cursor /\ page'.items[i] <= PageReach'
    BY <1>3, <1>4, <1>6, <1>7
  <2>4. \A m \in Ordinals : Due(m) /\ m > query.cursor /\ m <= PageReach' =>
          \E i \in 1..Len(page'.items) : page'.items[i] = m
    BY <1>3, <1>4, <1>6, <1>7 DEF Due
  <2>5. Ascends(page'.items)
    BY <1>4, <1>6
  <2>6. Ordinals' = Ordinals /\ \A m : Due(m)' = Due(m)
    BY <1>1 DEF Ordinals, Due, Matches
  <2> QED BY <1>1, <2>1, <2>2, <2>3, <2>4, <2>5, <2>6 DEF PageIsSound, Ascends
<1>9. \A m \in Ordinals' : Due(m)' /\ (m <= query.cursor) => Seen(m)'
  BY <1>1 DEF ReadInv, Seen, Ordinals, Due, Matches
<1>10. \A i \in 1..Len(shown) : shown[i] <= query.cursor
  BY <1>1 DEF ReadInv
<1>11. LateIsMine'
  BY <1>1 DEF ReadInv, LateIsMine, Ordinals
<1> QED BY <1>1, <1>2, <1>6, <1>8, <1>9, <1>10, <1>11 DEF ReadInv, RoomTyped, Ascends

\* Asking again, with another limit or not, leaves what was seen alone.
LEMMA AskAgainKeepsReadInv ==
  ASSUME ReadInv, page.arrived \/ page = NoPage, page' = NoPage, UNCHANGED <<posts, shown>>,
         query' \in Queries, query'.cursor = query.cursor, query'.thread = query.thread,
         query'.history = query.history
  PROVE  ReadInv'
<1>1. /\ page' \in PageRecords /\ ~page'.arrived /\ page'.upTo = 0 /\ page'.next = 0
      /\ Len(posts) \in Nat
  BY DEF PageRecords, NoPage, ReadInv, RoomTyped
<1>2. \A m : Due(m)' = Due(m)
  BY DEF Due, Matches
<1>3. Ordinals' = Ordinals /\ \A m \in Ordinals : ~(m <= 0)
  BY <1>1 DEF Ordinals
<1>4. \A m \in Ordinals' : Due(m)' /\ (m <= query'.cursor \/ (~page'.arrived /\ m <= page'.upTo))
        => Seen(m)'
  BY <1>1, <1>2, <1>3 DEF ReadInv, Seen
<1>5. LateIsMine'
  BY DEF ReadInv, LateIsMine, Ordinals
<1> QED BY <1>1, <1>4, <1>5 DEF ReadInv, RoomTyped, Ascends

\* The elements of a sequence of naturals are naturals.
LEMMA ElementsAreNaturals ==
  ASSUME NEW s \in Seq(Nat) PROVE \A k \in 1..Len(s) : s[k] \in Nat
OBVIOUS

\* The page joins what was seen, and the reader goes on from its reach.
LEMMA ShowPageKeepsReadInv == ASSUME ReadInv, ShowPage PROVE ReadInv'
<1> DEFINE old == Len(shown)
           new == Len(page.items)
<1>1. /\ page.arrived /\ shown' = shown \o page.items /\ UNCHANGED posts
      /\ IF page.next = 0
         THEN page' = [page EXCEPT !.arrived = FALSE] /\ UNCHANGED query
         ELSE page' = NoPage /\ query' = [query EXCEPT !.cursor = page.next]
  BY DEF ShowPage
<1>2. /\ page \in PageRecords /\ shown \in Seq(Nat) /\ page.items \in Seq(Nat)
      /\ old \in Nat /\ new \in Nat /\ page.upTo \in Nat /\ page.next \in Nat
      /\ query \in Queries /\ query.cursor \in Nat /\ RoomTyped /\ Len(posts) \in Nat
  BY DEF ReadInv, RoomTyped, PageRecords, Queries
<1>3. PageIsSound /\ Ascends(shown) /\ \A i \in 1..old : shown[i] <= query.cursor
  BY <1>1 DEF ReadInv
<1>4. /\ shown' \in Seq(Nat) /\ Len(shown') = old + new
      /\ \A i \in 1..old : shown'[i] = shown[i]
      /\ \A i \in 1..new : shown'[old + i] = page.items[i]
  BY <1>1, <1>2
<1>5. \A i \in 1..(old + new) : i \in 1..old \/ (i - old \in 1..new /\ shown'[i] = page.items[i - old])
  <2> SUFFICES ASSUME NEW i \in 1..(old + new), i \notin 1..old
               PROVE  i - old \in 1..new /\ shown'[i] = page.items[i - old]
    OBVIOUS
  <2>1. i - old \in 1..new /\ old + (i - old) = i
    BY <1>2
  <2> QED BY <1>4, <2>1
<1>6. Ascends(shown')
  <2> SUFFICES ASSUME NEW i \in 1..(old + new), NEW j \in 1..(old + new), i < j
               PROVE  shown'[i] < shown'[j]
    BY <1>4 DEF Ascends
  <2>1. CASE j \in 1..old
    <3>1. i \in 1..old
      BY <1>2, <2>1
    <3> QED BY <1>3, <1>4, <2>1, <3>1 DEF Ascends
  <2>2. CASE i \in 1..old /\ j \notin 1..old
    <3>1. j - old \in 1..new /\ shown'[j] = page.items[j - old]
      BY <1>5, <2>2
    <3>2. shown'[i] = shown[i] /\ shown[i] <= query.cursor
      BY <1>3, <1>4, <2>2
    <3>3. shown[i] \in Nat
      BY <1>2, <2>2
    <3>4. page.items[j - old] > query.cursor
      BY <1>3, <3>1 DEF PageIsSound
    <3>5. \A k \in 1..new : page.items[k] \in Nat
      BY <1>2, ElementsAreNaturals
    <3>6. page.items[j - old] \in Nat
      BY <3>1, <3>5
    <3>7. query.cursor \in Nat
      BY <1>2
    <3> HIDE DEF old, new
    <3> QED BY <3>1, <3>2, <3>3, <3>4, <3>6, <3>7
  <2>3. CASE i \notin 1..old
    <3>1. j \notin 1..old
      BY <1>2, <2>3
    <3>2. /\ i - old \in 1..new /\ shown'[i] = page.items[i - old]
          /\ j - old \in 1..new /\ shown'[j] = page.items[j - old]
      BY <1>5, <2>3, <3>1
    <3>3. i - old < j - old
      BY <1>2
    <3> QED BY <1>3, <3>2, <3>3 DEF PageIsSound, Ascends
  <2> QED BY <2>1, <2>2, <2>3
<1>7. \A m : Due(m)' = Due(m)
  BY <1>1, <1>2 DEF Due, Matches, Queries
<1>8. \A m \in Ordinals : Due(m) /\ m <= PageReach => Seen(m)'
  <2> SUFFICES ASSUME NEW m \in Ordinals, Due(m), m <= PageReach PROVE Seen(m)'
    OBVIOUS
  <2>1. m \in Nat
    BY <1>2 DEF Ordinals
  <2>2. CASE m <= query.cursor
    <3>1. PICK i \in 1..old : shown[i] = m
      BY <2>2 DEF ReadInv, Seen
    <3>2. i \in 1..Len(shown') /\ shown'[i] = m
      BY <1>2, <1>4, <3>1
    <3> QED BY <3>2 DEF Seen
  <2>3. CASE m > query.cursor
    <3>1. PICK i \in 1..new : page.items[i] = m
      BY <1>3, <2>3 DEF PageIsSound
    <3>2. old + i \in 1..(old + new)
      BY <1>2
    <3>3. shown'[old + i] = m
      BY <1>4, <3>1
    <3> QED BY <1>4, <3>2, <3>3 DEF Seen
  <2> QED BY <1>2, <2>1, <2>2, <2>3
<1>9. \A i \in 1..Len(shown') : shown'[i] <= PageReach \/ shown'[i] <= query.cursor
  <2> SUFFICES ASSUME NEW i \in 1..(old + new) PROVE shown'[i] <= PageReach \/ shown'[i] <= query.cursor
    BY <1>4
  <2>1. CASE i \in 1..old
    BY <1>3, <1>4, <2>1
  <2>2. CASE i \notin 1..old
    <3>1. i - old \in 1..new /\ shown'[i] = page.items[i - old]
      BY <1>5, <2>2
    <3> QED BY <1>3, <3>1 DEF PageIsSound
  <2> QED BY <2>1, <2>2
<1>10. Ordinals' = Ordinals /\ LateIsMine'
  BY <1>1 DEF ReadInv, Ordinals, LateIsMine
<1>11. CASE page.next = 0
  <2>1. /\ page' \in PageRecords /\ ~page'.arrived /\ page'.upTo = page.upTo /\ UNCHANGED query
        /\ page'.next = 0
        /\ PageReach = page.upTo
    BY <1>1, <1>2, <1>11 DEF PageRecords, PageReach
  <2>2. page' = NoPage => \A i \in 1..Len(shown') : shown'[i] <= query.cursor
    <3> SUFFICES ASSUME page' = NoPage, NEW i \in 1..(old + new) PROVE shown'[i] <= query.cursor
      BY <1>4
    <3>1. page.items = <<>>
      BY <1>1, <1>2, <1>11 DEF NoPage, PageRecords
    <3>2. i \in 1..old
      BY <1>2, <3>1
    <3> QED BY <1>3, <1>4, <3>2
  <2>3. \A m \in Ordinals : Due(m) /\ m <= query.cursor => Seen(m)'
    <3> SUFFICES ASSUME NEW m \in Ordinals, Due(m), m <= query.cursor PROVE Seen(m)'
      OBVIOUS
    <3>1. PICK i \in 1..old : shown[i] = m
      BY DEF ReadInv, Seen
    <3>2. i \in 1..Len(shown') /\ shown'[i] = m
      BY <1>2, <1>4, <3>1
    <3> QED BY <3>2 DEF Seen
  <2> QED BY <1>1, <1>2, <1>4, <1>6, <1>7, <1>8, <1>10, <2>1, <2>2, <2>3
          DEF ReadInv, RoomTyped
<1>12. CASE page.next # 0
  <2>0. page' = NoPage /\ query' = [query EXCEPT !.cursor = page.next] /\ PageReach = page.next
    BY <1>1, <1>12 DEF PageReach
  <2>6. NoPage \in PageRecords /\ ~NoPage.arrived /\ NoPage.upTo = 0 /\ NoPage.next = 0
    BY DEF PageRecords, NoPage
  <2>1. /\ page' = NoPage /\ page' \in PageRecords /\ ~page'.arrived /\ page'.upTo = 0
        /\ page'.next = 0 /\ query' = [query EXCEPT !.cursor = page.next] /\ PageReach = page.next
    BY <2>0, <2>6
  <2>2. query' \in Queries /\ query'.cursor = page.next
    BY <1>2, <2>1 DEF Queries
  <2>3. page.next <= Len(posts) /\ page.next > query.cursor
    BY <1>2, <1>3, <1>12, <2>1 DEF ReadInv, PageIsSound
  <2>4. \A i \in 1..Len(shown') : shown'[i] <= page.next
    <3> SUFFICES ASSUME NEW i \in 1..Len(shown') PROVE shown'[i] <= page.next
      OBVIOUS
    <3>1. shown'[i] \in Nat
      BY <1>4
    <3> QED BY <1>2, <1>9, <2>1, <2>3, <3>1
  <2>5. \A m \in Ordinals : m \in Nat /\ ~(m <= 0)
    BY <1>2 DEF Ordinals
  <2> QED BY <1>1, <1>2, <1>4, <1>6, <1>7, <1>8, <1>10, <2>1, <2>2, <2>3, <2>4, <2>5
          DEF ReadInv, RoomTyped
<1> QED BY <1>11, <1>12

\* Every step keeps the invariant.
LEMMA ReadStepInv == ReadInv /\ [ReadingNext]_readVars => ReadInv'
<1> SUFFICES ASSUME ReadInv, [ReadingNext]_readVars PROVE ReadInv'
  OBVIOUS
<1>0. query \in Queries /\ query.limit \in Nat \ {0}
  BY DEF ReadInv, RoomTyped, Queries
<1>1. CASE LosePage
  BY <1>0, <1>1, AskAgainKeepsReadInv DEF LosePage
<1>2. CASE RetrySmaller
  <2> DEFINE n == IF query.limit \div 2 > 1 THEN query.limit \div 2 ELSE 1
  <2>1. n \in Nat \ {0}
    BY <1>0
  <2>2. query' = [query EXCEPT !.limit = n]
    BY <1>2 DEF RetrySmaller
  <2> HIDE DEF n
  <2>3. /\ query' \in Queries /\ query'.cursor = query.cursor /\ query'.thread = query.thread
        /\ query'.history = query.history
    BY <1>0, <2>1, <2>2 DEF Queries
  <2> QED BY <1>2, <2>3, AskAgainKeepsReadInv DEF RetrySmaller
<1>3. ASSUME NEW limit \in 1..PageLimit, ChangeLimit(limit) PROVE ReadInv'
  <2>1. /\ query' \in Queries /\ query'.cursor = query.cursor /\ query'.thread = query.thread
        /\ query'.history = query.history
    BY <1>0, <1>3, ReadingAssumption DEF Queries, ChangeLimit
  <2> QED BY <1>3, <2>1, AskAgainKeepsReadInv DEF ChangeLimit
<1>4. CASE UNCHANGED readVars
  <2>1. /\ UNCHANGED <<posts, query, page, shown>> /\ Ordinals' = Ordinals
        /\ \A m : Due(m)' = Due(m)
    BY <1>4 DEF readVars, Ordinals, Due, Matches
  <2>2. RoomTyped' /\ LateIsMine' /\ Len(posts) <= Len(posts')
    BY <2>1 DEF ReadInv, RoomTyped, LateIsMine
  <2> QED BY <2>1, <2>2, RoomKeepsReadInv
<1> QED BY <1>1, <1>2, <1>3, <1>4, RoomStepsKeepReadInv, ReadPageKeepsReadInv,
           ShowPageKeepsReadInv DEF ReadingNext

\* However long the room and whatever the limits: following the cursor shows
\* each message once and in order, and misses none that still matches except a
\* request redirected to the reader when it was past it (store.ts: read and
\* redirect; tools.ts: team_read; tool-results.ts: readPageToolResult).
THEOREM ReadingSoundness == ReadingSpec => []PagingMissesOnlyLate
<1>1. ReadInv => PagingMissesOnlyLate
  <2> SUFFICES ASSUME ReadInv PROVE PagingMissesOnlyLate
    OBVIOUS
  <2>1. \A i \in 1..(Len(shown) - 1) : shown[i] < shown[i + 1]
    <3>1. Len(shown) \in Nat /\ Ascends(shown)
      BY DEF ReadInv
    <3>2. ASSUME NEW i \in 1..(Len(shown) - 1)
          PROVE  i \in 1..Len(shown) /\ i + 1 \in 1..Len(shown) /\ i < i + 1
      BY <3>1
    <3> QED BY <3>1, <3>2 DEF Ascends
  <2>2. \A m : Seen(m) => m \in ToSet(shown)
    BY DEF Seen, ToSet, ReadInv
  <2> QED BY <2>1, <2>2 DEF PagingMissesOnlyLate, ReadInv, Due
<1> QED BY <1>1, ReadInitInv, ReadStepInv, PTL DEF ReadingSpec

\* The limits and the cursors of paging stay within their bounds, and what is
\* on its way or shown is of the room.
ReadBounds ==
    /\ query.limit <= PageLimit
    /\ page.items \in Seq(Ordinals) /\ page.next <= MaxPosts /\ shown \in Seq(Ordinals)

\* A room that grows keeps the sequences of its ordinals.
LEMMA OrdinalsGrow ==
  ASSUME NEW n \in Nat, NEW m \in Nat, n <= m, NEW s \in Seq(1..n) PROVE s \in Seq(1..m)
<1>1. \A i \in 1..Len(s) : s[i] \in 1..n
  OBVIOUS
<1>2. \A i \in 1..Len(s) : s[i] \in 1..m
  BY <1>1
<1> QED BY <1>2

\* Posts, pages and limits keep to the bounds.
LEMMA ReadKeepsBounds == ReadInv /\ ReadBounds /\ [ReadingNext]_readVars => ReadBounds'
<1> SUFFICES ASSUME ReadInv, ReadBounds, [ReadingNext]_readVars PROVE ReadBounds'
  OBVIOUS
<1>0. /\ RoomTyped /\ Len(posts) \in Nat /\ Len(posts) <= MaxPosts /\ MaxPosts \in Nat
      /\ posts \in Seq(PostRecords) /\ page \in PageRecords /\ PageLimit \in Nat \ {0}
      /\ query \in Queries
  BY ReadingAssumption DEF ReadInv, RoomTyped
<1>1. ASSUME NEW thread \in ReadThreads, NEW mine \in BOOLEAN, NEW weight \in 1..ResultWeight,
             Post(thread, mine, weight)
      PROVE  ReadBounds'
  <2>1. Len(posts') = Len(posts) + 1 /\ UNCHANGED <<query, page, shown>>
    BY <1>0, <1>1 DEF Post
  <2>2. page.items \in Seq(1..Len(posts')) /\ shown \in Seq(1..Len(posts'))
    <3>1. page.items \in Seq(1..Len(posts)) /\ shown \in Seq(1..Len(posts))
      BY DEF ReadBounds, Ordinals
    <3> QED BY <1>0, <2>1, <3>1, OrdinalsGrow
  <2> QED BY <2>1, <2>2 DEF ReadBounds, Ordinals
<1>2. ASSUME NEW m \in Ordinals, LeaveInbox(m) \/ Redirected(m) PROVE ReadBounds'
  <2>1. Len(posts') = Len(posts) /\ UNCHANGED <<query, page, shown>>
    BY <1>0, <1>2 DEF LeaveInbox, Redirected
  <2> QED BY <2>1 DEF ReadBounds, Ordinals
<1>3. CASE ReadPage
  <2>1. /\ page' = [items |-> PageItems, next |-> NextCursor, upTo |-> Len(posts),
                    arrived |-> TRUE]
        /\ UNCHANGED <<posts, query, shown>>
    BY <1>3 DEF ReadPage, PageItems, PageLength
  <2>2. PageItems \in Seq(Rows) /\ (NextCursor # 0 => NextCursor \in Rows)
    BY <1>0, PageHasFirstRows
  <2>3. \A m \in Rows : m \in Ordinals /\ m <= Len(posts) /\ m \in Nat
    BY <1>0, RowsTyped
  <2>4. PageItems \in Seq(Ordinals) /\ NextCursor <= MaxPosts
    <3>1. PageItems \in Seq(Ordinals)
      BY <2>2, <2>3
    <3>2. NextCursor <= MaxPosts
      BY <1>0, <2>2, <2>3
    <3> QED BY <3>1, <3>2
  <2> QED BY <2>1, <2>4 DEF ReadBounds, Ordinals
<1>4. CASE LosePage \/ RetrySmaller \/ \E limit \in 1..PageLimit : ChangeLimit(limit)
  <2>1. UNCHANGED <<posts, shown>> /\ page' \in {page, NoPage}
    BY <1>4 DEF LosePage, RetrySmaller, ChangeLimit
  <2>2. NoPage.items \in Seq(Ordinals) /\ NoPage.next <= MaxPosts
    BY <1>0 DEF NoPage
  <2>3. page'.items \in Seq(Ordinals) /\ page'.next <= MaxPosts
    BY <2>1, <2>2 DEF ReadBounds
  <2>4. query'.limit <= PageLimit
    <3>1. CASE LosePage
      BY <3>1 DEF LosePage, ReadBounds
    <3>2. CASE RetrySmaller
      <4>1. query.limit \in Nat \ {0} /\ query.limit <= PageLimit
        BY <1>0 DEF Queries, ReadBounds
      <4>2. query'.limit = IF query.limit \div 2 > 1 THEN query.limit \div 2 ELSE 1
        BY <1>0, <3>2 DEF RetrySmaller, Queries
      <4> QED BY <1>0, <4>1, <4>2
    <3>3. ASSUME NEW limit \in 1..PageLimit, ChangeLimit(limit) PROVE query'.limit <= PageLimit
      BY <1>0, <3>3 DEF ChangeLimit, Queries
    <3> QED BY <1>4, <3>1, <3>2, <3>3
  <2> QED BY <2>1, <2>3, <2>4 DEF ReadBounds, Ordinals
<1>5. CASE ShowPage
  <2>1. UNCHANGED posts /\ shown' = shown \o page.items
    BY <1>5 DEF ShowPage
  <2>2. shown' \in Seq(Ordinals)
    BY <2>1 DEF ReadBounds
  <2>3. query'.limit = query.limit
    BY <1>0, <1>5 DEF ShowPage, Queries
  <2>4. page' \in {NoPage, [page EXCEPT !.arrived = FALSE]}
    BY <1>5 DEF ShowPage
  <2>5. page'.items \in {page.items, <<>>} /\ page'.next \in {page.next, 0}
    BY <1>0, <2>4 DEF NoPage, PageRecords
  <2>6. page'.items \in Seq(Ordinals)
    BY <2>5, EmptySeq DEF ReadBounds
  <2>7. page'.next <= MaxPosts
    BY <1>0, <2>5 DEF ReadBounds
  <2> QED BY <2>1, <2>2, <2>3, <2>6, <2>7 DEF ReadBounds, Ordinals
<1>6. CASE UNCHANGED readVars
  BY <1>6 DEF readVars, ReadBounds, Ordinals
<1> QED BY <1>1, <1>2, <1>3, <1>4, <1>5, <1>6 DEF ReadingNext

\* Paging starts within its bounds, which give its types.
LEMMA ReadBoundsGiveTypes ==
  (ReadingInit => ReadBounds) /\ (ReadInv /\ ReadBounds => ReadingTypeOK)
<1>1. ASSUME ReadingInit PROVE ReadBounds
  <2>1. page.items = <<>> /\ page.next = 0 /\ shown = <<>> /\ query.limit = PageLimit
    BY <1>1 DEF ReadingInit, NoPage
  <2> QED BY <2>1, ReadingAssumption, EmptySeq DEF ReadBounds
<1>2. ASSUME ReadInv, ReadBounds PROVE ReadingTypeOK
  <2>0. /\ Len(posts) \in Nat /\ Len(posts) <= MaxPosts /\ MaxPosts \in Nat
        /\ query \in Queries /\ page \in PageRecords /\ query.cursor <= Len(posts)
        /\ PageLimit \in Nat
    BY <1>2, ReadingAssumption DEF ReadInv, RoomTyped
  <2>1. query \in [thread : ReadThreads \cup {InboxQuery}, history : BOOLEAN,
                   cursor : 0..MaxPosts, limit : 1..PageLimit]
    BY <1>2, <2>0 DEF Queries, ReadBounds
  <2>2. page.next \in 0..MaxPosts
    BY <1>2, <2>0 DEF PageRecords, ReadBounds
  <2> QED BY <1>2, <2>1, <2>2 DEF ReadInv, RoomTyped, ReadBounds, ReadingTypeOK, PostRecords
<1> QED BY <1>1, <1>2

=============================================================================
