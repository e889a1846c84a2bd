--------------------------- MODULE AgentCompletion ---------------------------
(***************************************************************************)
(* How a run of an agent ended, from the events of its process             *)
(* (AgentCompletionTracker and classifyAgentCompletion in                  *)
(* src/shared/agent-completion.ts).  A message is its stop reason.         *)
(***************************************************************************)
StopReasons == {"stop", "error", "length", "aborted"}
Missing == "missing"   \* no assistant message

Events(reasons) ==
    [type : {"agent_start"}]
    \cup [type : {"message_end"}, reason : reasons]
    \cup [type : {"agent_end"}, reason : reasons \cup {Missing}]
    \cup [type : {"agent_settled"}, aborted : BOOLEAN]

NewTracker == [settled |-> FALSE, settledAborted |-> FALSE, stopReason |-> Missing]

Observe(tracker, event) ==
    CASE event.type = "agent_start" -> NewTracker
      [] event.type = "agent_settled" ->
            [tracker EXCEPT !.settled = TRUE, !.settledAborted = event.aborted]
      [] OTHER -> [tracker EXCEPT !.stopReason = event.reason]

\* An abort of our own or of the settled run comes before all other evidence.
Outcome(tracker, aborted, exitCode) ==
    IF aborted \/ tracker.settledAborted \/ tracker.stopReason = "aborted" THEN "aborted"
    ELSE IF exitCode # 0 THEN "error"
    ELSE IF ~tracker.settled THEN "incomplete"
    ELSE CASE tracker.stopReason = "stop" -> "completed"
           [] tracker.stopReason = "error" -> "error"
           [] tracker.stopReason = "length" -> "truncated"
           [] OTHER -> "incomplete"

Outcomes == {"completed", "aborted", "error", "truncated", "incomplete"}

=============================================================================
