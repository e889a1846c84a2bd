------------------------------- MODULE EvalRun -------------------------------
(***************************************************************************)
(* A skill evaluation (extensions/evals/skill-eval): runEvaluation with    *)
(* its variants one after the other, runVariant with the agent's events,   *)
(* the deadline that pauses for dialogs, and the ways an attempt ends.     *)
(*                                                                         *)
(* Abstractions.  Evidence files, phases and metrics are left out, but a   *)
(* failure to capture them is not.  One open dialog stands for several.    *)
(***************************************************************************)
EXTENDS Naturals, AgentCompletion

CONSTANTS
    VariantCount,   \* variants of the evaluation
    MaxRetries,     \* limits.maxRetries
    EvalReasons     \* the stop reasons the agent gives

ASSUME EvalAssumption ==
    VariantCount \in Nat \ {0} /\ MaxRetries \in Nat /\ EvalReasons \subseteq StopReasons

VARIABLES
    onTimeout, dialogs,       \* the configuration
    evalRun,                  \* where the run is, and its status
    variant, attempt,         \* the variant that is next or under way
    variants,                 \* status and findings of each
    trial,                    \* the attempt: runVariant's locals
    deadline, dialogOpen,     \* the ActiveDeadline, dialogDepth > 0
    cancelAsked               \* options.signal

evalVars == <<onTimeout, dialogs, evalRun, variant, attempt, variants, trial,
              deadline, dialogOpen, cancelAsked>>

Config == <<onTimeout, dialogs>>
VariantNumbers == 1..VariantCount
Preparations == {"copying", "replacing", "removing", "baselining"}

NoTrial == [at |-> "none", session |-> FALSE, tracker |-> NewTracker, cancelled |-> FALSE,
            timedOut |-> FALSE, blocked |-> FALSE, status |-> "harness_error"]

(***************************************************************************)
(* The deadline                                                            *)
(***************************************************************************)
StartDeadline == deadline' = "running"
Pause == IF deadline = "running" THEN "paused" ELSE deadline
Resumed == IF deadline = "paused" THEN "running" ELSE deadline

(***************************************************************************)
(* runEvaluation                                                           *)
(***************************************************************************)
\* The steps that prepare the workspace.  The copy looks at the signal when it is
\* made, and git while it runs; the changes look only before each of them.
PreparationStep(step, next) ==
    /\ evalRun = [at |-> step, status |-> "preparing"]
    /\ evalRun' = [evalRun EXCEPT !.at = next]
    /\ UNCHANGED <<Config, variant, attempt, variants, trial, deadline, dialogOpen,
                   cancelAsked>>

CopyWorkspace == ~cancelAsked /\ PreparationStep("copying", "replacing")
ApplyReplacements == PreparationStep("replacing", "removing")
ApplyRemovals == PreparationStep("removing", "baselining")
EstablishBaseline == ~cancelAsked /\ PreparationStep("baselining", "prepared")

\* The prepared workspace is on record, and the variants may start.
Prepared ==
    /\ evalRun.at = "prepared"
    /\ evalRun' = [at |-> "choosing", status |-> "running"]
    /\ UNCHANGED <<Config, variant, attempt, variants, trial, deadline, dialogOpen,
                   cancelAsked>>

\* A step of the run throws, by a fault or because of the signal.
Throw ==
    /\ evalRun.at \in Preparations \cup {"prepared", "choosing", "deciding"}
    /\ evalRun' = [at |-> "ending",
                   status |-> IF cancelAsked THEN "cancelled" ELSE "harness_error"]
    /\ UNCHANGED <<Config, variant, attempt, variants, trial, deadline, dialogOpen,
                   cancelAsked>>

\* The next attempt of the variant starts, unless the run is cancelled.
ChooseOnTimeout ==
    /\ evalRun.at = "choosing"
    /\ IF cancelAsked
       THEN /\ evalRun' = [at |-> "ending", status |-> "cancelled"]
            /\ UNCHANGED <<attempt, variants, trial>>
       ELSE /\ evalRun' = [evalRun EXCEPT !.at = "trying"]
            /\ attempt' = attempt + 1
            /\ variants' = [variants EXCEPT ![variant].status = "preparing"]
            /\ trial' = [NoTrial EXCEPT !.at = "setup"]
    /\ deadline' = "off" /\ dialogOpen' = FALSE
    /\ UNCHANGED <<Config, variant, cancelAsked>>

Stops(v) == variants[v].status # "completed" \/ variants[v].findings

\* After an attempt: again, the next variant, or the end of the run.
DecideNext ==
    LET status == variants[variant].status
        retry == /\ status = "timed_out" /\ ~variants[variant].findings
                 /\ onTimeout = "retry" /\ attempt <= MaxRetries
        on == \/ status = "timed_out" /\ onTimeout = "continue"
              \/ ~Stops(variant) IN
    /\ evalRun.at = "deciding"
    /\ IF retry
       THEN evalRun' = [evalRun EXCEPT !.at = "choosing"] /\ UNCHANGED <<variant, attempt>>
       ELSE IF on /\ variant < VariantCount
       THEN /\ evalRun' = [evalRun EXCEPT !.at = "choosing"]
            /\ variant' = variant + 1 /\ attempt' = 0
       ELSE /\ evalRun' = [at |-> "ending",
                           status |-> IF on \/ (status = "completed" /\ ~variants[variant].findings)
                                      THEN "completed"
                                      ELSE IF status = "completed" THEN "policy_stopped"
                                      ELSE status]
            /\ UNCHANGED <<variant, attempt>>
    /\ UNCHANGED <<Config, variants, trial, deadline, dialogOpen, cancelAsked>>

\* The report is written; a run that completed must have one.
End(reported) ==
    /\ evalRun.at = "ending"
    /\ evalRun' = [at |-> "ended",
                   status |-> IF evalRun.status = "completed" /\ ~reported
                              THEN "harness_error" ELSE evalRun.status]
    /\ UNCHANGED <<Config, variant, attempt, variants, trial, deadline, dialogOpen,
                   cancelAsked>>

(***************************************************************************)
(* runVariant                                                              *)
(***************************************************************************)
Trying(steps) == evalRun.at = "trying" /\ trial.at \in steps
Idle == UNCHANGED <<Config, evalRun, variant, attempt>>

CreateSession ==
    /\ Trying({"setup"}) /\ ~trial.session
    /\ trial' = [trial EXCEPT !.session = TRUE]
    /\ Idle /\ UNCHANGED <<variants, deadline, dialogOpen, cancelAsked>>

\* Everything is bound and resolved, and the prompt is sent.
Prompt ==
    /\ Trying({"setup"}) /\ trial.session /\ ~trial.blocked /\ ~cancelAsked
    /\ trial' = [trial EXCEPT !.at = "prompting"]
    /\ variants' = [variants EXCEPT ![variant].status = "running"]
    /\ Idle /\ UNCHANGED <<deadline, dialogOpen, cancelAsked>>

Accepted ==
    /\ Trying({"prompting"}) /\ deadline = "off" /\ StartDeadline
    /\ Idle /\ UNCHANGED <<variants, trial, dialogOpen, cancelAsked>>

AgentEvent(event) ==
    /\ Trying({"prompting"})
    /\ trial' = [trial EXCEPT !.tracker = Observe(@, event)]
    /\ Idle /\ UNCHANGED <<variants, deadline, dialogOpen, cancelAsked>>

DeniedTool ==
    /\ Trying({"prompting"})
    /\ variants' = [variants EXCEPT ![variant].findings = TRUE]
    /\ Idle /\ UNCHANGED <<trial, deadline, dialogOpen, cancelAsked>>

\* A dialog of a child extension; custom UI that cannot be rejected blocks.
OpenDialog ==
    /\ Trying({"setup", "prompting"}) /\ trial.session
    /\ dialogs = "interactive" /\ ~dialogOpen
    /\ dialogOpen' = TRUE /\ deadline' = Pause
    /\ Idle /\ UNCHANGED <<variants, trial, cancelAsked>>

CloseDialog ==
    /\ dialogOpen /\ dialogOpen' = FALSE /\ deadline' = Resumed
    /\ Idle /\ UNCHANGED <<variants, trial, cancelAsked>>

CustomUI ==
    /\ Trying({"setup", "prompting"}) /\ trial.session /\ dialogs = "auto-reject"
    /\ trial' = [trial EXCEPT !.blocked = TRUE]
    /\ Idle /\ UNCHANGED <<variants, deadline, dialogOpen, cancelAsked>>

Cancel ==
    /\ ~cancelAsked /\ evalRun.at # "ended" /\ cancelAsked' = TRUE
    /\ trial' = IF Trying({"prompting"}) THEN [trial EXCEPT !.cancelled = TRUE] ELSE trial
    /\ Idle /\ UNCHANGED <<variants, deadline, dialogOpen>>

\* The deadline wins the race; the prompt ends after the abort it causes.
Expire ==
    /\ Trying({"prompting"}) /\ deadline = "running" /\ ~trial.timedOut
    /\ trial' = [trial EXCEPT !.timedOut = TRUE]
    /\ deadline' = "expired"
    /\ Idle /\ UNCHANGED <<variants, dialogOpen, cancelAsked>>

\* Mutant: a settled answer counts although the deadline has passed.
VerdictIgnoringTime(t) ==
    LET outcome == Outcome(t.tracker, t.cancelled, 0) IN
    IF t.blocked THEN "interaction_blocked"
    ELSE IF t.cancelled \/ outcome = "aborted" THEN "cancelled"
    ELSE IF outcome = "error" THEN "agent_error" ELSE outcome

Verdict(t) ==
    LET outcome == Outcome(t.tracker, t.cancelled, 0) IN
    IF t.blocked THEN "interaction_blocked"
    ELSE IF t.cancelled THEN "cancelled"
    ELSE IF t.timedOut THEN "timed_out"
    ELSE IF outcome = "aborted" THEN "cancelled"
    ELSE IF outcome = "error" THEN "agent_error" ELSE outcome

StopDeadline == deadline' = Pause

PromptEnds ==
    /\ Trying({"prompting"})
    /\ trial' = [trial EXCEPT !.at = "diffing", !.status = Verdict(trial)]
    /\ StopDeadline
    /\ Idle /\ UNCHANGED <<variants, dialogOpen, cancelAsked>>

\* Setup or the prompt throws.
Fails ==
    /\ Trying({"setup", "prompting"})
    /\ trial' = [trial EXCEPT !.at = "diffing", !.status =
            IF trial.blocked THEN "interaction_blocked"
            ELSE IF trial.cancelled \/ cancelAsked THEN "cancelled"
            ELSE IF trial.timedOut THEN "timed_out" ELSE "harness_error"]
    /\ StopDeadline
    /\ Idle /\ UNCHANGED <<variants, dialogOpen, cancelAsked>>

\* The evidence of the workspace, then of the session if there is one; without
\* it a completed attempt is not.
Capture(step, next, ok) ==
    /\ Trying({step})
    /\ trial' = [trial EXCEPT !.at = next,
            !.status = IF ok \/ @ # "completed" THEN @ ELSE "harness_error"]
    /\ Idle /\ UNCHANGED <<variants, deadline, dialogOpen, cancelAsked>>

CaptureDiff(ok) ==
    Capture("diffing", IF trial.session THEN "recording" ELSE "closing", ok)
CaptureSession(ok) == Capture("recording", "closing", ok)

\* The attempt settles; its session is disposed and its workspace removed.
Settle ==
    /\ Trying({"closing"})
    /\ variants' = [variants EXCEPT ![variant].status = trial.status]
    /\ evalRun' = [evalRun EXCEPT !.at = "deciding"]
    /\ trial' = NoTrial /\ deadline' = "off" /\ dialogOpen' = FALSE
    /\ UNCHANGED <<Config, variant, attempt, cancelAsked>>

(***************************************************************************)
(* Specification                                                           *)
(***************************************************************************)
EvalInit ==
    /\ onTimeout \in {"stop", "continue", "retry"}
    /\ dialogs \in {"interactive", "auto-reject"}
    /\ evalRun = [at |-> "copying", status |-> "preparing"]
    /\ variant = 1 /\ attempt = 0
    /\ variants = [v \in VariantNumbers |-> [status |-> "pending", findings |-> FALSE]]
    /\ trial = NoTrial /\ deadline = "off"
    /\ dialogOpen = FALSE /\ cancelAsked = FALSE

EvalNext ==
    \/ CopyWorkspace \/ ApplyReplacements \/ ApplyRemovals \/ EstablishBaseline
    \/ Prepared \/ Throw \/ ChooseOnTimeout \/ DecideNext
    \/ \E ok \in BOOLEAN : End(ok) \/ CaptureDiff(ok) \/ CaptureSession(ok)
    \/ CreateSession \/ Prompt \/ Accepted \/ DeniedTool
    \/ OpenDialog \/ CloseDialog \/ CustomUI \/ Cancel \/ Expire
    \/ PromptEnds \/ Fails \/ Settle
    \/ \E event \in Events(EvalReasons) : AgentEvent(event)

EvalSpec == EvalInit /\ [][EvalNext]_evalVars

(***************************************************************************)
(* Properties                                                              *)
(***************************************************************************)
Statuses == {"preparing", "running", "completed", "agent_error", "truncated", "incomplete",
             "timed_out", "interaction_blocked", "policy_stopped", "cancelled",
             "harness_error"}

EvalTypeOK ==
    /\ evalRun.at \in Preparations \cup {"prepared", "choosing", "trying", "deciding",
                                         "ending", "ended"}
    /\ evalRun.status \in Statuses
    /\ variant \in VariantNumbers /\ attempt \in 0..(MaxRetries + 1)
    /\ variants \in [VariantNumbers -> [status : Statuses \cup {"pending"},
                                        findings : BOOLEAN]]
    /\ trial.at \in {"none", "setup", "prompting", "diffing", "recording", "closing"}
    /\ deadline \in {"off", "running", "paused", "expired"}

\* The run vouches for no variant it should not: whatever times out, fails, is
\* denied, blocked or cancelled on the way, a completed run has run every
\* variant, and each of them completed without a finding, or timed out where
\* the configuration says to go on; and a variant that was cut short by the
\* deadline never counts as completed.
VerdictIsDeserved ==
    /\ evalRun.at \in {"ending", "ended"} /\ evalRun.status = "completed" =>
        \A v \in VariantNumbers :
            \/ variants[v].status = "completed" /\ ~variants[v].findings
            \/ variants[v].status = "timed_out" /\ onTimeout = "continue"
    /\ trial.status = "completed" => ~trial.timedOut /\ ~trial.blocked /\ ~trial.cancelled

\* Disallowed-tool findings stop later variants (docs/skill-evaluation.md:124).
FindingsStopLaterVariants ==
    \A v, w \in VariantNumbers :
        v < w /\ variants[v].findings => variants[w].status = "pending"

=============================================================================
