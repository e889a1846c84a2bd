---------------------------- MODULE RecordProofs ----------------------------
(***************************************************************************)
(* What a session starts besides itself, and what is put on record: the    *)
(* trials of an evaluation (EvalRun) and their evidence (EvalEvidence),    *)
(* subagents (SubagentPool), the usage ledger (UsageCapture), and the      *)
(* skills that several processes review (SkillReview), hide                *)
(* (SkillBlocking) and pin (SkillUpkeep); and, last, the types of all the  *)
(* parts of a session together (MCSessionParts).                           *)
(***************************************************************************)
EXTENDS MCSessionParts, SessionProofs

(***************************************************************************)
(* EvalRun.  The variants before the present one did well enough to go on, *)
(* a run that completed has gone through all of them, and an attempt that  *)
(* is called completed was not cut short.                                  *)
(***************************************************************************)
WentWell(v) ==
  \/ variants[v].status = "completed" /\ ~variants[v].findings
  \/ variants[v].status = "timed_out" /\ onTimeout = "continue"

Stages == Preparations \cup {"prepared", "choosing", "trying", "deciding", "ending", "ended"}
Trackers == [settled : BOOLEAN, settledAborted : BOOLEAN, stopReason : StopReasons \cup {Missing}]
Trials == [at : {"none", "setup", "prompting", "diffing", "recording", "closing"},
           session : BOOLEAN, tracker : Trackers, cancelled : BOOLEAN, timedOut : BOOLEAN,
           blocked : BOOLEAN, status : Statuses]

EvalInv ==
  /\ evalRun \in [at : Stages, status : Statuses]
  /\ variant \in VariantNumbers
  /\ variants \in [VariantNumbers -> [status : Statuses \cup {"pending"}, findings : BOOLEAN]]
  /\ trial \in Trials
  /\ \A v \in VariantNumbers : v < variant => WentWell(v)
  /\ evalRun.status = "completed" =>
        evalRun.at \in {"ending", "ended"} /\ \A v \in VariantNumbers : WentWell(v)
  /\ trial.status = "completed" =>
        /\ trial.at \in {"diffing", "recording", "closing"}
        /\ ~trial.timedOut /\ ~trial.blocked /\ ~trial.cancelled
  /\ evalRun.at \in {"trying", "deciding"} => variants[variant].status # "pending"

\* The initial state satisfies the invariant.
LEMMA EvalInitInv == EvalInit => EvalInv
BY EvalAssumption DEF EvalInit, EvalInv, NoTrial, NewTracker, Trials, Trackers, Stages,
   Statuses, Preparations, VariantNumbers, WentWell, Missing, StopReasons

\* Where the run stands may change as long as it is not called completed.
LEMMA RunMoves ==
  ASSUME EvalInv, NEW where \in Stages \ {"trying", "deciding"},
         NEW status \in Statuses \ {"completed"},
         evalRun' = [at |-> where, status |-> status],
         UNCHANGED <<Config, variant, variants, trial>>
  PROVE  EvalInv'
BY DEF EvalInv, Config, WentWell

\* An attempt may change as long as it is not called completed.
LEMMA TrialMoves ==
  ASSUME EvalInv, NEW t \in Trials, trial' = t, t.status # "completed",
         UNCHANGED <<Config, evalRun, variant, variants>>
  PROVE  EvalInv'
BY DEF EvalInv, Config, WentWell

\* While an attempt is under way, its variant may change.
LEMMA VariantMoves ==
  ASSUME EvalInv, NEW r \in [status : Statuses, findings : BOOLEAN],
         evalRun.status # "completed", evalRun'.status # "completed",
         evalRun' \in [at : Stages, status : Statuses],
         variants' = [variants EXCEPT ![variant] = r], UNCHANGED <<Config, variant>>,
         trial' \in Trials, trial'.status = "completed" => trial' = trial
  PROVE  EvalInv'
<1>1. variant \in VariantNumbers /\ r.status # "pending"
  BY DEF EvalInv, Statuses
<1>2. variants' \in [VariantNumbers -> [status : Statuses \cup {"pending"}, findings : BOOLEAN]]
  BY DEF EvalInv
<1>3. ASSUME NEW v \in VariantNumbers, v < variant PROVE WentWell(v)'
  <2>1. variants'[v] = variants[v]
    BY <1>1, <1>3 DEF EvalInv, VariantNumbers
  <2> QED BY <1>3, <2>1 DEF EvalInv, WentWell, Config
<1>4. variants'[variant].status # "pending"
  BY <1>1 DEF EvalInv
<1> QED BY <1>1, <1>2, <1>3, <1>4 DEF EvalInv

\* The tracker stays one.
LEMMA ObservedIsTracker ==
  ASSUME NEW t \in Trackers, NEW e \in Events(StopReasons)
  PROVE  Observe(t, e) \in Trackers
BY DEF Trackers, Events, Observe, NewTracker, Missing

\* Preparing never completes a run.
LEMMA PreparationKeepsEvalInv ==
  ASSUME EvalInv,
         \/ CopyWorkspace \/ ApplyReplacements \/ ApplyRemovals \/ EstablishBaseline
         \/ Prepared \/ Throw
  PROVE  EvalInv'
<1>1. ASSUME NEW step, NEW following \in Stages \ {"trying", "deciding"},
             PreparationStep(step, following)
      PROVE  EvalInv'
  <2>1. /\ evalRun' = [at |-> following, status |-> "preparing"]
        /\ UNCHANGED <<Config, variant, variants, trial>>
    BY <1>1 DEF PreparationStep
  <2> QED BY <2>1, RunMoves DEF Statuses
<1>2. CASE Prepared
  <2>1. /\ evalRun' = [at |-> "choosing", status |-> "running"]
        /\ UNCHANGED <<Config, variant, variants, trial>>
    BY <1>2 DEF Prepared
  <2> QED BY <2>1, RunMoves DEF Statuses, Stages
<1>3. CASE Throw
  <2>1. PICK s \in {"cancelled", "harness_error"} :
          evalRun' = [at |-> "ending", status |-> s]
    BY <1>3 DEF Throw
  <2>2. UNCHANGED <<Config, variant, variants, trial>>
    BY <1>3 DEF Throw
  <2> QED BY <2>1, <2>2, RunMoves DEF Statuses, Stages
<1> QED BY <1>1, <1>2, <1>3
        DEF CopyWorkspace, ApplyReplacements, ApplyRemovals, EstablishBaseline, Stages,
            Preparations

\* A run ends completed after its last variant, and none before it was passed
\* over that did not do well.
LEMMA ChoiceKeepsEvalInv ==
  ASSUME EvalInv, \/ ChooseOnTimeout \/ DecideNext \/ \E ok \in BOOLEAN : End(ok)
  PROVE  EvalInv'
<1>1. CASE ChooseOnTimeout /\ cancelAsked
  <2>1. /\ evalRun' = [at |-> "ending", status |-> "cancelled"]
        /\ UNCHANGED <<Config, variant, variants, trial>>
    BY <1>1 DEF ChooseOnTimeout
  <2> QED BY <2>1, RunMoves DEF Statuses, Stages
<1>2. CASE ChooseOnTimeout /\ ~cancelAsked
  <2> DEFINE r == [variants[variant] EXCEPT !.status = "preparing"]
             t == [NoTrial EXCEPT !.at = "setup"]
  <2>1. variants[variant] \in [status : Statuses \cup {"pending"}, findings : BOOLEAN]
    BY DEF EvalInv
  <2>2. r \in [status : Statuses, findings : BOOLEAN]
    BY <2>1 DEF Statuses
  <2>3. t \in Trials /\ t.status # "completed"
    BY DEF Trials, NoTrial, Trackers, NewTracker, Statuses, Missing
  <2>4. /\ evalRun.at = "choosing" /\ evalRun' = [evalRun EXCEPT !.at = "trying"]
        /\ variants' = [variants EXCEPT ![variant].status = "preparing"]
        /\ trial' = t /\ UNCHANGED <<Config, variant>>
    BY <1>2 DEF ChooseOnTimeout
  <2>5. variants' = [variants EXCEPT ![variant] = r]
    BY <2>4
  <2>6. /\ evalRun' \in [at : Stages, status : Statuses] /\ evalRun.status # "completed"
        /\ evalRun'.status # "completed"
    BY <2>4 DEF EvalInv, Stages
  <2> HIDE DEF r, t
  <2> QED BY <2>2, <2>3, <2>4, <2>5, <2>6, VariantMoves
<1>3. CASE DecideNext
  <2> DEFINE status == variants[variant].status
             on == \/ status = "timed_out" /\ onTimeout = "continue"
                   \/ ~Stops(variant)
  <2>1. /\ evalRun.at = "deciding" /\ evalRun.status # "completed"
        /\ UNCHANGED <<Config, variants, trial>>
    BY <1>3 DEF DecideNext, EvalInv
  <2>2. on => WentWell(variant)
    BY DEF Stops, WentWell
  <2>3. status = "completed" /\ ~variants[variant].findings => on
    BY DEF Stops
  <2>4. variant \in VariantNumbers /\ status \in Statuses
    BY <2>1 DEF EvalInv
  <2>5. \/ evalRun' = [evalRun EXCEPT !.at = "choosing"] /\ UNCHANGED variant
        \/ /\ on /\ variant < VariantCount
           /\ evalRun' = [evalRun EXCEPT !.at = "choosing"] /\ variant' = variant + 1
        \/ /\ ~(on /\ variant < VariantCount) /\ UNCHANGED variant
           /\ evalRun' = [at |-> "ending",
                          status |-> IF on \/ (status = "completed" /\ ~variants[variant].findings)
                                     THEN "completed"
                                     ELSE IF status = "completed" THEN "policy_stopped"
                                     ELSE status]
    BY <1>3 DEF DecideNext
  <2> HIDE DEF on, status
  <2>6. CASE evalRun' = [evalRun EXCEPT !.at = "choosing"] /\ UNCHANGED variant
    BY <2>1, <2>6 DEF EvalInv, Config, WentWell, Stages
  <2>7. CASE /\ on /\ variant < VariantCount
             /\ evalRun' = [evalRun EXCEPT !.at = "choosing"] /\ variant' = variant + 1
    BY <2>1, <2>2, <2>4, <2>7, EvalAssumption
       DEF EvalInv, Config, WentWell, Stages, VariantNumbers
  <2>8. CASE /\ ~(on /\ variant < VariantCount) /\ UNCHANGED variant
             /\ evalRun' = [at |-> "ending",
                            status |-> IF \/ on
                                          \/ status = "completed" /\ ~variants[variant].findings
                                       THEN "completed"
                                       ELSE IF status = "completed" THEN "policy_stopped"
                                       ELSE status]
    <3>1. on => \A v \in VariantNumbers : WentWell(v)
      <4> SUFFICES ASSUME on, NEW v \in VariantNumbers PROVE WentWell(v)
        OBVIOUS
      <4>1. v < variant \/ v = variant
        BY <2>4, <2>8, EvalAssumption DEF VariantNumbers
      <4> QED BY <2>2, <4>1 DEF EvalInv
    <3>2. PICK s \in Statuses :
            /\ evalRun' = [at |-> "ending", status |-> s]
            /\ s = "completed" => on
      BY <2>3, <2>4, <2>8 DEF Statuses
    <3>3. evalRun' \in [at : Stages, status : Statuses]
      BY <3>2 DEF Stages
    <3>4. \A v : WentWell(v)' <=> WentWell(v)
      BY <2>1 DEF WentWell, Config
    <3> QED BY <2>1, <2>8, <3>1, <3>2, <3>3, <3>4 DEF EvalInv
  <2> QED BY <2>5, <2>6, <2>7, <2>8
<1>4. ASSUME NEW ok \in BOOLEAN, End(ok) PROVE EvalInv'
  BY <1>4 DEF End, EvalInv, Config, WentWell, Stages, Statuses
<1> QED BY <1>1, <1>2, <1>3, <1>4

\* An attempt under way is not called completed before its prompt has ended of
\* itself, and its evidence was captured.
LEMMA AttemptKeepsEvalInv ==
  ASSUME EvalInv,
         \/ CreateSession \/ Accepted \/ OpenDialog \/ CloseDialog \/ CustomUI \/ Cancel
         \/ Expire \/ PromptEnds \/ Fails
         \/ \E ok \in BOOLEAN : CaptureDiff(ok) \/ CaptureSession(ok)
         \/ \E e \in Events(EvalReasons) : AgentEvent(e)
  PROVE  EvalInv'
<1>1. trial \in Trials /\ UNCHANGED <<Config, evalRun, variant, variants>>
  BY DEF EvalInv, CreateSession, Accepted, OpenDialog, CloseDialog, CustomUI, Cancel, Expire,
         PromptEnds, Fails, CaptureDiff, CaptureSession, Capture, AgentEvent, Idle
<1>2. trial.at \in {"setup", "prompting"} => trial.status # "completed"
  BY DEF EvalInv
<1>3. ASSUME UNCHANGED trial PROVE EvalInv'
  BY <1>1, <1>3 DEF EvalInv, Config, WentWell
<1>4. CASE Accepted \/ OpenDialog \/ CloseDialog
  BY <1>3, <1>4 DEF Accepted, OpenDialog, CloseDialog
<1>5. CASE CreateSession
  <2>1. /\ trial' = [trial EXCEPT !.session = TRUE] /\ trial.at = "setup"
    BY <1>5 DEF CreateSession, Trying
  <2>2. trial' \in Trials /\ trial'.status = trial.status
    BY <1>1, <2>1 DEF Trials
  <2> QED BY <1>1, <1>2, <2>1, <2>2, TrialMoves
<1>6. CASE CustomUI
  <2>1. trial' = [trial EXCEPT !.blocked = TRUE] /\ trial.at \in {"setup", "prompting"}
    BY <1>6 DEF CustomUI, Trying
  <2>2. trial' \in Trials /\ trial'.status = trial.status
    BY <1>1, <2>1 DEF Trials
  <2> QED BY <1>1, <1>2, <2>1, <2>2, TrialMoves
<1>7. CASE Cancel
  <2>1. CASE trial' = [trial EXCEPT !.cancelled = TRUE] /\ trial.at = "prompting"
    <3>1. trial' \in Trials /\ trial'.status = trial.status
      BY <1>1, <2>1 DEF Trials
    <3> QED BY <1>1, <1>2, <2>1, <3>1, TrialMoves
  <2> QED BY <1>3, <1>7, <2>1 DEF Cancel, Trying
<1>8. CASE Expire
  <2>1. trial' = [trial EXCEPT !.timedOut = TRUE] /\ trial.at = "prompting"
    BY <1>8 DEF Expire, Trying
  <2>2. trial' \in Trials /\ trial'.status = trial.status
    BY <1>1, <2>1 DEF Trials
  <2> QED BY <1>1, <1>2, <2>1, <2>2, TrialMoves
<1>9. ASSUME NEW e \in Events(EvalReasons), AgentEvent(e) PROVE EvalInv'
  <2>1. trial' = [trial EXCEPT !.tracker = Observe(trial.tracker, e)] /\ trial.at = "prompting"
    BY <1>9 DEF AgentEvent, Trying
  <2>2. e \in Events(StopReasons)
    BY EvalAssumption DEF Events
  <2>3. Observe(trial.tracker, e) \in Trackers
    BY <1>1, <2>2, ObservedIsTracker DEF Trials
  <2>4. trial' \in Trials /\ trial'.status = trial.status
    BY <1>1, <2>1, <2>3 DEF Trials
  <2> QED BY <1>1, <1>2, <2>1, <2>4, TrialMoves
<1>10. CASE Fails
  <2> DEFINE s == IF trial.blocked THEN "interaction_blocked"
                  ELSE IF trial.cancelled \/ cancelAsked THEN "cancelled"
                  ELSE IF trial.timedOut THEN "timed_out" ELSE "harness_error"
  <2>1. trial' = [trial EXCEPT !.at = "diffing", !.status = s]
    BY <1>10 DEF Fails
  <2>2. s \in {"interaction_blocked", "cancelled", "timed_out", "harness_error"}
    OBVIOUS
  <2> HIDE DEF s
  <2>3. trial' \in Trials /\ trial'.status # "completed"
    BY <1>1, <2>1, <2>2 DEF Trials, Statuses
  <2> QED BY <1>1, <2>3, TrialMoves
<1>11. ASSUME NEW t \in Trials, trial' = t,
              t.status = "completed" =>
                 /\ t.at \in {"diffing", "recording", "closing"}
                 /\ ~t.timedOut /\ ~t.blocked /\ ~t.cancelled
       PROVE  EvalInv'
  BY <1>1, <1>11 DEF EvalInv, Config, WentWell
<1>12. CASE PromptEnds
  <2>1. trial' = [trial EXCEPT !.at = "diffing", !.status = Verdict(trial)]
    BY <1>12 DEF PromptEnds
  <2>2. /\ Verdict(trial) \in Statuses
        /\ Verdict(trial) = "completed" => ~trial.timedOut /\ ~trial.blocked /\ ~trial.cancelled
    BY DEF Verdict, Outcome, Statuses
  <2>3. /\ trial' \in Trials /\ trial'.status = Verdict(trial) /\ trial'.at = "diffing"
        /\ trial'.timedOut = trial.timedOut /\ trial'.blocked = trial.blocked
        /\ trial'.cancelled = trial.cancelled
    BY <1>1, <2>1, <2>2 DEF Trials
  <2> QED BY <2>2, <2>3, <1>11
<1>13. ASSUME NEW ok \in BOOLEAN, CaptureDiff(ok) \/ CaptureSession(ok) PROVE EvalInv'
  <2>1. PICK where \in {"recording", "closing"}, s \in {trial.status, "harness_error"} :
          trial' = [trial EXCEPT !.at = where, !.status = s]
    BY <1>13 DEF CaptureDiff, CaptureSession, Capture
  <2>2. /\ trial' \in Trials /\ trial'.status = s /\ trial'.at = where
        /\ trial'.timedOut = trial.timedOut /\ trial'.blocked = trial.blocked
        /\ trial'.cancelled = trial.cancelled
    BY <1>1, <2>1 DEF Trials, Statuses
  <2> QED BY <2>2, <1>11 DEF EvalInv
<1> QED BY <1>4, <1>5, <1>6, <1>7, <1>8, <1>9, <1>10, <1>12, <1>13

\* The variant under way may change, no other.
LEMMA VariantKeepsEvalInv ==
  ASSUME EvalInv, Prompt \/ DeniedTool \/ Settle PROVE EvalInv'
<1>1. /\ evalRun.at = "trying" /\ evalRun.status # "completed"
      /\ variants[variant] \in [status : Statuses, findings : BOOLEAN]
      /\ trial \in Trials
  BY DEF EvalInv, Prompt, DeniedTool, Settle, Trying
<1>2. CASE Prompt
  <2> DEFINE r == [variants[variant] EXCEPT !.status = "running"]
  <2>1. /\ variants' = [variants EXCEPT ![variant] = r]
        /\ trial' = [trial EXCEPT !.at = "prompting"] /\ trial.at = "setup"
        /\ UNCHANGED <<Config, evalRun, variant>>
    BY <1>2 DEF Prompt, Idle, Trying
  <2>2. r \in [status : Statuses, findings : BOOLEAN]
    BY <1>1 DEF Statuses
  <2>3. trial' \in Trials /\ trial'.status # "completed"
    BY <1>1, <2>1 DEF EvalInv, Trials
  <2> HIDE DEF r
  <2> QED BY <1>1, <2>1, <2>2, <2>3, VariantMoves DEF EvalInv
<1>3. CASE DeniedTool
  <2> DEFINE r == [variants[variant] EXCEPT !.findings = TRUE]
  <2>1. /\ variants' = [variants EXCEPT ![variant] = r]
        /\ UNCHANGED <<Config, evalRun, variant, trial>>
    BY <1>3 DEF DeniedTool, Idle
  <2>2. r \in [status : Statuses, findings : BOOLEAN]
    BY <1>1
  <2> HIDE DEF r
  <2> QED BY <1>1, <2>1, <2>2, VariantMoves DEF EvalInv
<1>4. CASE Settle
  <2> DEFINE r == [variants[variant] EXCEPT !.status = trial.status]
  <2>1. /\ variants' = [variants EXCEPT ![variant] = r]
        /\ evalRun' = [evalRun EXCEPT !.at = "deciding"] /\ trial' = NoTrial
        /\ UNCHANGED <<Config, variant>>
    BY <1>4 DEF Settle
  <2>2. r \in [status : Statuses, findings : BOOLEAN]
    BY <1>1 DEF Trials
  <2>3. trial' \in Trials /\ trial'.status # "completed"
    BY <2>1 DEF Trials, NoTrial, Trackers, NewTracker, Statuses, Missing
  <2>4. evalRun' \in [at : Stages, status : Statuses] /\ evalRun'.status # "completed"
    BY <1>1, <2>1 DEF EvalInv, Stages
  <2> HIDE DEF r
  <2> QED BY <1>1, <2>1, <2>2, <2>3, <2>4, VariantMoves
<1> QED BY <1>2, <1>3, <1>4

\* Every step keeps the invariant.
LEMMA EvalStepInv == EvalInv /\ [EvalNext]_evalVars => EvalInv'
<1> SUFFICES ASSUME EvalInv, [EvalNext]_evalVars PROVE EvalInv'
  OBVIOUS
<1>1. CASE UNCHANGED evalVars
  BY <1>1 DEF evalVars, EvalInv, WentWell
<1> QED BY <1>1, PreparationKeepsEvalInv, ChoiceKeepsEvalInv, AttemptKeepsEvalInv,
           VariantKeepsEvalInv
        DEF EvalNext

\* However many variants and retries there are, a run that completed vouches
\* for each of them, and an attempt that the deadline, a block or a
\* cancellation cut short is not called completed (runner.ts: runEvaluation,
\* runVariant).
THEOREM EvalSoundness == EvalSpec => []VerdictIsDeserved
<1>1. EvalInv => VerdictIsDeserved
  BY DEF EvalInv, WentWell, VerdictIsDeserved
<1> QED BY <1>1, EvalInitInv, EvalStepInv, PTL DEF EvalSpec

\* How often a variant is tried, and what its deadline is.
EvalBounds ==
  /\ deadline \in {"off", "running", "paused", "expired"}
  /\ attempt \in 0..(MaxRetries + 1)
  /\ evalRun.at \in Preparations \cup {"prepared", "choosing"} => attempt <= MaxRetries

\* Every step of the run keeps the bounds.
LEMMA EvalKeepsBounds == EvalInv /\ EvalBounds /\ [EvalNext]_evalVars => EvalBounds'
<1> SUFFICES ASSUME EvalInv, EvalBounds, [EvalNext]_evalVars PROVE EvalBounds'
  OBVIOUS
<1> USE EvalAssumption DEF EvalBounds
<1>0. evalRun \in [at : Stages, status : Statuses]
  BY DEF EvalInv
<1>1. ASSUME UNCHANGED <<evalRun, attempt>>, deadline' \in {deadline, "off", "running", "paused", "expired"}
      PROVE  EvalBounds'
  BY <1>1
<1>2. ASSUME NEW step, NEW next_, PreparationStep(step, next_), step \in Preparations
      PROVE  EvalBounds'
  <2>1. evalRun.at \in Preparations /\ UNCHANGED <<attempt, deadline>>
    BY <1>2 DEF PreparationStep
  <2> QED BY <2>1 DEF Preparations
<1>3. CASE CopyWorkspace \/ ApplyReplacements \/ ApplyRemovals \/ EstablishBaseline
  BY <1>2, <1>3 DEF CopyWorkspace, ApplyReplacements, ApplyRemovals, EstablishBaseline, Preparations
<1>4. CASE Prepared \/ Throw
  <2>1. UNCHANGED <<attempt, deadline>> /\ (evalRun'.at = "choosing" => evalRun.at = "prepared")
        /\ evalRun'.at \in {"choosing", "ending"}
    BY <1>4 DEF Prepared, Throw
  <2> QED BY <2>1 DEF Preparations
<1>5. CASE ChooseOnTimeout
  <2>1. evalRun.at = "choosing" /\ deadline' = "off" /\ evalRun'.at \in {"ending", "trying"}
        /\ attempt' \in {attempt, attempt + 1}
    BY <1>0, <1>5 DEF ChooseOnTimeout
  <2> QED BY <2>1 DEF Preparations
<1>6. CASE DecideNext
  <2>1. /\ UNCHANGED deadline
        /\ \/ evalRun'.at = "choosing" /\ UNCHANGED attempt /\ attempt <= MaxRetries
           \/ evalRun'.at = "choosing" /\ attempt' = 0
           \/ evalRun'.at = "ending" /\ UNCHANGED attempt
    BY <1>0, <1>6 DEF DecideNext
  <2> QED BY <2>1 DEF Preparations
<1>7. ASSUME NEW ok \in BOOLEAN, End(ok) PROVE EvalBounds'
  BY <1>7 DEF End, Preparations
<1>8. ASSUME NEW ok \in BOOLEAN, CaptureDiff(ok) \/ CaptureSession(ok) PROVE EvalBounds'
  BY <1>1, <1>8 DEF CaptureDiff, CaptureSession, Capture, Idle
<1>9. CASE CreateSession \/ Prompt \/ Accepted \/ DeniedTool \/ CustomUI \/ Cancel \/ Expire
  BY <1>1, <1>9 DEF CreateSession, Prompt, Accepted, DeniedTool, CustomUI, Cancel, Expire, Idle,
                    StartDeadline
<1>10. CASE OpenDialog \/ CloseDialog \/ PromptEnds \/ Fails
  BY <1>1, <1>10 DEF OpenDialog, CloseDialog, PromptEnds, Fails, Idle, StopDeadline, Pause, Resumed
<1>11. CASE Settle
  <2>1. evalRun'.at = "deciding" /\ deadline' = "off" /\ UNCHANGED attempt
    BY <1>0, <1>11 DEF Settle
  <2> QED BY <2>1 DEF Preparations
<1>12. ASSUME NEW e \in Events(EvalReasons), AgentEvent(e) PROVE EvalBounds'
  BY <1>1, <1>12 DEF AgentEvent, Idle
<1>13. CASE UNCHANGED evalVars
  BY <1>1, <1>13 DEF evalVars
<1> QED BY <1>3, <1>4, <1>5, <1>6, <1>7, <1>8, <1>9, <1>10, <1>11, <1>12, <1>13 DEF EvalNext

\* They hold at first, and give the types.
LEMMA EvalBoundsGiveTypes == (EvalInit => EvalBounds) /\ (EvalInv /\ EvalBounds => EvalTypeOK)
<1>1. EvalInit => EvalBounds
  BY EvalAssumption DEF EvalInit, EvalBounds
<1>2. EvalInv /\ EvalBounds => EvalTypeOK
  BY DEF EvalInv, EvalBounds, EvalTypeOK, Stages, Trials
<1> QED BY <1>1, <1>2

(***************************************************************************)
(* SubagentPool.  The tracker's evidence is of the present attempt, a run  *)
(* under way knows of the abort, and while a call runs each of its tasks   *)
(* is still to be taken, in a worker's hands, or closed and linked.        *)
(***************************************************************************)
AgentRuns ==
  [at : {"waiting", "running", "closed"}, aborted : BOOLEAN, tracker : Trackers,
   outcome : Outcomes \cup {Missing}, attempt : Nat, settledIn : Nat, stoppedIn : Nat]

EvidenceIsOfAttempt(r) ==
  /\ r.tracker.settled => r.settledIn = r.attempt
  /\ r.tracker.stopReason = "stop" => r.stoppedIn = r.attempt
  /\ r.outcome = Missing <=> r.at # "closed"

IsAccountedFor(t) ==
  \/ t >= next \/ \E w \in Workers : working[w] = t
  \/ runs[t].at = "closed" /\ t \in linked

PoolInv ==
  /\ call \in {"none", "running", "returned", "failed"}
  /\ tasks \in 0..MaxParallelTasks /\ next \in Nat \ {0}
  /\ working \in [Workers -> 0..MaxParallelTasks]
  /\ runs \in [TaskNumbers -> AgentRuns]
  /\ \A t \in TaskNumbers : EvidenceIsOfAttempt(runs[t])
  /\ signalled \in BOOLEAN
  /\ signalled => \A t \in TaskNumbers : runs[t].at = "running" => runs[t].aborted
  /\ call = "running" => \A t \in 1..tasks : IsAccountedFor(t)

\* One run becomes r; a closed one stays closed.
LEMMA RunKeepsPoolInv ==
  ASSUME PoolInv, NEW t \in TaskNumbers, NEW r \in AgentRuns, EvidenceIsOfAttempt(r),
         runs' = [runs EXCEPT ![t] = r], runs[t].at # "closed",
         signalled /\ r.at = "running" => r.aborted,
         UNCHANGED <<call, tasks, next, working, signalled, linked>>
  PROVE  PoolInv'
<1>1. \A u \in TaskNumbers : runs'[u] = IF u = t THEN r ELSE runs[u]
  BY DEF PoolInv
<1>2. runs' \in [TaskNumbers -> AgentRuns]
  BY DEF PoolInv
<1>3. \A u \in TaskNumbers : EvidenceIsOfAttempt(runs'[u])
  BY <1>1 DEF PoolInv
<1>4. signalled' => \A u \in TaskNumbers : runs'[u].at = "running" => runs'[u].aborted
  BY <1>1 DEF PoolInv
<1>5. ASSUME call' = "running", NEW u \in 1..tasks PROVE IsAccountedFor(u)'
  <2>1. u \in TaskNumbers
    BY PoolAssumption DEF PoolInv, TaskNumbers
  <2> QED BY <1>1, <1>5, <2>1 DEF PoolInv, IsAccountedFor
<1> QED BY <1>2, <1>3, <1>4, <1>5 DEF PoolInv, EvidenceIsOfAttempt

\* A run that has not begun.
LEMMA NoRunIsRun == NoRun \in AgentRuns /\ EvidenceIsOfAttempt(NoRun)
BY DEF NoRun, AgentRuns, EvidenceIsOfAttempt, NewTracker, Trackers, Missing

\* A line of output moves the evidence with the attempt.
LEMMA LineKeepsPoolInv ==
  ASSUME PoolInv, NEW w \in Workers, NEW e \in Events(Reasons), Line(w, e)
  PROVE  PoolInv'
<1> DEFINE t == working[w]
           old == runs[t]
           present == old.attempt + IF e.type = "agent_start" THEN 1 ELSE 0
           tracker == Observe(old.tracker, e)
           settledIn == IF e.type = "agent_settled" THEN present ELSE old.settledIn
           stoppedIn == IF "reason" \notin DOMAIN e THEN old.stoppedIn
                        ELSE IF e.reason = "stop" THEN present ELSE 0
           r == [old EXCEPT !.tracker = tracker, !.attempt = present,
                            !.settledIn = settledIn, !.stoppedIn = stoppedIn]
<1>1. t \in TaskNumbers /\ old.at = "running"
  BY PoolAssumption DEF Line, PoolInv, TaskNumbers
<1>2. old \in AgentRuns /\ EvidenceIsOfAttempt(old) /\ (signalled => old.aborted)
  BY <1>1 DEF PoolInv
<1>3. runs' = [runs EXCEPT ![t] = r] /\ UNCHANGED <<call, tasks, next, working, signalled, linked>>
  BY <1>1 DEF Line, PoolInv
<1>4. e \in Events(StopReasons)
  BY PoolAssumption DEF Events
<1>5. tracker \in Trackers
  BY <1>2, <1>4, ObservedIsTracker DEF AgentRuns
<1>6. present \in Nat /\ settledIn \in Nat /\ stoppedIn \in Nat
  BY <1>2 DEF AgentRuns
<1>7. tracker.settled => settledIn = present
  <2>1. CASE e.type = "agent_start"
    BY <2>1 DEF Observe, NewTracker
  <2>2. CASE e.type = "agent_settled"
    BY <2>2
  <2>3. CASE e.type \notin {"agent_start", "agent_settled"}
    <3>1. tracker.settled = old.tracker.settled
      BY <1>2, <2>3 DEF Observe, AgentRuns, Trackers
    <3> QED BY <1>2, <2>3, <3>1 DEF EvidenceIsOfAttempt, AgentRuns
  <2> QED BY <2>1, <2>2, <2>3
<1>8. tracker.stopReason = "stop" => stoppedIn = present
  <2>1. CASE e.type = "agent_start"
    BY <2>1 DEF Observe, NewTracker, Missing
  <2>2. CASE e.type = "agent_settled"
    <3>1. "reason" \notin DOMAIN e
      BY <1>4, <2>2 DEF Events
    <3>2. tracker.stopReason = old.tracker.stopReason
      BY <1>2, <2>2 DEF Observe, AgentRuns, Trackers
    <3> QED BY <1>2, <2>2, <3>1, <3>2 DEF EvidenceIsOfAttempt, AgentRuns
  <2>3. CASE e.type \in {"message_end", "agent_end"}
    <3>1. "reason" \in DOMAIN e
      BY <1>4, <2>3 DEF Events
    <3>2. tracker.stopReason = e.reason
      BY <1>2, <2>3 DEF Observe, AgentRuns, Trackers
    <3> QED BY <3>1, <3>2
  <2> QED BY <1>4, <2>1, <2>2, <2>3 DEF Events
<1> HIDE DEF tracker, present, settledIn, stoppedIn
<1>9. /\ r \in AgentRuns /\ r.tracker = tracker /\ r.attempt = present
      /\ r.settledIn = settledIn /\ r.stoppedIn = stoppedIn
      /\ r.at = old.at /\ r.outcome = old.outcome /\ r.aborted = old.aborted
  BY <1>2, <1>5, <1>6 DEF AgentRuns
<1> HIDE DEF r
<1>10. EvidenceIsOfAttempt(r)
  BY <1>2, <1>7, <1>8, <1>9 DEF EvidenceIsOfAttempt
<1> QED BY <1>1, <1>2, <1>3, <1>9, <1>10, RunKeepsPoolInv

\* The verdict "completed" has its reasons in the tracker.
LEMMA CompletedHasReasons ==
  ASSUME NEW tracker \in Trackers, NEW stopped \in BOOLEAN, NEW exitCode \in {0, 1}
  PROVE  /\ Outcome(tracker, stopped, exitCode) \in Outcomes
         /\ Outcome(tracker, stopped, exitCode) = "completed" =>
              ~stopped /\ tracker.settled /\ tracker.stopReason = "stop"
BY DEF Outcome, Outcomes

\* A run that closes as completed has the evidence of its last attempt.
LEMMA CloseKeepsPoolInv ==
  ASSUME PoolInv, NEW w \in Workers, NEW code \in {0, 1}, Close(w, code)
  PROVE  /\ PoolInv'
         /\ \A t \in TaskNumbers :
              runs[t].outcome = Missing /\ runs'[t].outcome = "completed" =>
                /\ runs[t].settledIn = runs[t].attempt
                /\ runs[t].stoppedIn = runs[t].attempt /\ ~signalled
         /\ UNCHANGED call
<1> DEFINE t == working[w]
           old == runs[t]
           exitCode == IF old.aborted THEN 1 ELSE code
           verdict == Outcome(old.tracker, old.aborted, exitCode)
           r == [NoRun EXCEPT !.at = "closed", !.outcome = verdict]
<1>1. t \in TaskNumbers /\ old.at = "running"
  BY PoolAssumption DEF Close, PoolInv, TaskNumbers
<1>2. old \in AgentRuns /\ EvidenceIsOfAttempt(old) /\ (signalled => old.aborted)
  BY <1>1 DEF PoolInv
<1>3. runs' = [runs EXCEPT ![t] = r] /\ UNCHANGED <<call, tasks, next, working, signalled, linked>>
  BY DEF Close
<1>4. /\ verdict \in Outcomes
      /\ verdict = "completed" =>
           ~old.aborted /\ old.tracker.settled /\ old.tracker.stopReason = "stop"
  BY <1>2, CompletedHasReasons DEF AgentRuns
<1> HIDE DEF verdict
<1>5. /\ r \in AgentRuns /\ r.at = "closed" /\ r.outcome = verdict /\ r.tracker = NoRun.tracker
      /\ r.settledIn = NoRun.settledIn /\ r.stoppedIn = NoRun.stoppedIn
      /\ r.attempt = NoRun.attempt
  BY <1>4, NoRunIsRun DEF AgentRuns
<1>6. EvidenceIsOfAttempt(r)
  BY <1>4, <1>5, NoRunIsRun DEF EvidenceIsOfAttempt, Outcomes, Missing
<1> HIDE DEF r
<1>7. PoolInv'
  BY <1>1, <1>3, <1>5, <1>6, RunKeepsPoolInv
<1>8. \A u \in TaskNumbers : runs'[u] = IF u = t THEN r ELSE runs[u]
  BY <1>3 DEF PoolInv
<1> QED BY <1>2, <1>3, <1>4, <1>5, <1>7, <1>8 DEF EvidenceIsOfAttempt, Missing

\* A worker starts the child of its task, told of an abort that came before.
LEMMA SpawnKeepsPoolInv ==
  ASSUME PoolInv, NEW w \in Workers, SpawnAgent(w)
  PROVE  /\ PoolInv' /\ UNCHANGED call
         /\ \A t \in TaskNumbers : runs'[t].outcome = runs[t].outcome
<1> DEFINE t == working[w]
           r == [runs[t] EXCEPT !.at = "running", !.aborted = signalled]
<1>1. t \in TaskNumbers /\ runs[t].at = "waiting" /\ runs[t] \in AgentRuns
      /\ EvidenceIsOfAttempt(runs[t])
  BY PoolAssumption DEF SpawnAgent, PoolInv, TaskNumbers
<1>2. /\ runs' = [runs EXCEPT ![t] = r]
      /\ UNCHANGED <<call, tasks, next, working, signalled, linked>>
  BY <1>1 DEF SpawnAgent, PoolInv
<1>3. signalled \in BOOLEAN
  BY DEF PoolInv
<1>4. /\ r \in AgentRuns /\ r.at = "running" /\ r.aborted = signalled
      /\ r.outcome = runs[t].outcome /\ r.tracker = runs[t].tracker
      /\ r.attempt = runs[t].attempt /\ r.settledIn = runs[t].settledIn
      /\ r.stoppedIn = runs[t].stoppedIn
  BY <1>1, <1>3 DEF AgentRuns
<1> HIDE DEF r
<1>5. EvidenceIsOfAttempt(r)
  BY <1>1, <1>4 DEF EvidenceIsOfAttempt
<1>6. PoolInv'
  BY <1>1, <1>2, <1>4, <1>5, RunKeepsPoolInv
<1>7. \A u \in TaskNumbers : runs'[u] = IF u = t THEN r ELSE runs[u]
  BY <1>2 DEF PoolInv
<1> QED BY <1>2, <1>4, <1>6, <1>7

\* A worker that finishes its task leaves it linked, takes the next one, and
\* ends the call when all are.
LEMMA FinishKeepsPoolInv ==
  ASSUME PoolInv, NEW w \in Workers, Finish(w)
  PROVE  /\ PoolInv' /\ UNCHANGED runs
         /\ call # "returned" /\ call' = "returned" =>
              \A t \in 1..tasks : runs[t].outcome # Missing /\ t \in linked'
<1> DEFINE t == working[w]
<1>1. /\ t \in TaskNumbers /\ runs[t].at = "closed" /\ linked' = linked \cup {t}
      /\ UNCHANGED <<tasks, runs, signalled>>
      /\ IF next <= tasks
         THEN working' = [working EXCEPT ![w] = next] /\ next' = next + 1
         ELSE working' = [working EXCEPT ![w] = 0] /\ UNCHANGED next
      /\ call' = IF call = "running" /\ next > tasks /\ Busy = {w} THEN "returned" ELSE call
  BY PoolAssumption DEF Finish, PoolInv, TaskNumbers
<1>2. working' \in [Workers -> 0..MaxParallelTasks] /\ next' \in Nat \ {0}
  BY <1>1, PoolAssumption DEF PoolInv
<1>3. ASSUME call = "running", NEW u \in 1..tasks PROVE IsAccountedFor(u)'
  <2>1. IsAccountedFor(u) /\ u \in Nat /\ u \in TaskNumbers
    BY <1>3, PoolAssumption DEF PoolInv, TaskNumbers
  <2>2. CASE u = t
    BY <1>1, <2>2 DEF IsAccountedFor
  <2>3. CASE u # t /\ \E v \in Workers : working[v] = u
    <3>1. PICK v \in Workers : working[v] = u
      BY <2>3
    <3>2. working'[v] = u
      BY <1>1, <2>3, <3>1 DEF PoolInv
    <3> QED BY <3>1, <3>2 DEF IsAccountedFor
  <2>4. CASE runs[u].at = "closed" /\ u \in linked
    BY <1>1, <2>4 DEF IsAccountedFor
  <2>5. CASE u >= next
    <3>1. next <= tasks /\ (u = next \/ u >= next + 1)
      BY <2>1, <2>5, PoolAssumption DEF PoolInv
    <3>2. working'[w] = next
      BY <1>1, <3>1 DEF PoolInv
    <3> QED BY <1>1, <3>1, <3>2 DEF IsAccountedFor
  <2> QED BY <2>1, <2>2, <2>3, <2>4, <2>5 DEF IsAccountedFor
<1>4. PoolInv'
  BY <1>1, <1>2, <1>3 DEF PoolInv, EvidenceIsOfAttempt
<1>5. ASSUME call # "returned", call' = "returned", NEW u \in 1..tasks
      PROVE  runs[u].outcome # Missing /\ u \in linked'
  <2>1. call = "running" /\ next > tasks /\ Busy = {w}
    BY <1>1, <1>5
  <2>2. u \in TaskNumbers /\ u \in Nat \ {0} /\ ~(u >= next)
    BY <2>1, PoolAssumption DEF PoolInv, TaskNumbers
  <2>3. ASSUME NEW v \in Workers, working[v] = u PROVE u = t
    BY <2>1, <2>2, <2>3 DEF Busy
  <2>4. runs[u].at = "closed" /\ u \in linked'
    BY <1>1, <2>1, <2>2, <2>3 DEF PoolInv, IsAccountedFor
  <2> QED BY <2>2, <2>4 DEF PoolInv, EvidenceIsOfAttempt
<1> QED BY <1>1, <1>4, <1>5

\* The other steps: a call begins, is refused or fails, and is aborted.
LEMMA CallsKeepPoolInv ==
  ASSUME PoolInv,
         \/ \E n \in TaskNumbers : ExecuteTasks(n)
         \/ RefuseTasks \/ Abort \/ \E w \in Workers : Throws(w)
  PROVE  /\ PoolInv' /\ (call' # "returned" \/ call' = call)
         /\ \A t \in TaskNumbers :
              runs'[t].outcome = runs[t].outcome \/ runs'[t].outcome = Missing
<1>1. ASSUME NEW n \in TaskNumbers, ExecuteTasks(n)
      PROVE  PoolInv' /\ call' = "running" /\ \A t \in TaskNumbers : runs'[t].outcome = Missing
  <2>1. /\ call' = "running" /\ tasks' = n /\ runs' = [t \in TaskNumbers |-> NoRun]
        /\ working' = [w \in Workers |-> IF w <= n THEN w ELSE 0]
        /\ next' = (IF n < MaxConcurrency THEN n ELSE MaxConcurrency) + 1
        /\ signalled' = FALSE /\ linked' = {}
    BY <1>1 DEF ExecuteTasks
  <2>2. n \in Nat \ {0} /\ n <= MaxParallelTasks
    BY PoolAssumption DEF TaskNumbers
  <2>3. working' \in [Workers -> 0..MaxParallelTasks] /\ next' \in Nat \ {0}
    BY <2>1, <2>2, PoolAssumption DEF Workers
  <2>4. ASSUME NEW t \in 1..n PROVE IsAccountedFor(t)'
    <3>1. CASE t \in Workers
      BY <2>1, <2>2, <3>1 DEF IsAccountedFor
    <3>2. CASE t \notin Workers
      BY <2>1, <2>2, <3>2, PoolAssumption DEF IsAccountedFor, Workers
    <3> QED BY <3>1, <3>2
  <2>5. /\ runs' \in [TaskNumbers -> AgentRuns]
        /\ \A t \in TaskNumbers : EvidenceIsOfAttempt(runs'[t]) /\ runs'[t].outcome = Missing
    BY <2>1, NoRunIsRun DEF NoRun
  <2>6. tasks' \in 0..MaxParallelTasks
    BY <2>1, <2>2, PoolAssumption
  <2> QED BY <2>1, <2>3, <2>4, <2>5, <2>6 DEF PoolInv, EvidenceIsOfAttempt
<1>2. CASE RefuseTasks
  BY <1>2 DEF RefuseTasks, PoolInv, EvidenceIsOfAttempt
<1>3. ASSUME NEW w \in Workers, Throws(w) PROVE PoolInv' /\ call' = "failed" /\ UNCHANGED runs
  <2>1. working' \in [Workers -> 0..MaxParallelTasks]
    BY <1>3, PoolAssumption DEF Throws, PoolInv
  <2> QED BY <1>3, <2>1 DEF Throws, PoolInv, EvidenceIsOfAttempt
<1>4. CASE Abort
  <2>1. /\ runs' = [t \in TaskNumbers |->
              IF runs[t].at = "running" THEN [runs[t] EXCEPT !.aborted = TRUE] ELSE runs[t]]
        /\ signalled' = TRUE /\ UNCHANGED <<call, tasks, next, working, linked>>
    BY <1>4 DEF Abort
  <2>2. ASSUME NEW t \in TaskNumbers
        PROVE  /\ runs'[t] \in AgentRuns /\ runs'[t].at = runs[t].at
               /\ runs'[t].outcome = runs[t].outcome /\ runs'[t].tracker = runs[t].tracker
               /\ runs'[t].attempt = runs[t].attempt /\ runs'[t].settledIn = runs[t].settledIn
               /\ runs'[t].stoppedIn = runs[t].stoppedIn
               /\ runs[t].at = "running" => runs'[t].aborted
    <3>1. runs[t] \in AgentRuns
      BY DEF PoolInv
    <3> QED BY <2>1, <3>1 DEF AgentRuns
  <2>3. runs' \in [TaskNumbers -> AgentRuns]
    BY <2>1, <2>2
  <2>4. \A t \in TaskNumbers : EvidenceIsOfAttempt(runs'[t])
    BY <2>2 DEF PoolInv, EvidenceIsOfAttempt
  <2>5. ASSUME call' = "running", NEW t \in 1..tasks PROVE IsAccountedFor(t)'
    <3>1. t \in TaskNumbers
      BY PoolAssumption DEF PoolInv, TaskNumbers
    <3> QED BY <2>1, <2>2, <2>5, <3>1 DEF PoolInv, IsAccountedFor
  <2> QED BY <2>1, <2>2, <2>3, <2>4, <2>5 DEF PoolInv, EvidenceIsOfAttempt
<1> QED BY <1>1, <1>2, <1>3, <1>4 DEF RefuseTasks, Abort

\* The initial state satisfies the invariant.
LEMMA PoolInitInv == PoolInit => PoolInv
<1> SUFFICES ASSUME PoolInit PROVE PoolInv
  OBVIOUS
<1>1. /\ runs \in [TaskNumbers -> AgentRuns]
      /\ \A t \in TaskNumbers : EvidenceIsOfAttempt(runs[t])
  BY NoRunIsRun DEF PoolInit
<1>2. tasks \in 0..MaxParallelTasks /\ working \in [Workers -> 0..MaxParallelTasks]
  BY PoolAssumption DEF PoolInit
<1>3. call = "none" /\ next \in Nat \ {0}
  BY DEF PoolInit
<1>4. signalled \in BOOLEAN /\ ~signalled
  BY DEF PoolInit
<1> QED BY <1>1, <1>2, <1>3, <1>4, Zenon DEF PoolInv

\* A run that is called completed was so on its own evidence, and a call that
\* returns has a verdict and a link for each task.
Earns ==
  /\ \A t \in TaskNumbers :
        runs[t].outcome = Missing /\ runs'[t].outcome = "completed" =>
            /\ runs[t].settledIn = runs[t].attempt
            /\ runs[t].stoppedIn = runs[t].attempt
            /\ ~signalled
  /\ call # "returned" /\ call' = "returned" =>
        \A t \in 1..tasks : runs[t].outcome # Missing /\ t \in linked'

\* Every step keeps the invariant and is so earned.
LEMMA PoolStepInv == PoolInv /\ [PoolNext]_poolVars => PoolInv' /\ [Earns]_poolVars
<1> SUFFICES ASSUME PoolInv, [PoolNext]_poolVars PROVE PoolInv' /\ [Earns]_poolVars
  OBVIOUS
<1>1. CASE UNCHANGED poolVars
  BY <1>1 DEF poolVars, PoolInv, EvidenceIsOfAttempt, IsAccountedFor
<1>2. ASSUME PoolInv', UNCHANGED call,
             \A t \in TaskNumbers : runs'[t].outcome = runs[t].outcome
      PROVE  PoolInv' /\ [Earns]_poolVars
  BY <1>2 DEF Missing, Earns
<1>3. ASSUME NEW w \in Workers, NEW e \in Events(Reasons), Line(w, e)
      PROVE  PoolInv' /\ [Earns]_poolVars
  <2>1. PoolInv' /\ UNCHANGED call
    BY <1>3, LineKeepsPoolInv DEF Line
  <2>2. \A t \in TaskNumbers : runs[t] \in AgentRuns
    BY DEF PoolInv
  <2>3. \A t \in TaskNumbers : runs'[t].outcome = runs[t].outcome
    BY <1>3, <2>2 DEF Line, AgentRuns, PoolInv
  <2> QED BY <1>2, <2>1, <2>3
<1>4. ASSUME NEW w \in Workers, NEW code \in {0, 1}, Close(w, code)
      PROVE  PoolInv' /\ [Earns]_poolVars
  BY <1>4, CloseKeepsPoolInv DEF Earns
<1>5. ASSUME NEW w \in Workers, SpawnAgent(w) PROVE PoolInv' /\ [Earns]_poolVars
  BY <1>2, <1>5, SpawnKeepsPoolInv
<1>6. ASSUME NEW w \in Workers, Finish(w) PROVE PoolInv' /\ [Earns]_poolVars
  BY <1>6, FinishKeepsPoolInv DEF Missing, Earns
<1>7. CASE \/ \E n \in TaskNumbers : ExecuteTasks(n)
           \/ RefuseTasks \/ Abort \/ \E w \in Workers : Throws(w)
  BY <1>7, CallsKeepPoolInv DEF Missing, Earns
<1> QED BY <1>1, <1>3, <1>4, <1>5, <1>6, <1>7 DEF PoolNext

\* However many tasks and workers there are, a subagent counts as completed
\* only on the evidence of its last attempt, and a call returns with a verdict
\* and a link for each task (agent-completion.ts; subagent/index.ts).
THEOREM PoolSoundness == PoolSpec => CompletedIsEarned
<1>1. CompletedIsEarned <=> [][Earns]_poolVars
  BY DEF CompletedIsEarned, Earns
<1> QED BY <1>1, PoolInitInv, PoolStepInv, PTL DEF PoolSpec

\* The task taken next and the tasks linked are tasks of a call.
PoolBounds == next <= MaxParallelTasks + 1 /\ linked \subseteq TaskNumbers

\* Every step of the call keeps the bounds.
LEMMA PoolKeepsBounds == PoolInv /\ PoolBounds /\ [PoolNext]_poolVars => PoolBounds'
<1> SUFFICES ASSUME PoolInv, PoolBounds, [PoolNext]_poolVars PROVE PoolBounds'
  OBVIOUS
<1> USE PoolAssumption DEF PoolBounds
<1>0. next \in Nat /\ tasks \in 0..MaxParallelTasks /\ working \in [Workers -> 0..MaxParallelTasks]
  BY DEF PoolInv
<1>1. ASSUME NEW n \in TaskNumbers, ExecuteTasks(n) PROVE PoolBounds'
  <2>1. linked' = {} /\ next' = (IF n < MaxConcurrency THEN n ELSE MaxConcurrency) + 1
    BY <1>1 DEF ExecuteTasks
  <2>2. n \in 1..MaxParallelTasks
    BY DEF TaskNumbers
  <2> QED BY <2>1, <2>2
<1>2. ASSUME NEW w \in Workers, Finish(w) PROVE PoolBounds'
  <2>1. /\ working[w] # 0 /\ linked' = linked \cup {working[w]}
        /\ (next' = next \/ (next <= tasks /\ next' = next + 1))
    BY <1>2 DEF Finish
  <2>2. working[w] \in TaskNumbers
    BY <1>0, <2>1 DEF TaskNumbers
  <2>3. next' <= MaxParallelTasks + 1
    BY <1>0, <2>1
  <2> QED BY <2>1, <2>2, <2>3
<1>3. ASSUME UNCHANGED <<next, linked>> PROVE PoolBounds'
  BY <1>3
<1>4. CASE RefuseTasks \/ Abort \/ UNCHANGED poolVars
  BY <1>3, <1>4 DEF RefuseTasks, Abort, poolVars
<1>5. ASSUME NEW w \in Workers,
             \/ Throws(w) \/ SpawnAgent(w)
             \/ \E event \in Events(Reasons) : Line(w, event)
             \/ \E code \in {0, 1} : Close(w, code)
      PROVE  PoolBounds'
  BY <1>3, <1>5 DEF Throws, SpawnAgent, Line, Close
<1> QED BY <1>1, <1>2, <1>4, <1>5 DEF PoolNext

\* They hold at first, and give the types.
LEMMA PoolBoundsGiveTypes == (PoolInit => PoolBounds) /\ (PoolInv /\ PoolBounds => PoolTypeOK)
<1>1. PoolInit => PoolBounds
  BY PoolAssumption DEF PoolInit, PoolBounds
<1>2. ASSUME PoolInv, PoolBounds PROVE PoolTypeOK
  <2>1. next \in 1..(MaxParallelTasks + 1)
    BY <1>2, PoolAssumption DEF PoolInv, PoolBounds
  <2>2. \A t \in TaskNumbers : runs[t] \in AgentRuns
    BY <1>2 DEF PoolInv
  <2> QED BY <1>2, <2>1, <2>2 DEF PoolInv, PoolBounds, PoolTypeOK, AgentRuns
<1> QED BY <1>1, <1>2

(***************************************************************************)
(* EvalEvidence.  A queue that never failed holds, after the lines on      *)
(* file, the rest of what was recorded; a file is called complete only     *)
(* once its queue is empty, and nothing is recorded to it after that.      *)
(***************************************************************************)
Queues == [made : Nat, file : Seq(Nat), queue : Seq(Nat), broken : BOOLEAN]

Lines(made, written, queue) ==
    /\ made = Len(written) + Len(queue)
    /\ \A i \in 1..Len(written) : written[i] = i
    /\ \A i \in 1..Len(queue) : queue[i] = Len(written) + i

InOrder(q) ==
    /\ q \in Queues
    /\ q.broken => q.queue = <<>>
    /\ ~q.broken => Lines(q.made, q.file, q.queue)

IsWhole(q) == q.file = [i \in 1..q.made |-> i]

\* A line is queued behind the others.
LEMMA LinesPush ==
    ASSUME NEW made \in Nat, NEW written \in Seq(Nat), NEW queue \in Seq(Nat),
           Lines(made, written, queue)
    PROVE  Lines(made + 1, written, Append(queue, made + 1))
<1> DEFINE longer == Append(queue, made + 1)
<1>1. Len(written) \in Nat /\ Len(queue) \in Nat
  OBVIOUS
<1>2. /\ Len(longer) = Len(queue) + 1 /\ longer[Len(queue) + 1] = made + 1
      /\ \A i \in 1..Len(queue) : longer[i] = queue[i]
  OBVIOUS
<1> HIDE DEF longer
<1>3. ASSUME NEW i \in 1..Len(longer) PROVE longer[i] = Len(written) + i
  <2>1. CASE i = Len(queue) + 1
    <3>1. made = Len(written) + Len(queue)
      BY DEF Lines
    <3> QED BY <1>1, <1>2, <2>1, <3>1
  <2>2. CASE i # Len(queue) + 1
    <3>1. i \in 1..Len(queue)
      BY <1>1, <1>2, <2>2
    <3>2. queue[i] = Len(written) + i
      BY <3>1 DEF Lines
    <3> QED BY <1>2, <3>1, <3>2
  <2> QED BY <2>1, <2>2
<1>4. Lines(made + 1, written, longer)
  BY <1>1, <1>2, <1>3 DEF Lines
<1> QED BY <1>4 DEF longer

\* The first queued line goes to the end of the file.
LEMMA LinesWrite ==
    ASSUME NEW made \in Nat, NEW written \in Seq(Nat), NEW queue \in Seq(Nat),
           Lines(made, written, queue), queue # <<>>
    PROVE  /\ Lines(made, Append(written, Head(queue)), Tail(queue))
           /\ Append(written, Head(queue)) \in Seq(Nat) /\ Tail(queue) \in Seq(Nat)
<1> DEFINE longer == Append(written, Head(queue))
           rest == Tail(queue)
<1>1. Len(written) \in Nat /\ Len(queue) \in Nat \ {0}
  OBVIOUS
<1>2. Head(queue) = Len(written) + 1 /\ Head(queue) \in Nat
  BY <1>1 DEF Lines
<1>3. /\ longer \in Seq(Nat) /\ Len(longer) = Len(written) + 1
      /\ longer[Len(written) + 1] = Head(queue)
      /\ \A i \in 1..Len(written) : longer[i] = written[i]
  BY <1>2
<1>4. /\ rest \in Seq(Nat) /\ Len(rest) = Len(queue) - 1
      /\ \A i \in 1..Len(rest) : rest[i] = queue[i + 1]
  OBVIOUS
<1> HIDE DEF longer, rest
<1>5. ASSUME NEW i \in 1..Len(longer) PROVE longer[i] = i
  <2>1. CASE i = Len(written) + 1
    <3>1. longer[i] = Head(queue)
      BY <1>3, <2>1
    <3> QED BY <1>2, <2>1, <3>1
  <2>2. CASE i # Len(written) + 1
    <3>1. i \in 1..Len(written)
      BY <1>1, <1>3, <2>2
    <3>2. written[i] = i
      BY <3>1 DEF Lines
    <3> QED BY <1>3, <3>1, <3>2
  <2> QED BY <2>1, <2>2
<1>6. ASSUME NEW i \in 1..Len(rest) PROVE rest[i] = Len(longer) + i
  <2>1. i + 1 \in 1..Len(queue) /\ rest[i] = queue[i + 1]
    BY <1>1, <1>4
  <2> QED BY <1>1, <1>3, <2>1 DEF Lines
<1>7. Lines(made, longer, rest)
  BY <1>1, <1>3, <1>4, <1>5, <1>6 DEF Lines
<1> QED BY <1>3, <1>4, <1>7 DEF longer, rest

\* A new queue is in order.
LEMMA NewInOrder == InOrder(NewQueue) /\ IsWhole(NewQueue)
BY DEF NewQueue, InOrder, Lines, Queues, IsWhole

\* Recording a line keeps the order.
LEMMA PushKeepsOrder ==
    ASSUME NEW q, InOrder(q) PROVE InOrder(Push(q))
<1>1. q \in Queues /\ q.made \in Nat /\ q.queue \in Seq(Nat) /\ q.file \in Seq(Nat)
  BY DEF InOrder, Queues
<1>2. CASE q.broken
  <2>1. Push(q) = [q EXCEPT !.made = @ + 1] /\ q.queue = <<>>
    BY <1>2 DEF Push, InOrder
  <2>2. Push(q) \in Queues /\ Push(q).queue = <<>> /\ Push(q).broken
    BY <1>1, <1>2, <2>1 DEF Queues
  <2> QED BY <2>2 DEF InOrder
<1>3. CASE ~q.broken
  <2>1. Push(q) = [q EXCEPT !.made = @ + 1, !.queue = Append(@, q.made + 1)]
    BY <1>3 DEF Push, Queued
  <2>2. Append(q.queue, q.made + 1) \in Seq(Nat) /\ q.made + 1 \in Nat
    BY <1>1
  <2>3. /\ Push(q) \in Queues /\ Push(q).made = q.made + 1 /\ Push(q).file = q.file
        /\ Push(q).queue = Append(q.queue, q.made + 1)
    BY <1>1, <2>1, <2>2 DEF Queues
  <2>4. ~Push(q).broken
    BY <1>1, <1>3, <2>1 DEF Queues
  <2>5. Lines(q.made, q.file, q.queue)
    BY <1>3 DEF InOrder
  <2>6. Lines(Push(q).made, Push(q).file, Push(q).queue)
    BY <1>1, <2>3, <2>5, LinesPush
  <2> QED BY <2>3, <2>4, <2>6 DEF InOrder
<1> QED BY <1>2, <1>3

\* Writing the first queued line, or failing to, keeps the order.
LEMMA WriteKeepsOrder ==
    ASSUME NEW q, InOrder(q), q.queue # <<>>, NEW ok \in BOOLEAN
    PROVE InOrder(Written(q, ok))
<1>1. /\ q \in Queues /\ q.made \in Nat /\ q.queue \in Seq(Nat) /\ q.file \in Seq(Nat)
      /\ ~q.broken
  BY DEF InOrder, Queues
<1>2. CASE ~ok
  <2>1. Written(q, ok) = [q EXCEPT !.queue = <<>>, !.broken = TRUE]
    BY <1>2 DEF Written
  <2>2. <<>> \in Seq(Nat)
    OBVIOUS
  <2>3. Written(q, ok) \in Queues /\ Written(q, ok).queue = <<>>
    BY <1>1, <2>1, <2>2 DEF Queues
  <2>4. Written(q, ok).broken
    BY <1>1, <2>1 DEF Queues
  <2> QED BY <2>3, <2>4 DEF InOrder
<1>3. CASE ok
  <2>1. Written(q, ok) = [q EXCEPT !.file = Append(@, Head(q.queue)), !.queue = Tail(@)]
    BY <1>3 DEF Written
  <2>2. Lines(q.made, q.file, q.queue)
    BY <1>1 DEF InOrder
  <2>3. /\ Lines(q.made, Append(q.file, Head(q.queue)), Tail(q.queue))
        /\ Append(q.file, Head(q.queue)) \in Seq(Nat) /\ Tail(q.queue) \in Seq(Nat)
    BY <1>1, <2>2, LinesWrite
  <2>4. /\ Written(q, ok) \in Queues /\ Written(q, ok).made = q.made
        /\ Written(q, ok).file = Append(q.file, Head(q.queue))
        /\ Written(q, ok).queue = Tail(q.queue)
    BY <1>1, <2>1, <2>3 DEF Queues
  <2>5. ~Written(q, ok).broken
    BY <1>1, <2>1 DEF Queues
  <2> QED BY <2>3, <2>4, <2>5 DEF InOrder
<1> QED BY <1>2, <1>3

\* Once the queue of a chain that never failed is empty, the file is whole.
LEMMA DrainedIsWhole ==
    ASSUME NEW q, InOrder(q), ~q.broken, q.queue = <<>> PROVE IsWhole(q)
<1>1. q.file \in Seq(Nat) /\ q.made = Len(q.file)
  BY DEF InOrder, Lines, Queues
<1>2. \A i \in 1..Len(q.file) : q.file[i] = i
  BY DEF InOrder, Lines
<1> QED BY <1>1, <1>2 DEF IsWhole

Marks == [events : {"partial", "complete"},
          toolCalls : {"not_started", "partial", "complete"}]

\* What a mark says holds of the file, and the file is no longer written.
MarkIsTrue(m) ==
    /\ m.events = "complete" => stage = "ended" /\ journal.queue = <<>> /\ IsWhole(journal)
    /\ m.toolCalls = "complete" =>
        /\ stage \notin {"trying", "finalizing"}
        /\ ~archived => callLines.queue = <<>> /\ IsWhole(callLines)

EvidenceInv ==
    /\ InOrder(journal) /\ InOrder(callLines)
    /\ marks \in Marks /\ saved \in Marks
    /\ MarkIsTrue(marks) /\ MarkIsTrue(saved)

\* The initial state satisfies the invariant.
LEMMA EvidenceInitInv == EvidenceInit => EvidenceInv
BY NewInOrder DEF EvidenceInit, EvidenceInv, Marks, MarkIsTrue

\* Every step keeps the invariant.
LEMMA EvidenceStepInv == EvidenceInv /\ [EvidenceNext]_evidenceVars => EvidenceInv'
<1> SUFFICES ASSUME EvidenceInv, [EvidenceNext]_evidenceVars PROVE EvidenceInv'
  OBVIOUS
<1> USE DEF EvidenceInv
<1>1. ASSUME NEW ok \in BOOLEAN, AppendsEvent(ok) PROVE EvidenceInv'
  BY <1>1, WriteKeepsOrder DEF AppendsEvent, MarkIsTrue
<1>2. ASSUME NEW ok \in BOOLEAN, AppendsCall(ok) PROVE EvidenceInv'
  BY <1>2, WriteKeepsOrder DEF AppendsCall, MarkIsTrue
<1>3. CASE Emit
  BY <1>3, PushKeepsOrder DEF Emit, MarkIsTrue
<1>4. CASE Archive
  BY <1>4, PushKeepsOrder, NewInOrder DEF Archive, MarkIsTrue
<1>5. CASE StartAttempt
  BY <1>5, NewInOrder DEF StartAttempt, MarkIsTrue, Marks
<1>6. CASE ToolEvent
  BY <1>6, PushKeepsOrder DEF ToolEvent, MarkIsTrue
<1>7. CASE AttemptEnds
  BY <1>7 DEF AttemptEnds, MarkIsTrue
<1>8. ASSUME NEW ok \in BOOLEAN, Finalize(ok) PROVE EvidenceInv'
  BY <1>8, DrainedIsWhole DEF Finalize, MarkIsTrue, Marks
<1>9. CASE SettleAttempt
  BY <1>9 DEF SettleAttempt, MarkIsTrue
<1>10. CASE LeaveLoop
  BY <1>10 DEF LeaveLoop, MarkIsTrue
<1>11. CASE CloseRun
  BY <1>11, PushKeepsOrder DEF CloseRun, MarkIsTrue
<1>12. CASE SettleRun
  BY <1>12, DrainedIsWhole DEF SettleRun, MarkIsTrue, Marks
<1>13. CASE UNCHANGED evidenceVars
  BY <1>13 DEF evidenceVars, MarkIsTrue
<1> QED BY <1>1, <1>2, <1>3, <1>4, <1>5, <1>6, <1>7, <1>8, <1>9, <1>10, <1>11, <1>12,
           <1>13 DEF EvidenceNext

\* Wherever the process dies and whichever append failed, a file that run.json
\* calls complete has every line recorded, in order (storage.ts: the chained
\* appends and flush; recorder.ts: finalize).
THEOREM EvidenceSoundness == EvidenceSpec => []EvidenceIsWhole
<1>1. EvidenceInv => EvidenceIsWhole
  BY DEF EvidenceInv, MarkIsTrue, IsWhole, EvidenceIsWhole
<1> QED BY EvidenceInitInv, EvidenceStepInv, <1>1, PTL DEF EvidenceSpec

\* Lines recorded, and the run of the file they go to.
EvidenceBounds ==
  /\ stage \in {"between", "trying", "finalizing", "flushing", "closing", "settling",
                "ended", "thrown"}
  /\ tries \in 0..MaxTries /\ archived \in BOOLEAN
  /\ journal.made <= IF stage \in {"settling", "ended", "thrown"} THEN MaxEvents + 1 ELSE MaxEvents
  /\ callLines.made <= journal.made

\* Pushing a line counts it, writing one does not.
LEMMA MadeIsCounted ==
  ASSUME NEW q \in Queues
  PROVE  /\ Push(q).made = q.made + 1
         /\ \A ok \in BOOLEAN : Written(q, ok).made = q.made
BY DEF Queues, Push, Queued, Written

\* Every step of the evaluation keeps the bounds.
LEMMA EvidenceKeepsBounds ==
  EvidenceInv /\ EvidenceBounds /\ [EvidenceNext]_evidenceVars => EvidenceBounds'
<1> SUFFICES ASSUME EvidenceInv, EvidenceBounds, [EvidenceNext]_evidenceVars
             PROVE  EvidenceBounds'
  OBVIOUS
<1> USE EvidenceAssumption DEF EvidenceBounds
<1>0. journal \in Queues /\ callLines \in Queues /\ journal.made \in Nat /\ callLines.made \in Nat
  BY DEF EvidenceInv, InOrder, Queues
<1>1. /\ Push(journal).made = journal.made + 1 /\ Push(callLines).made = callLines.made + 1
      /\ \A ok \in BOOLEAN : /\ Written(journal, ok).made = journal.made
                             /\ Written(callLines, ok).made = callLines.made
  BY <1>0, MadeIsCounted
<1>2. NewQueue.made = 0
  BY DEF NewQueue
<1>3. ASSUME NEW ok \in BOOLEAN, AppendsEvent(ok) \/ AppendsCall(ok) PROVE EvidenceBounds'
  <2>1. journal'.made = journal.made /\ callLines'.made = callLines.made
    BY <1>1, <1>3 DEF AppendsEvent, AppendsCall
  <2>2. stage' = stage /\ tries' = tries
    BY <1>3 DEF AppendsEvent, AppendsCall
  <2>3. archived' \in BOOLEAN
    BY <1>3 DEF AppendsEvent, AppendsCall
  <2> QED BY <2>1, <2>2, <2>3
<1>4. CASE Emit \/ ToolEvent
  <2>1. /\ stage \notin {"settling", "ended", "thrown"} /\ journal.made < MaxEvents
        /\ journal'.made = journal.made + 1
        /\ callLines'.made \in {callLines.made, callLines.made + 1}
        /\ stage' = stage /\ tries' = tries
    BY <1>1, <1>4 DEF Emit, ToolEvent
  <2>2. archived' \in BOOLEAN
    BY <1>4 DEF Emit, ToolEvent
  <2>3. callLines'.made <= journal'.made /\ journal'.made <= MaxEvents
    BY <1>0, <2>1
  <2> QED BY <2>1, <2>2, <2>3
<1>5. CASE Archive
  <2>1. /\ stage = "between" /\ journal.made < MaxEvents /\ journal'.made = journal.made + 1
        /\ callLines'.made = 0 /\ stage' = stage /\ tries' = tries /\ archived' \in BOOLEAN
    BY <1>1, <1>2, <1>5 DEF Archive
  <2> QED BY <1>0, <2>1
<1>6. CASE StartAttempt
  <2>1. /\ stage = "between" /\ stage' = "trying" /\ journal' = journal /\ callLines'.made = 0
        /\ tries < MaxTries /\ tries' = tries + 1 /\ archived' \in BOOLEAN
    BY <1>2, <1>6 DEF StartAttempt
  <2>2. tries' \in 0..MaxTries
    BY <2>1
  <2> QED BY <1>0, <2>1, <2>2
<1>7. CASE CloseRun
  <2>1. /\ stage = "closing" /\ stage' = "settling" /\ journal'.made = journal.made + 1
        /\ callLines' = callLines /\ tries' = tries
    BY <1>1, <1>7 DEF CloseRun
  <2>2. archived' \in BOOLEAN
    BY <1>7 DEF CloseRun
  <2>3. callLines.made <= journal.made + 1 /\ journal.made + 1 <= MaxEvents + 1
    BY <1>0, <2>1
  <2> QED BY <2>1, <2>2, <2>3
<1>8. ASSUME UNCHANGED <<tries, journal, callLines>>, archived' \in BOOLEAN,
             \/ stage' = stage
             \/ /\ stage \notin {"settling", "ended", "thrown"}
                /\ stage' \in {"between", "finalizing", "flushing", "closing"}
             \/ stage = "settling" /\ stage' \in {"ended", "thrown"}
      PROVE  EvidenceBounds'
  BY <1>0, <1>8
<1>9. CASE AttemptEnds \/ SettleAttempt \/ LeaveLoop \/ SettleRun \/ UNCHANGED evidenceVars
          \/ \E ok \in BOOLEAN : Finalize(ok)
  <2>1. archived' \in BOOLEAN
    BY <1>9 DEF AttemptEnds, SettleAttempt, LeaveLoop, SettleRun, evidenceVars, Finalize
  <2> QED BY <1>8, <1>9, <2>1 DEF AttemptEnds, SettleAttempt, LeaveLoop, SettleRun, evidenceVars,
                                  Finalize
<1> QED BY <1>3, <1>4, <1>5, <1>6, <1>7, <1>9 DEF EvidenceNext

\* They hold at first, and give the types.
LEMMA EvidenceBoundsGiveTypes ==
  (EvidenceInit => EvidenceBounds) /\ (EvidenceInv /\ EvidenceBounds => EvidenceTypeOK)
<1>1. EvidenceInit => EvidenceBounds
  <2> SUFFICES ASSUME EvidenceInit PROVE EvidenceBounds
    OBVIOUS
  <2>1. /\ stage = "between" /\ tries = 0 /\ archived \in BOOLEAN
        /\ journal.made = 0 /\ callLines.made = 0
    BY DEF EvidenceInit, NewQueue
  <2> QED BY <2>1, EvidenceAssumption DEF EvidenceBounds
<1>2. ASSUME EvidenceInv, EvidenceBounds PROVE EvidenceTypeOK
  <2>1. journal.made \in Nat /\ callLines.made \in Nat
    BY <1>2 DEF EvidenceInv, InOrder, Queues
  <2>2. {journal.made, callLines.made} \subseteq 0..(MaxEvents + 1)
    BY <1>2, <2>1, EvidenceAssumption DEF EvidenceBounds
  <2> QED BY <1>2, <2>2 DEF EvidenceInv, EvidenceBounds, EvidenceTypeOK, Marks
<1> QED BY <1>1, <1>2

(***************************************************************************)
(* UsageCapture.  A capture knows, of the entries of its file, those that  *)
(* were ever queued: they are seen, or wait with the tags they were first  *)
(* queued with; and of those on record all but the one that has just       *)
(* landed are seen.                                                        *)
(***************************************************************************)
AllTags == UsageTags \cup {NoTags}
OnFile == UNION {entries[f] : f \in Files}
Recorded(l) == {l[i].id : i \in DOMAIN l}

Tasks == [ids : SUBSET UsageEntries, landed : SUBSET UsageEntries]
OpenCaptures ==
  [open : {TRUE}, closed : BOOLEAN, seen : SUBSET UsageEntries,
   writes : UNION {[D -> AllTags] : D \in SUBSET UsageEntries}, tasks : Seq(Tasks)]

Landed(c) == IF c.tasks = <<>> THEN {} ELSE c.tasks[1].landed

\* A capture c of a file with the entries mine, where first gives the tags of
\* what was ever queued and done is on record.
IsSound(c, mine, first, done) ==
  /\ c \in OpenCaptures /\ mine \subseteq UsageEntries
  /\ first \in [DOMAIN first -> AllTags]
  /\ DOMAIN c.writes \subseteq mine \cap DOMAIN first
  /\ \A id \in DOMAIN c.writes : c.writes[id] = first[id]
  /\ mine \cap DOMAIN first \subseteq c.seen \cup DOMAIN c.writes
  /\ mine \cap done \subseteq c.seen \cup Landed(c)
  /\ \A i \in 1..Len(c.tasks) :
       /\ c.tasks[i].ids \subseteq c.seen \cup DOMAIN c.writes
       /\ i > 1 => c.tasks[i].landed = {}

LedgerIsSound(l, first) ==
  /\ l \in Seq([file : Files, id : UsageEntries, tags : AllTags])
  /\ \A i, j \in 1..Len(l) : l[i].id = l[j].id => i = j
  /\ \A i \in 1..Len(l) : l[i].id \in DOMAIN first /\ l[i].tags = first[l[i].id]

UsageInv ==
  /\ phase \in {"none", "starting", "live", "stopping"} /\ file \in Files
  /\ entries \in [Files -> SUBSET UsageEntries]
  /\ \A f \in Files : f > file => entries[f] = {}
  /\ usageTags \in AllTags /\ attribution \in [Files -> AllTags]
  /\ firstSeen \in [DOMAIN firstSeen -> AllTags] /\ DOMAIN firstSeen \subseteq OnFile
  /\ LedgerIsSound(ledger, firstSeen)
  /\ phase = "none" => capture = NoCapture
  /\ phase = "starting" =>
        /\ capture = [open |-> FALSE, seen |-> capture.seen]
        /\ capture.seen \subseteq UsageEntries
        /\ entries[file] \cap DOMAIN firstSeen \subseteq capture.seen
  /\ phase \in {"live", "stopping"} =>
        IsSound(capture, entries[file], firstSeen, Recorded(ledger))

\* The tags of what was ever queued, after the capture became c.
Remembered(first, c, tags) ==
  [id \in DOMAIN first \cup DOMAIN c.writes |->
     IF id \in DOMAIN first THEN first[id] ELSE tags]

\* What a reconciliation queues it queues with the tags it is remembered by.
LEMMA ReconciledIsSound ==
  ASSUME NEW c, NEW first, NEW done, NEW tags \in AllTags,
         IsSound(c, entries[file], first, done)
  PROVE  LET after == Remembered(first, Reconciled(c, tags), tags)
         IN /\ IsSound(Reconciled(c, tags), entries[file], after, done)
            /\ DOMAIN first \subseteq DOMAIN after
            /\ DOMAIN after \subseteq DOMAIN first \cup entries[file]
            /\ \A id \in DOMAIN first : after[id] = first[id]
<1> DEFINE mine == entries[file]
           after == Remembered(first, Reconciled(c, tags), tags)
           fresh == mine \ (c.seen \cup DOMAIN c.writes)
           writes == [id \in DOMAIN c.writes \cup fresh |->
                        IF id \in DOMAIN c.writes THEN c.writes[id] ELSE tags]
           task == [ids |-> DOMAIN writes, landed |-> {}]
           queue == IF writes = <<>> THEN c.tasks ELSE Append(c.tasks, task)
           r == [c EXCEPT !.writes = writes, !.tasks = queue]
<1>1. Reconciled(c, tags) = r
  BY DEF Reconciled
<1>2. /\ c \in OpenCaptures /\ c.seen \subseteq UsageEntries /\ c.tasks \in Seq(Tasks)
      /\ DOMAIN c.writes \subseteq UsageEntries
      /\ \A id \in DOMAIN c.writes : c.writes[id] \in AllTags
      /\ mine \subseteq UsageEntries /\ \A id \in DOMAIN first : first[id] \in AllTags
  BY DEF IsSound, OpenCaptures
<1>3. fresh \subseteq UsageEntries /\ fresh \subseteq mine /\ fresh \cap DOMAIN first = {}
  BY DEF IsSound
<1> HIDE DEF fresh
<1>4. /\ writes \in [DOMAIN c.writes \cup fresh -> AllTags]
      /\ DOMAIN writes = DOMAIN c.writes \cup fresh
      /\ DOMAIN c.writes \cup fresh \in SUBSET UsageEntries
      /\ \A id \in DOMAIN writes :
           writes[id] = IF id \in DOMAIN c.writes THEN c.writes[id] ELSE tags
  BY <1>2, <1>3
<1> HIDE DEF writes
<1>5. task \in Tasks
  BY <1>4 DEF Tasks
<1>6. /\ queue \in Seq(Tasks)
      /\ \A i \in 1..Len(queue) :
            \/ i \in 1..Len(c.tasks) /\ queue[i] = c.tasks[i]
            \/ i = Len(c.tasks) + 1 /\ queue[i] = task
      /\ c.tasks # <<>> => queue # <<>> /\ queue[1] = c.tasks[1]
      /\ queue # <<>> /\ c.tasks = <<>> => queue[1] = task
      /\ Len(c.tasks) \in Nat
  <2>1. Len(c.tasks) \in Nat /\ (c.tasks # <<>> => Len(c.tasks) \in Nat \ {0})
        /\ (c.tasks = <<>> => Len(c.tasks) = 0)
    BY <1>2, EmptySeq, LenProperties
  <2>2. /\ Append(c.tasks, task) \in Seq(Tasks) /\ Append(c.tasks, task) # <<>>
        /\ Len(Append(c.tasks, task)) = Len(c.tasks) + 1
        /\ \A i \in 1..Len(c.tasks) : Append(c.tasks, task)[i] = c.tasks[i]
        /\ Append(c.tasks, task)[Len(c.tasks) + 1] = task
    BY <1>2, <1>5, AppendProperties
  <2> HIDE DEF task
  <2> QED BY <1>2, <2>1, <2>2
<1> HIDE DEF queue
<1>7. /\ r.seen = c.seen /\ r.writes = writes /\ r.tasks = queue /\ r \in OpenCaptures
  <2>1. writes \in UNION {[D -> AllTags] : D \in SUBSET UsageEntries}
    BY <1>4
  <2> QED BY <1>2, <1>6, <2>1 DEF OpenCaptures
<1> HIDE DEF r
<1>8. /\ DOMAIN after = DOMAIN first \cup DOMAIN writes
      /\ \A id \in DOMAIN after : after[id] = IF id \in DOMAIN first THEN first[id] ELSE tags
      /\ after \in [DOMAIN after -> AllTags]
  <2>1. after = [id \in DOMAIN first \cup DOMAIN writes |->
                  IF id \in DOMAIN first THEN first[id] ELSE tags]
    BY <1>1, <1>7 DEF Remembered
  <2> HIDE DEF after
  <2> QED BY <1>2, <2>1
<1> HIDE DEF after
<1>9. /\ DOMAIN writes \subseteq mine \cap DOMAIN after
      /\ \A id \in DOMAIN writes : writes[id] = after[id]
      /\ mine \cap DOMAIN after \subseteq c.seen \cup DOMAIN writes
  BY <1>3, <1>4, <1>8 DEF IsSound
<1>10. Landed(r) = Landed(c)
  <2>1. CASE c.tasks # <<>>
    BY <1>6, <1>7, <2>1 DEF Landed
  <2>2. CASE c.tasks = <<>>
    <3>1. task.landed = {}
      BY DEF task
    <3>2. Landed(c) = {}
      BY <2>2 DEF Landed
    <3>3. queue # <<>> => queue[1] = task
      BY <1>6, <2>2
    <3> HIDE DEF task
    <3> QED BY <1>7, <3>1, <3>2, <3>3 DEF Landed
  <2> QED BY <2>1, <2>2
<1>11. ASSUME NEW i \in 1..Len(queue)
       PROVE  /\ queue[i].ids \subseteq c.seen \cup DOMAIN writes
              /\ i > 1 => queue[i].landed = {}
  BY <1>4, <1>6 DEF IsSound
<1>12. IsSound(r, mine, after, done)
  BY <1>2, <1>7, <1>8, <1>9, <1>10, <1>11 DEF IsSound
<1>13. DOMAIN after \subseteq DOMAIN first \cup mine
  BY <1>8, <1>9
<1> QED BY <1>1, <1>8, <1>12, <1>13 DEF after

\* Nothing is queued before the first session.
LEMMA InitIsSound == UsageInit => UsageInv
<1> SUFFICES ASSUME UsageInit PROVE UsageInv
  OBVIOUS
<1> USE DEF UsageInit
<1>1. 1 \in Files
  BY UsageAssumption DEF Files
<1>2. entries \in [Files -> SUBSET UsageEntries] /\ \A f \in Files : entries[f] = {}
  OBVIOUS
<1>3. attribution \in [Files -> AllTags] /\ usageTags \in AllTags
  BY DEF AllTags
<1>4. /\ DOMAIN firstSeen = {} /\ firstSeen \in [DOMAIN firstSeen -> AllTags]
      /\ DOMAIN firstSeen \subseteq OnFile
  OBVIOUS
<1>5. LedgerIsSound(ledger, firstSeen)
  <2>1. ledger \in Seq([file : Files, id : UsageEntries, tags : AllTags]) /\ Len(ledger) = 0
    OBVIOUS
  <2> QED BY <2>1 DEF LedgerIsSound
<1> QED BY <1>1, <1>2, <1>3, <1>4, <1>5 DEF UsageInv

\* What is on record was queued before.
LEMMA RecordedWasQueued ==
  ASSUME NEW l, NEW first, LedgerIsSound(l, first)
  PROVE  Recorded(l) \subseteq DOMAIN first
<1>1. DOMAIN l = 1..Len(l)
  BY DEF LedgerIsSound
<1> QED BY <1>1 DEF LedgerIsSound, Recorded

\* The history of first sights only grows, and keeps what the ledger says.
LEMMA LedgerStaysSound ==
  ASSUME NEW l, NEW first, NEW after, LedgerIsSound(l, first),
         DOMAIN first \subseteq DOMAIN after, \A id \in DOMAIN first : after[id] = first[id]
  PROVE  LedgerIsSound(l, after)
BY DEF LedgerIsSound

\* A new entry was never queued.
LEMMA AppendKeepsUsage ==
  ASSUME UsageInv, NEW id \in UsageEntries, AppendUsage(id)
  PROVE  UsageInv'
<1> USE DEF AppendUsage
<1>1. /\ file \in Files /\ entries \in [Files -> SUBSET UsageEntries]
      /\ \A f \in Files : f > file => entries[f] = {}
      /\ DOMAIN firstSeen \subseteq OnFile /\ id \notin OnFile
  BY DEF UsageInv, OnFile
<1>2. id \notin DOMAIN firstSeen
  BY <1>1
<1>3. /\ entries' \in [Files -> SUBSET UsageEntries]
      /\ entries'[file] = entries[file] \cup {id}
      /\ \A f \in Files : f # file => entries'[f] = entries[f]
  BY <1>1
<1>4. DOMAIN firstSeen \subseteq OnFile'
  <2>1. ASSUME NEW x \in DOMAIN firstSeen
        PROVE  \E f \in Files : x \in entries'[f]
    <3>1. PICK f \in Files : x \in entries[f]
      BY <1>1 DEF OnFile
    <3> QED BY <1>1, <1>3, <3>1
  <2> QED BY <2>1 DEF OnFile
<1>5. entries'[file] \cap DOMAIN firstSeen = entries[file] \cap DOMAIN firstSeen
  BY <1>2, <1>3
<1>6. \A f \in Files : f > file => entries'[f] = {}
  <2>1. file \in Int
    BY <1>1 DEF Files
  <2> QED BY <1>1, <1>3, <2>1
<1>7. LedgerIsSound(ledger, firstSeen) /\ Recorded(ledger) \subseteq DOMAIN firstSeen
  BY RecordedWasQueued DEF UsageInv
<1>8. ASSUME phase \in {"live", "stopping"}
      PROVE  IsSound(capture, entries'[file], firstSeen, Recorded(ledger))
  <2>1. IsSound(capture, entries[file], firstSeen, Recorded(ledger))
    BY <1>8 DEF UsageInv
  <2>2. entries'[file] \cap Recorded(ledger) = entries[file] \cap Recorded(ledger)
    BY <1>5, <1>7
  <2> QED BY <1>5, <2>1, <2>2 DEF IsSound
<1>9. Recorded(ledger)' = Recorded(ledger) /\ LedgerIsSound(ledger, firstSeen)'
  BY <1>7 DEF Recorded, LedgerIsSound
<1>10. IsSound(capture, entries[file], firstSeen, Recorded(ledger))'
         <=> IsSound(capture, entries'[file], firstSeen, Recorded(ledger))
  BY DEF Recorded
<1> QED BY <1>3, <1>4, <1>5, <1>6, <1>8, <1>9, <1>10 DEF UsageInv

\* The baseline of a session holds everything its file holds.
LEMMA BeginsKeepsUsage ==
  ASSUME UsageInv, NEW f \in Files, f \in {file, file + 1},
         NEW content \in SUBSET UsageEntries, entries[f] \subseteq content,
         NEW tags \in AllTags, Begins(f, content, tags)
  PROVE  UsageInv'
<1> USE DEF Begins
<1>1. /\ file \in Files /\ entries \in [Files -> SUBSET UsageEntries]
      /\ \A g \in Files : g > file => entries[g] = {}
      /\ DOMAIN firstSeen \subseteq OnFile /\ attribution \in [Files -> AllTags]
  BY DEF UsageInv
<1>2. /\ entries' \in [Files -> SUBSET UsageEntries] /\ entries'[f] = content
      /\ \A g \in Files : g # f => entries'[g] = entries[g]
      /\ attribution' \in [Files -> AllTags]
  BY <1>1
<1>3. DOMAIN firstSeen \subseteq OnFile'
  <2>1. ASSUME NEW x \in DOMAIN firstSeen
        PROVE  \E g \in Files : x \in entries'[g]
    <3>1. PICK g \in Files : x \in entries[g]
      BY <1>1 DEF OnFile
    <3> QED BY <1>2, <3>1
  <2> QED BY <2>1 DEF OnFile
<1>4. \A g \in Files : g > f => entries'[g] = {}
  <2>1. f \in Int /\ file \in Int /\ Files \subseteq Int
    BY <1>1 DEF Files
  <2> QED BY <1>1, <1>2, <2>1
<1>5. LedgerIsSound(ledger, firstSeen)' /\ firstSeen' \in [DOMAIN firstSeen' -> AllTags]
  BY DEF UsageInv, LedgerIsSound
<1>6. capture' = [open |-> FALSE, seen |-> content] /\ capture'.seen = content
  OBVIOUS
<1>7. phase' = "starting" /\ file' = f /\ usageTags' \in AllTags /\ firstSeen' = firstSeen
  BY DEF UsageInv
<1> QED BY <1>2, <1>3, <1>4, <1>5, <1>6, <1>7 DEF UsageInv

\* A reconciliation of the open capture c, by whoever asked for it.
LEMMA ReconciliationKeepsUsage ==
  ASSUME UsageInv, NEW c, IsSound(c, entries[file], firstSeen, Recorded(ledger)),
         phase' \in {"live", "stopping"}, UNCHANGED <<file, entries, ledger>>,
         usageTags' \in AllTags, attribution' \in [Files -> AllTags],
         capture' = Reconciled(c, usageTags'), FirstSeen(capture')
  PROVE  UsageInv'
<1>1. /\ file \in Files /\ entries \in [Files -> SUBSET UsageEntries]
      /\ DOMAIN firstSeen \subseteq OnFile /\ firstSeen \in [DOMAIN firstSeen -> AllTags]
      /\ LedgerIsSound(ledger, firstSeen) /\ entries[file] \in SUBSET UsageEntries
  BY DEF UsageInv
<1>2. firstSeen' = Remembered(firstSeen, Reconciled(c, usageTags'), usageTags')
  BY DEF FirstSeen, Remembered
<1>3. /\ IsSound(capture', entries[file], firstSeen', Recorded(ledger))
      /\ firstSeen' \in [DOMAIN firstSeen' -> AllTags]
      /\ DOMAIN firstSeen \subseteq DOMAIN firstSeen'
      /\ DOMAIN firstSeen' \subseteq DOMAIN firstSeen \cup entries[file]
      /\ \A id \in DOMAIN firstSeen : firstSeen'[id] = firstSeen[id]
  <2>1. /\ IsSound(capture', entries[file], firstSeen', Recorded(ledger))
        /\ DOMAIN firstSeen \subseteq DOMAIN firstSeen'
        /\ DOMAIN firstSeen' \subseteq DOMAIN firstSeen \cup entries[file]
        /\ \A id \in DOMAIN firstSeen : firstSeen'[id] = firstSeen[id]
    BY <1>2, ReconciledIsSound
  <2>2. firstSeen' \in [DOMAIN firstSeen' -> AllTags]
    BY <2>1 DEF IsSound
  <2> QED BY <2>1, <2>2
<1>4. LedgerIsSound(ledger, firstSeen')
  BY <1>1, <1>3, LedgerStaysSound
<1>5. LedgerIsSound(ledger, firstSeen)' /\ Recorded(ledger)' = Recorded(ledger)
  BY <1>4 DEF LedgerIsSound, Recorded
<1>6. IsSound(capture, entries[file], firstSeen, Recorded(ledger))'
  BY <1>3, <1>5
<1>7. DOMAIN firstSeen' \subseteq OnFile'
  BY <1>1, <1>3 DEF OnFile
<1> QED BY <1>1, <1>3, <1>5, <1>6, <1>7 DEF UsageInv

\* The first reconciliation of a session starts with nothing queued.
LEMMA InitializeKeepsUsage ==
  ASSUME UsageInv, NEW configured \in UsageTags, Initialize(configured)
  PROVE  UsageInv'
<1> DEFINE tags == IF attribution[file] # NoTags THEN attribution[file] ELSE configured
           c == [open |-> TRUE, closed |-> FALSE, seen |-> capture.seen,
                 writes |-> <<>>, tasks |-> <<>>]
<1>1. /\ phase = "starting" /\ phase' = "live" /\ usageTags' = tags
      /\ attribution' = [attribution EXCEPT ![file] = tags]
      /\ capture' = Reconciled(c, tags) /\ FirstSeen(capture')
      /\ UNCHANGED <<file, entries, ahead, ledger>>
  BY DEF Initialize
<1>2. /\ file \in Files /\ attribution \in [Files -> AllTags]
      /\ capture.seen \subseteq UsageEntries
      /\ entries[file] \cap DOMAIN firstSeen \subseteq capture.seen
      /\ LedgerIsSound(ledger, firstSeen) /\ entries[file] \subseteq UsageEntries
      /\ firstSeen \in [DOMAIN firstSeen -> AllTags]
  BY <1>1 DEF UsageInv
<1>3. tags \in AllTags /\ attribution' \in [Files -> AllTags]
  BY <1>1, <1>2 DEF AllTags
<1>4. IsSound(c, entries[file], firstSeen, Recorded(ledger))
  <2>1. /\ c.seen = capture.seen /\ c.writes = <<>> /\ c.tasks = <<>>
        /\ DOMAIN c.writes = {} /\ Len(c.tasks) = 0 /\ Landed(c) = {}
    BY DEF Landed
  <2>2. /\ c.writes \in [{} -> AllTags] /\ c.tasks \in Seq(Tasks)
    OBVIOUS
  <2>3. c \in OpenCaptures
    <3>1. [{} -> AllTags] \subseteq UNION {[D -> AllTags] : D \in SUBSET UsageEntries}
      OBVIOUS
    <3> QED BY <1>2, <2>2, <3>1 DEF OpenCaptures
  <2>4. Recorded(ledger) \subseteq DOMAIN firstSeen
    BY <1>2, RecordedWasQueued
  <2> HIDE DEF c
  <2> QED BY <1>2, <2>1, <2>3, <2>4 DEF IsSound
<1> HIDE DEF c, tags
<1> QED BY <1>1, <1>3, <1>4, ReconciliationKeepsUsage

\* Only an open capture runs tasks.
LEMMA RunningIsSound ==
  ASSUME UsageInv, capture.open
  PROVE  /\ phase \in {"live", "stopping"}
         /\ IsSound(capture, entries[file], firstSeen, Recorded(ledger))
<1>1. ~NoCapture.open
  BY DEF NoCapture
<1>2. ASSUME phase = "starting" PROVE FALSE
  <2>1. capture = [open |-> FALSE, seen |-> capture.seen]
    BY <1>2 DEF UsageInv
  <2>2. ~[open |-> FALSE, seen |-> capture.seen].open
    OBVIOUS
  <2> QED BY <2>1, <2>2
<1>3. ASSUME phase = "none" PROVE FALSE
  BY <1>1, <1>3 DEF UsageInv
<1> QED BY <1>2, <1>3 DEF UsageInv

\* A timer tick, and the last reconciliation of a session.
LEMMA ReconcileKeepsUsage ==
  ASSUME UsageInv, Reconcile \/ BeginShutdown
  PROVE  UsageInv'
<1>1. phase \in {"live", "stopping"} /\ phase' \in {"live", "stopping"}
  <2>1. CASE Reconcile
    <3>1. capture.open /\ phase' = phase
      BY <2>1 DEF Reconcile
    <3> QED BY <3>1, RunningIsSound
  <2>2. CASE BeginShutdown
    BY <2>2 DEF BeginShutdown
  <2> QED BY <2>1, <2>2
<1>2. /\ UNCHANGED <<file, entries, attribution, ledger>> /\ usageTags' = usageTags
      /\ capture' = Reconciled(capture, usageTags') /\ FirstSeen(capture')
  BY DEF Reconcile, BeginShutdown
<1>3. /\ IsSound(capture, entries[file], firstSeen, Recorded(ledger))
      /\ usageTags \in AllTags /\ attribution \in [Files -> AllTags]
  BY <1>1 DEF UsageInv
<1> QED BY <1>1, <1>2, <1>3, ReconciliationKeepsUsage

\* Appending a line changes what is on record by that line.
LEMMA AppendedLine ==
  ASSUME NEW l, NEW first, LedgerIsSound(l, first),
         NEW f \in Files, NEW id \in UsageEntries, id \in DOMAIN first,
         id \notin Recorded(l), first[id] \in AllTags
  PROVE  LET m == Append(l, [file |-> f, id |-> id, tags |-> first[id]])
         IN LedgerIsSound(m, first) /\ Recorded(m) = Recorded(l) \cup {id}
<1> DEFINE R == [file : Files, id : UsageEntries, tags : AllTags]
           r == [file |-> f, id |-> id, tags |-> first[id]]
           m == Append(l, r)
<1>1. r \in R /\ r.id = id /\ r.tags = first[id] /\ l \in Seq(R)
  BY DEF LedgerIsSound
<1> HIDE DEF r, R
<1>2. /\ m \in Seq(R) /\ Len(m) = Len(l) + 1 /\ Len(l) \in Nat
      /\ \A i \in 1..Len(l) : m[i] = l[i]
      /\ m[Len(l) + 1] = r /\ DOMAIN l = 1..Len(l) /\ DOMAIN m = 1..Len(m)
  BY <1>1, AppendProperties, LenProperties
<1> HIDE DEF m
<1>3. \A i \in 1..Len(m) : i \in 1..Len(l) \/ i = Len(l) + 1
  BY <1>2
<1>4. \A i \in 1..Len(l) : l[i].id # id
  BY <1>2 DEF Recorded
<1>5. \A i, j \in 1..Len(m) : m[i].id = m[j].id => i = j
  BY <1>1, <1>2, <1>3, <1>4 DEF LedgerIsSound
<1>6. \A i \in 1..Len(m) : m[i].id \in DOMAIN first /\ m[i].tags = first[m[i].id]
  BY <1>1, <1>2, <1>3 DEF LedgerIsSound
<1>7. Recorded(m) = Recorded(l) \cup {id}
  <2>1. 1..Len(m) = 1..Len(l) \cup {Len(l) + 1}
    BY <1>2
  <2>2. Recorded(m) = {m[i].id : i \in 1..Len(l)} \cup {m[Len(l) + 1].id}
    BY <1>2, <2>1 DEF Recorded
  <2>3. {m[i].id : i \in 1..Len(l)} = Recorded(l)
    BY <1>2 DEF Recorded
  <2> QED BY <1>1, <1>2, <2>2, <2>3
<1>8. LedgerIsSound(m, first)
  BY <1>2, <1>5, <1>6 DEF LedgerIsSound, R
<1> QED BY <1>7, <1>8 DEF m, r

\* The tasks of an open capture with the landed entries of the first replaced.
FirstLanded(queue, landed) == [queue EXCEPT ![1].landed = landed]

\* They stay tasks, for the same entries.
LEMMA FirstTaskChanges ==
  ASSUME NEW c \in OpenCaptures, c.tasks # <<>>, NEW landed \in SUBSET UsageEntries
  PROVE  LET t == FirstLanded(c.tasks, landed)
         IN /\ t \in Seq(Tasks) /\ t # <<>> /\ Len(t) = Len(c.tasks) /\ t[1].landed = landed
            /\ \A i \in 1..Len(t) : t[i].ids = c.tasks[i].ids
            /\ \A i \in 1..Len(t) : i > 1 => t[i] = c.tasks[i]
<1> DEFINE t == FirstLanded(c.tasks, landed)
           u == [c.tasks[1] EXCEPT !.landed = landed]
<1>1. /\ c.tasks \in Seq(Tasks) /\ Len(c.tasks) \in Nat \ {0}
      /\ DOMAIN c.tasks = 1..Len(c.tasks) /\ 1 \in 1..Len(c.tasks)
      /\ c.tasks[1] \in Tasks
  BY EmptySeq, LenProperties, ElementOfSeq DEF OpenCaptures
<1>2. u \in Tasks /\ u.landed = landed /\ u.ids = c.tasks[1].ids
  BY <1>1 DEF Tasks
<1>3. t = [c.tasks EXCEPT ![1] = u]
  BY DEF FirstLanded
<1> HIDE DEF u, t
<1>4. /\ t \in Seq(Tasks) /\ Len(t) = Len(c.tasks)
      /\ \A i \in 1..Len(t) : t[i] = IF i = 1 THEN u ELSE c.tasks[i]
  BY <1>1, <1>2, <1>3, ExceptSeq
<1>5. t # <<>>
  BY <1>1, <1>4, EmptySeq
<1> QED BY <1>1, <1>2, <1>4, <1>5 DEF t

\* A step of the promise chain leaves the session alone.
LEMMA ChainStep ==
  ASSUME UsageInv, phase \in {"live", "stopping"}, NEW l, NEW c, ledger' = l, capture' = c,
         UNCHANGED <<phase, file, entries, attribution, usageTags, firstSeen>>,
         LedgerIsSound(l, firstSeen), IsSound(c, entries[file], firstSeen, Recorded(l))
  PROVE  UsageInv'
<1>1. /\ LedgerIsSound(ledger, firstSeen)'
      /\ IsSound(capture, entries[file], firstSeen, Recorded(ledger))'
      /\ OnFile' = OnFile
  BY DEF OnFile
<1> QED BY <1>1 DEF UsageInv

\* What is written was not on record: all that is, is seen.
LEMMA SaveKeepsUsage ==
  ASSUME UsageInv, NEW id \in UsageEntries, SaveLands(id)
  PROVE  UsageInv'
<1> DEFINE c == capture
           t == FirstLanded(c.tasks, {id})
           d == [c EXCEPT !.tasks = t]
           l == Append(ledger, [file |-> file, id |-> id, tags |-> firstSeen[id]])
<1>1. /\ c.open /\ c.tasks # <<>> /\ capture' = d
      /\ id \in c.tasks[1].ids \ c.seen /\ c.tasks[1].landed = {}
      /\ ledger' = Append(ledger, [file |-> file, id |-> id, tags |-> c.writes[id]])
      /\ UNCHANGED <<phase, file, entries, attribution, usageTags, ahead, firstSeen>>
  BY DEF SaveLands, Running, FirstLanded
<1>2. /\ phase \in {"live", "stopping"}
      /\ IsSound(c, entries[file], firstSeen, Recorded(ledger)) /\ c \in OpenCaptures
  BY <1>1, RunningIsSound DEF IsSound
<1>3. Len(c.tasks) \in Nat /\ 1 \in 1..Len(c.tasks)
  BY <1>1, <1>2, EmptySeq, LenProperties DEF OpenCaptures
<1>4. /\ id \in DOMAIN c.writes /\ id \in entries[file] /\ id \in DOMAIN firstSeen
      /\ c.writes[id] = firstSeen[id]
  BY <1>1, <1>2, <1>3 DEF IsSound
<1>5. Landed(c) = {}
  BY <1>1 DEF Landed
<1>6. id \notin Recorded(ledger)
  BY <1>1, <1>2, <1>4, <1>5 DEF IsSound
<1>7. /\ LedgerIsSound(ledger, firstSeen) /\ file \in Files /\ firstSeen[id] \in AllTags
  BY <1>4 DEF UsageInv
<1>8. ledger' = l
  BY <1>1, <1>4
<1>9. LedgerIsSound(l, firstSeen) /\ Recorded(l) = Recorded(ledger) \cup {id}
  BY <1>4, <1>6, <1>7, AppendedLine
<1>10. /\ t \in Seq(Tasks) /\ t # <<>> /\ Len(t) = Len(c.tasks) /\ t[1].landed = {id}
       /\ \A i \in 1..Len(t) : t[i].ids = c.tasks[i].ids
       /\ \A i \in 1..Len(t) : i > 1 => t[i] = c.tasks[i]
  <2>1. {id} \in SUBSET UsageEntries
    OBVIOUS
  <2> QED BY <1>1, <1>2, <2>1, FirstTaskChanges
<1> HIDE DEF t, l
<1>11. d \in OpenCaptures /\ d.seen = c.seen /\ d.writes = c.writes /\ d.tasks = t
  BY <1>2, <1>10 DEF OpenCaptures
<1> HIDE DEF d
<1>12. Landed(d) = {id}
  BY <1>10, <1>11 DEF Landed
<1>13. IsSound(d, entries[file], firstSeen, Recorded(l))
  BY <1>2, <1>5, <1>9, <1>10, <1>11, <1>12 DEF IsSound
<1> QED BY <1>1, <1>2, <1>8, <1>9, <1>13, ChainStep

\* The continuation of a write: what landed is seen and waits no more.
LEMMA SavedKeepsUsage ==
  ASSUME UsageInv, Saved
  PROVE  UsageInv'
<1> DEFINE c == capture
           t == FirstLanded(c.tasks, {})
           landed == c.tasks[1].landed
           writes == [id \in DOMAIN c.writes \ landed |-> c.writes[id]]
           d == [c EXCEPT !.seen = c.seen \cup landed, !.writes = writes, !.tasks = t]
<1>1. /\ c.open /\ c.tasks # <<>> /\ capture' = d
      /\ UNCHANGED <<phase, file, entries, attribution, usageTags, ahead, ledger, firstSeen>>
  BY DEF Saved, Running, FirstLanded
<1>2. /\ phase \in {"live", "stopping"}
      /\ IsSound(c, entries[file], firstSeen, Recorded(ledger)) /\ c \in OpenCaptures
  BY <1>1, RunningIsSound DEF IsSound
<1>3. /\ Len(c.tasks) \in Nat /\ 1 \in 1..Len(c.tasks) /\ landed \subseteq UsageEntries
      /\ Landed(c) = landed
  <2>1. /\ c.tasks \in Seq(Tasks) /\ Len(c.tasks) \in Nat /\ 1 \in 1..Len(c.tasks)
    BY <1>1, <1>2, EmptySeq, LenProperties DEF OpenCaptures
  <2>2. c.tasks[1] \in Tasks
    BY <2>1, ElementOfSeq
  <2> QED BY <1>1, <2>1, <2>2 DEF Tasks, Landed
<1>4. /\ t \in Seq(Tasks) /\ t # <<>> /\ Len(t) = Len(c.tasks) /\ t[1].landed = {}
      /\ \A i \in 1..Len(t) : t[i].ids = c.tasks[i].ids
      /\ \A i \in 1..Len(t) : i > 1 => t[i] = c.tasks[i]
  <2>1. {} \in SUBSET UsageEntries
    OBVIOUS
  <2> QED BY <1>1, <1>2, <2>1, FirstTaskChanges
<1>5. /\ DOMAIN c.writes \subseteq UsageEntries /\ c.seen \subseteq UsageEntries
      /\ \A id \in DOMAIN c.writes : c.writes[id] \in AllTags
  BY <1>2 DEF OpenCaptures
<1> HIDE DEF t, landed
<1>6. /\ writes \in [DOMAIN c.writes \ landed -> AllTags]
      /\ DOMAIN writes = DOMAIN c.writes \ landed
      /\ \A id \in DOMAIN writes : writes[id] = c.writes[id]
      /\ DOMAIN c.writes \ landed \in SUBSET UsageEntries
  BY <1>5
<1> HIDE DEF writes
<1>7. /\ d \in OpenCaptures /\ d.seen = c.seen \cup landed
      /\ d.writes = writes /\ d.tasks = t
  <2>1. writes \in UNION {[D -> AllTags] : D \in SUBSET UsageEntries}
    BY <1>6
  <2> QED BY <1>2, <1>3, <1>4, <1>5, <2>1 DEF OpenCaptures
<1> HIDE DEF d
<1>8. Landed(d) = {}
  BY <1>4, <1>7 DEF Landed
<1>9. IsSound(d, entries[file], firstSeen, Recorded(ledger))
  <2>1. /\ DOMAIN writes \subseteq entries[file] \cap DOMAIN firstSeen
        /\ \A id \in DOMAIN writes : writes[id] = firstSeen[id]
        /\ entries[file] \cap DOMAIN firstSeen \subseteq c.seen \cup landed \cup DOMAIN writes
        /\ entries[file] \cap Recorded(ledger) \subseteq c.seen \cup landed
    BY <1>2, <1>3, <1>6 DEF IsSound
  <2>2. \A i \in 1..Len(t) : t[i].ids \subseteq c.seen \cup landed \cup DOMAIN writes
    BY <1>2, <1>4, <1>6 DEF IsSound
  <2>3. \A i \in 1..Len(t) : i > 1 => t[i].landed = {}
    BY <1>2, <1>4 DEF IsSound
  <2>4. entries[file] \subseteq UsageEntries /\ firstSeen \in [DOMAIN firstSeen -> AllTags]
    BY <1>2 DEF IsSound
  <2> QED BY <1>7, <1>8, <2>1, <2>2, <2>3, <2>4 DEF IsSound
<1> QED BY <1>1, <1>2, <1>9, ChainStep DEF UsageInv

\* A task that ends has nothing landed.
LEMMA TaskEndsKeepsUsage ==
  ASSUME UsageInv, TaskEnds
  PROVE  UsageInv'
<1> DEFINE c == capture
           d == [c EXCEPT !.tasks = Tail(c.tasks)]
<1>1. /\ c.open /\ c.tasks # <<>> /\ c.tasks[1].landed = {} /\ capture' = d
      /\ UNCHANGED <<phase, file, entries, attribution, usageTags, ledger, firstSeen>>
  BY DEF TaskEnds, Running
<1>2. /\ phase \in {"live", "stopping"}
      /\ IsSound(c, entries[file], firstSeen, Recorded(ledger)) /\ c \in OpenCaptures
  BY <1>1, RunningIsSound DEF IsSound
<1> DEFINE t == Tail(c.tasks)
<1>3. /\ t \in Seq(Tasks) /\ Len(c.tasks) \in Nat /\ Len(t) = Len(c.tasks) - 1
      /\ \A i \in 1..Len(t) : i + 1 \in 1..Len(c.tasks) /\ i + 1 > 1 /\ t[i] = c.tasks[i + 1]
      /\ t # <<>> => 1 \in 1..Len(t)
  <2>1. c.tasks \in Seq(Tasks) /\ Len(c.tasks) \in Nat \ {0}
    BY <1>1, <1>2, EmptySeq, LenProperties DEF OpenCaptures
  <2>2. /\ t \in Seq(Tasks) /\ Len(t) = Len(c.tasks) - 1
        /\ \A i \in 1..Len(t) : t[i] = c.tasks[i + 1]
    BY <1>1, <2>1, HeadTailProperties
  <2>3. t # <<>> => Len(t) # 0
    BY <2>2, EmptySeq
  <2> HIDE DEF t
  <2> QED BY <2>1, <2>2, <2>3
<1> HIDE DEF t
<1>4. d \in OpenCaptures /\ d.seen = c.seen /\ d.writes = c.writes /\ d.tasks = t
  BY <1>2, <1>3 DEF OpenCaptures, t
<1> HIDE DEF d
<1>5. Landed(c) = {} /\ Landed(d) = {}
  BY <1>1, <1>2, <1>3, <1>4 DEF Landed, IsSound
<1>6. IsSound(d, entries[file], firstSeen, Recorded(ledger))
  BY <1>2, <1>3, <1>4, <1>5 DEF IsSound
<1> QED BY <1>1, <1>2, <1>6, ChainStep DEF UsageInv

\* The ends of a session, a cleared ledger and new tags queue nothing.
LEMMA OtherStepsKeepUsage ==
  ASSUME UsageInv,
         \/ CloseCapture \/ EndShutdown \/ ClearLedger \/ CrashPi
         \/ \E tags \in UsageTags : UpdateTags(tags)
         \/ UNCHANGED usageVars
  PROVE  UsageInv'
<1>1. CASE CloseCapture
  <2> DEFINE c == capture
             d == [c EXCEPT !.closed = TRUE]
  <2>1. /\ phase \in {"live", "stopping"} /\ capture' = d
        /\ UNCHANGED <<phase, file, entries, attribution, usageTags, ledger, firstSeen>>
    BY <1>1 DEF CloseCapture
  <2>2. IsSound(c, entries[file], firstSeen, Recorded(ledger)) /\ c \in OpenCaptures
    BY <2>1 DEF UsageInv, IsSound
  <2>3. d \in OpenCaptures /\ d.seen = c.seen /\ d.writes = c.writes /\ d.tasks = c.tasks
    BY <2>2 DEF OpenCaptures
  <2> HIDE DEF d
  <2>4. Landed(d) = Landed(c)
    BY <2>3 DEF Landed
  <2>5. IsSound(d, entries[file], firstSeen, Recorded(ledger))
    BY <2>2, <2>3, <2>4 DEF IsSound
  <2> QED BY <2>1, <2>5, ChainStep DEF UsageInv
<1>2. CASE EndShutdown \/ CrashPi
  <2>1. /\ phase' = "none" /\ capture' = NoCapture
        /\ UNCHANGED <<file, entries, attribution, usageTags, ledger, firstSeen>>
    BY <1>2 DEF EndShutdown, CrashPi
  <2>2. OnFile' = OnFile /\ LedgerIsSound(ledger, firstSeen)'
    BY <2>1 DEF UsageInv, OnFile
  <2> QED BY <2>1, <2>2 DEF UsageInv, NoCapture
<1>3. CASE ClearLedger
  <2>1. /\ ledger' = <<>>
        /\ UNCHANGED <<phase, file, entries, attribution, usageTags, capture, firstSeen>>
    BY <1>3 DEF ClearLedger
  <2>2. Len(<<>>) = 0 /\ DOMAIN <<>> = {} /\ Recorded(<<>>) = {}
    BY DEF Recorded
  <2>3. LedgerIsSound(<<>>, firstSeen)
    BY <2>2 DEF LedgerIsSound
  <2>4. ASSUME phase \in {"live", "stopping"}
        PROVE  IsSound(capture, entries[file], firstSeen, {})
    BY <2>4 DEF UsageInv, IsSound
  <2>5. /\ LedgerIsSound(ledger, firstSeen)' /\ OnFile' = OnFile
        /\ phase' \in {"live", "stopping"} =>
             IsSound(capture, entries[file], firstSeen, Recorded(ledger))'
    BY <2>1, <2>2, <2>3, <2>4 DEF OnFile
  <2> QED BY <2>1, <2>5 DEF UsageInv
<1>4. CASE \E tags \in UsageTags : UpdateTags(tags)
  <2>1. PICK tags \in UsageTags : UpdateTags(tags)
    BY <1>4
  <2>2. /\ usageTags' = tags /\ attribution' = [attribution EXCEPT ![file] = tags]
        /\ UNCHANGED <<phase, file, entries, capture, ledger, firstSeen>>
    BY <2>1 DEF UpdateTags
  <2>3. usageTags' \in AllTags /\ attribution' \in [Files -> AllTags]
    BY <2>2 DEF UsageInv, AllTags
  <2>4. /\ LedgerIsSound(ledger, firstSeen)' = LedgerIsSound(ledger, firstSeen)
        /\ OnFile' = OnFile /\ Recorded(ledger)' = Recorded(ledger)
        /\ IsSound(capture, entries[file], firstSeen, Recorded(ledger))'
             = IsSound(capture, entries[file], firstSeen, Recorded(ledger))
    BY <2>2 DEF OnFile
  <2> QED BY <2>2, <2>3, <2>4 DEF UsageInv
<1>5. CASE UNCHANGED usageVars
  <2>1. /\ LedgerIsSound(ledger, firstSeen)' = LedgerIsSound(ledger, firstSeen)
        /\ OnFile' = OnFile /\ Recorded(ledger)' = Recorded(ledger)
        /\ IsSound(capture, entries[file], firstSeen, Recorded(ledger))'
             = IsSound(capture, entries[file], firstSeen, Recorded(ledger))
    BY <1>5 DEF OnFile, usageVars
  <2> QED BY <1>5, <2>1 DEF UsageInv, usageVars
<1> QED BY <1>1, <1>2, <1>3, <1>4, <1>5

\* A session resumes its file, copies it to the next or starts the next empty.
LEMMA SessionsKeepUsage ==
  ASSUME UsageInv, Resume \/ Fork \/ NewSession
  PROVE  UsageInv'
<1>1. /\ file \in Files /\ entries \in [Files -> SUBSET UsageEntries]
      /\ attribution \in [Files -> AllTags] /\ NoTags \in AllTags
      /\ \A f \in Files : f > file => entries[f] = {}
  BY DEF UsageInv, AllTags
<1>2. CASE Resume
  BY <1>1, <1>2, BeginsKeepsUsage DEF Resume
<1>3. CASE Fork \/ NewSession
  <2>1. file + 1 \in Files /\ entries[file + 1] = {}
    <3>1. file \in 1..MaxFiles /\ file < MaxFiles /\ MaxFiles \in Nat
      BY <1>1, <1>3, UsageAssumption DEF Fork, NewSession, Files
    <3>2. file + 1 \in Files /\ file + 1 > file
      BY <3>1 DEF Files
    <3> QED BY <1>1, <3>2
  <2>2. CASE Fork
    BY <1>1, <2>1, <2>2, BeginsKeepsUsage DEF Fork
  <2>3. CASE NewSession
    BY <1>1, <2>1, <2>3, BeginsKeepsUsage DEF NewSession
  <2> QED BY <1>3, <2>2, <2>3
<1> QED BY <1>2, <1>3

\* UsageInv is inductive.
LEMMA StepKeepsUsage == UsageInv /\ [UsageNext]_usageVars => UsageInv'
<1> SUFFICES ASSUME UsageInv, [UsageNext]_usageVars PROVE UsageInv'
  OBVIOUS
<1>1. CASE \E id \in UsageEntries : AppendUsage(id) \/ SaveLands(id)
  BY <1>1, AppendKeepsUsage, SaveKeepsUsage
<1>2. CASE \E tags \in UsageTags : Initialize(tags)
  BY <1>2, InitializeKeepsUsage
<1>3. CASE Resume \/ Fork \/ NewSession
  BY <1>3, SessionsKeepUsage
<1>4. CASE Reconcile \/ BeginShutdown
  BY <1>4, ReconcileKeepsUsage
<1>5. CASE Saved
  BY <1>5, SavedKeepsUsage
<1>6. CASE TaskEnds
  BY <1>6, TaskEndsKeepsUsage
<1>7. CASE \/ CloseCapture \/ EndShutdown \/ ClearLedger \/ CrashPi
           \/ \E tags \in UsageTags : UpdateTags(tags)
           \/ UNCHANGED usageVars
  BY <1>7, OtherStepsKeepUsage
<1> QED BY <1>1, <1>2, <1>3, <1>4, <1>5, <1>6, <1>7 DEF UsageNext

\* Usage is counted once, with the tags of when it was first queued
\* (usage-accounting.ts): whatever fails, resumes, forks or is cleared.
THEOREM UsageSoundness == UsageSpec => []RecordedOnceAsFirstSeen
<1>1. UsageInv => RecordedOnceAsFirstSeen
  <2> SUFFICES ASSUME UsageInv PROVE RecordedOnceAsFirstSeen
    OBVIOUS
  <2>1. LedgerIsSound(ledger, firstSeen) /\ DOMAIN ledger = 1..Len(ledger)
    BY DEF UsageInv, LedgerIsSound
  <2> QED BY <2>1 DEF RecordedOnceAsFirstSeen, IsInjective, LedgerIsSound
<1> QED BY <1>1, InitIsSound, StepKeepsUsage, PTL DEF UsageSpec

\* A capture that is open has tags, and they are what is remembered; a session
\* that ends waits for no more tasks than there may be.
UsageBounds ==
  /\ ahead \in 0..MaxTasks
  /\ phase \in {"live", "stopping"} => usageTags \in UsageTags
  /\ \A id \in DOMAIN firstSeen : firstSeen[id] \in UsageTags

\* A reconciliation remembers the tags of now.
LEMMA TagsAreRemembered ==
  ASSUME UsageBounds, NEW cap, FirstSeen(cap), usageTags' \in UsageTags
  PROVE  \A id \in DOMAIN firstSeen' : firstSeen'[id] \in UsageTags
BY DEF UsageBounds, FirstSeen

\* A reconciliation adds one task at most.
LEMMA OneTaskMore ==
  ASSUME NEW c \in OpenCaptures, Len(c.tasks) < MaxTasks, NEW tags
  PROVE  Len(Reconciled(c, tags).tasks) \in 0..MaxTasks
<1> DEFINE fresh == entries[file] \ (c.seen \cup DOMAIN c.writes)
           writes == [id \in DOMAIN c.writes \cup fresh |->
                        IF id \in DOMAIN c.writes THEN c.writes[id] ELSE tags]
           task == [ids |-> DOMAIN writes, landed |-> {}]
<1>1. c.tasks \in Seq(Tasks) /\ Len(c.tasks) \in Nat /\ MaxTasks \in Nat
  BY UsageAssumption DEF OpenCaptures
<1>2. Reconciled(c, tags).tasks = IF writes = <<>> THEN c.tasks ELSE Append(c.tasks, task)
  BY DEF Reconciled, OpenCaptures
<1> HIDE DEF writes, task
<1>3. Len(Append(c.tasks, task)) = Len(c.tasks) + 1
  BY <1>1
<1> QED BY <1>1, <1>2, <1>3

\* Every step of the capture keeps the bounds.
LEMMA UsageKeepsBounds == UsageInv /\ UsageBounds /\ [UsageNext]_usageVars => UsageBounds'
<1> SUFFICES ASSUME UsageInv, UsageBounds, [UsageNext]_usageVars PROVE UsageBounds'
  OBVIOUS
<1> USE UsageAssumption
<1>1. ASSUME UNCHANGED firstSeen, ahead' \in 0..MaxTasks,
             phase' \in {"live", "stopping"} => usageTags' \in UsageTags
      PROVE  UsageBounds'
  BY <1>1 DEF UsageBounds
<1>2. ASSUME NEW id \in UsageEntries, AppendUsage(id) \/ SaveLands(id) PROVE UsageBounds'
  BY <1>1, <1>2 DEF AppendUsage, SaveLands, UsageBounds
<1>3. CASE Resume \/ Fork \/ NewSession
  BY <1>1, <1>3 DEF Resume, Fork, NewSession, Begins, UsageBounds
<1>4. CASE CloseCapture \/ EndShutdown \/ ClearLedger \/ Saved \/ UNCHANGED usageVars
  BY <1>1, <1>4 DEF CloseCapture, EndShutdown, ClearLedger, Saved, usageVars, UsageBounds
<1>5. CASE CrashPi
  BY <1>1, <1>5 DEF CrashPi, UsageBounds
<1>6. CASE TaskEnds
  <2>1. ahead' \in 0..MaxTasks
    BY <1>6 DEF TaskEnds, UsageBounds
  <2> QED BY <1>1, <1>6, <2>1 DEF TaskEnds, UsageBounds
<1>7. ASSUME NEW tags \in UsageTags, UpdateTags(tags) PROVE UsageBounds'
  BY <1>1, <1>7 DEF UpdateTags, UsageBounds
<1>8. ASSUME NEW tags \in UsageTags, Initialize(tags) PROVE UsageBounds'
  <2>1. file \in Files /\ attribution \in [Files -> AllTags]
    BY DEF UsageInv
  <2>2. usageTags' \in UsageTags
    BY <1>8, <2>1 DEF Initialize, AllTags
  <2>3. FirstSeen(capture') /\ ahead' = ahead
    BY <1>8 DEF Initialize
  <2> QED BY <2>2, <2>3, TagsAreRemembered DEF UsageBounds
<1>9. CASE Reconcile \/ BeginShutdown
  <2>1. phase \in {"live", "stopping"} /\ capture \in OpenCaptures
    <3>1. CASE Reconcile
      BY <3>1, RunningIsSound DEF Reconcile, IsSound
    <3>2. CASE BeginShutdown
      BY <3>2 DEF BeginShutdown, UsageInv, IsSound
    <3> QED BY <1>9, <3>1, <3>2
  <2>2. usageTags' = usageTags /\ usageTags \in UsageTags
    BY <1>9, <2>1 DEF Reconcile, BeginShutdown, UsageBounds
  <2>3. FirstSeen(capture') /\ capture' = Reconciled(capture, usageTags) /\ Len(capture.tasks) < MaxTasks
        /\ (ahead' = ahead \/ ahead' = Len(Reconciled(capture, usageTags).tasks))
    BY <1>9 DEF Reconcile, BeginShutdown
  <2>4. Len(Reconciled(capture, usageTags).tasks) \in 0..MaxTasks
    BY <2>1, <2>3, OneTaskMore
  <2>5. \A id \in DOMAIN firstSeen' : firstSeen'[id] \in UsageTags
    BY <2>2, <2>3, TagsAreRemembered
  <2> QED BY <2>2, <2>3, <2>4, <2>5 DEF UsageBounds
<1> QED BY <1>2, <1>3, <1>4, <1>5, <1>6, <1>7, <1>8, <1>9 DEF UsageNext

\* They hold at first, and give the types: a line on file has its entry's tags.
LEMMA UsageBoundsGiveTypes == (UsageInit => UsageBounds) /\ (UsageInv /\ UsageBounds => UsageTypeOK)
<1>1. UsageInit => UsageBounds
  BY UsageAssumption DEF UsageInit, UsageBounds
<1>2. ASSUME UsageInv, UsageBounds PROVE UsageTypeOK
  <2> DEFINE R == [file : Files, id : UsageEntries, tags : AllTags]
             L == [file : Files, id : UsageEntries, tags : UsageTags]
  <2>1. LedgerIsSound(ledger, firstSeen)
    BY <1>2 DEF UsageInv
  <2>2. ledger \in Seq(R) /\ Len(ledger) \in Nat
    BY <2>1 DEF LedgerIsSound
  <2>3. ASSUME NEW i \in 1..Len(ledger) PROVE ledger[i] \in L
    <3>1. ledger[i] \in R
      BY <2>2, ElementOfSeq
    <3>2. ledger[i].tags \in UsageTags
      BY <1>2, <2>1 DEF LedgerIsSound, UsageBounds
    <3> QED BY <3>1, <3>2
  <2>4. ledger \in Seq(L)
    <3> HIDE DEF R, L
    <3>1. ledger = [i \in 1..Len(ledger) |-> ledger[i]]
      BY <2>2
    <3> QED BY <2>2, <2>3, <3>1, IsASeq
  <2> QED BY <1>2, <2>4 DEF UsageInv, UsageBounds, UsageTypeOK, AllTags
<1> QED BY <1>1, <1>2

(***************************************************************************)
(* SkillReview.  Who writes run.json holds its lock and has read what the  *)
(* file says; a status file is never taken back, and what the              *)
(* consolidation took for complete stays complete in both.                 *)
(***************************************************************************)
Manifests ==
  [status : {"running", "consolidating", "complete", "partial"}, launchError : BOOLEAN,
   reviewers : [Reviewers -> ReviewResults \cup {NoResult}],
   consolidated : {NoResult, "complete", "failed"}]

ReviewTypes ==
  /\ handler \in {"checking", "refused", "preparing", "launching", "rolling", "recording", "done"}
  /\ missing \subseteq Reviewers /\ untried \subseteq Reviewers
  /\ captures \in [Reviewers -> {"none", "running", "filed", "locked", "ended", "dead"}]
  /\ manifest \in Manifests /\ read \in Manifests
  /\ statusFile \in [Reviewers -> {NoResult, "complete", "failed"}]
  /\ statuses \in [Reviewers -> ReviewResults \cup {NoResult}]

RunWriting == {"marking", "storing", "storingFailure", "closing", "closingFailure", "breaking"}

\* A writer holds the lock and has read the manifest as it is.
LockIsHeld ==
  /\ \A r \in Reviewers : captures[r] = "locked" => lockedBy = r /\ read = manifest
  /\ handler = "recording" => lockedBy = Launcher /\ read = manifest
  /\ consolidation \in RunWriting => lockedBy = Consolidator /\ read = manifest

\* What was not tried to start does not run.
LaunchesInOrder ==
  /\ \A r \in Reviewers : r \in untried \/ r \in missing => captures[r] = "none"
  /\ handler \in {"checking", "refused", "preparing"} => untried = Reviewers
  /\ handler \in {"checking", "refused", "preparing", "launching"} =>
        missing = {} /\ consolidation = "none"

\* A review that is complete has ended; the consolidation takes no other for
\* complete, and marks none without a result.
FilesAreKept ==
  /\ \A r \in Reviewers : statusFile[r] = "complete" =>
        captures[r] \in {"filed", "locked", "ended", "dead"}
  /\ \A r \in Reviewers : captures[r] \in {"filed", "locked", "ended"} => statusFile[r] # NoResult
  /\ \A r \in Reviewers : statuses[r] = "complete" => statusFile[r] = "complete"
  /\ consolidation \in {"gathered", "marking"} => \A r \in Reviewers : statuses[r] # NoResult

\* The manifest says so, too.
ManifestIsEarned ==
  /\ \A r \in Reviewers : captures[r] = "ended" =>
       /\ manifest.reviewers[r] # NoResult
       /\ \/ manifest.reviewers[r] = statusFile[r]
          \/ manifest.reviewers[r] = statuses[r] /\ ~NotMarked
  /\ consolidation \in {"consolidating", "consolidated", "storing", "stored", "closing"} =>
        \A r \in Reviewers : statuses[r] = "complete" => manifest.reviewers[r] = "complete"
  /\ manifest.status = "complete" =>
        /\ consolidation = "ended" /\ manifest.consolidated = "complete"
        /\ \A r \in Reviewers : statuses[r] = "complete" /\ manifest.reviewers[r] = "complete"

RunInv == ReviewTypes /\ LockIsHeld /\ LaunchesInOrder /\ FilesAreKept /\ ManifestIsEarned

\* What is complete stays so until a launch failure is recorded, for good.
CompleteKept ==
  /\ manifest.status = "complete" => manifest'.status = "complete" \/ manifest'.launchError
  /\ manifest.launchError => manifest'.launchError

\* Every step but the three that write run.json keeps the invariant, and the file.
LEMMA BesideTheFile ==
  ASSUME RunInv,
         \/ OpenPanes \/ LaunchThrows \/ RecordsLaunchError \/ GivesUpRecording
         \/ EndWait \/ LockForRun \/ Consolidates
         \/ \E begun, told \in BOOLEAN :
              \/ LaunchConsolidation(begun, told)
              \/ \E r \in Reviewers : LaunchReviewer(r, begun, told)
         \/ \E r \in Reviewers :
              \/ WriteOff(r) \/ LockForReviewer(r) \/ CaptureDies(r) \/ ReadStatus(r)
              \/ \E result \in ReviewResults : ReviewerEnds(r, result)
  PROVE  RunInv' /\ UNCHANGED manifest
<1> USE ReviewAssumption
    DEF RunInv, ReviewTypes, LockIsHeld, LaunchesInOrder, FilesAreKept, ManifestIsEarned,
        RunWriting, ReviewResults, NoResult, NoHolder, Launcher, Consolidator, NotMarked
<1>1. CASE OpenPanes
  BY <1>1 DEF OpenPanes
<1>2. CASE LaunchThrows
  BY <1>2 DEF LaunchThrows
<1>3. CASE RecordsLaunchError
  BY <1>3 DEF RecordsLaunchError, Locks
<1>4. CASE GivesUpRecording
  BY <1>4 DEF GivesUpRecording
<1>5. CASE EndWait
  BY <1>5 DEF EndWait
<1>6. CASE LockForRun
  BY <1>6 DEF LockForRun, Locks, Step
<1>7. CASE Consolidates
  BY <1>7 DEF Consolidates, Step
<1>8. ASSUME NEW begun \in BOOLEAN, NEW told \in BOOLEAN,
             LaunchConsolidation(begun, told)
      PROVE  RunInv' /\ UNCHANGED manifest
  BY <1>8 DEF LaunchConsolidation
<1>9. ASSUME NEW begun \in BOOLEAN, NEW told \in BOOLEAN,
             NEW r \in Reviewers, LaunchReviewer(r, begun, told)
      PROVE  RunInv' /\ UNCHANGED manifest
  BY <1>9 DEF LaunchReviewer
<1>10. ASSUME NEW r \in Reviewers, WriteOff(r) PROVE RunInv' /\ UNCHANGED manifest
  BY <1>10 DEF WriteOff
<1>11. ASSUME NEW r \in Reviewers, LockForReviewer(r) PROVE RunInv' /\ UNCHANGED manifest
  BY <1>11 DEF LockForReviewer, Locks
<1>12. ASSUME NEW r \in Reviewers, CaptureDies(r) PROVE RunInv' /\ UNCHANGED manifest
  BY <1>12 DEF CaptureDies
<1>13. ASSUME NEW r \in Reviewers, ReadStatus(r) PROVE RunInv' /\ UNCHANGED manifest
  BY <1>13 DEF ReadStatus
<1>14. ASSUME NEW r \in Reviewers, NEW result \in ReviewResults, ReviewerEnds(r, result)
       PROVE  RunInv' /\ UNCHANGED manifest
  BY <1>14 DEF ReviewerEnds
<1> HIDE DEF RunInv
<1> QED BY <1>1, <1>2, <1>3, <1>4, <1>5, <1>6, <1>7, <1>8, <1>9, <1>10, <1>11,
           <1>12, <1>13, <1>14

\* A capture process records its result over what it has read under the lock.
LEMMA RecordReviewerKeepsRun ==
  ASSUME RunInv, NEW r \in Reviewers, RecordReviewer(r)
  PROVE  RunInv' /\ CompleteKept /\ EntriesHaveOwners
<1> USE ReviewAssumption
    DEF RunInv, ReviewTypes, LockIsHeld, LaunchesInOrder, FilesAreKept, ManifestIsEarned,
        RunWriting, ReviewResults, NoResult, NoHolder, Launcher, Consolidator, RecordReviewer,
        NotMarked, Writes, NewManifest, Manifests
<1>1. manifest' = [manifest EXCEPT !.reviewers[r] = statusFile[r]]
  OBVIOUS
<1>2. /\ manifest'.reviewers = [manifest.reviewers EXCEPT ![r] = statusFile[r]]
      /\ manifest'.status = manifest.status /\ manifest'.launchError = manifest.launchError
      /\ manifest'.consolidated = manifest.consolidated
  BY <1>1
<1>3. manifest' \in Manifests
  BY <1>1, <1>2
<1>4. ReviewTypes'
  BY <1>3
<1>5. LockIsHeld'
  OBVIOUS
<1>6. LaunchesInOrder' /\ FilesAreKept'
  OBVIOUS
<1>7. ManifestIsEarned'
  BY <1>2
<1>8. CompleteKept /\ EntriesHaveOwners
  BY <1>2 DEF CompleteKept, EntriesHaveOwners
<1> QED BY <1>4, <1>5, <1>6, <1>7, <1>8

\* So does the command, for a launch that failed.
LEMMA LaunchErrorKeepsRun ==
  ASSUME RunInv, RecordedLaunchError PROVE RunInv' /\ CompleteKept /\ EntriesHaveOwners
<1> USE ReviewAssumption
    DEF RunInv, ReviewTypes, LockIsHeld, LaunchesInOrder, FilesAreKept, ManifestIsEarned,
        RunWriting, ReviewResults, NoResult, NoHolder, Launcher, Consolidator,
        RecordedLaunchError, NotMarked, Writes, NewManifest, Manifests
<1>1. manifest' = [manifest EXCEPT !.status = "partial", !.launchError = TRUE]
  OBVIOUS
<1>2. /\ manifest'.reviewers = manifest.reviewers
      /\ manifest'.status = "partial" /\ manifest'.launchError
      /\ manifest'.consolidated = manifest.consolidated
  BY <1>1
<1>3. manifest' \in Manifests
  BY <1>1, <1>2
<1>4. ReviewTypes'
  BY <1>3
<1>5. LockIsHeld' /\ LaunchesInOrder' /\ FilesAreKept'
  OBVIOUS
<1>6. ManifestIsEarned'
  BY <1>2
<1>7. CompleteKept /\ EntriesHaveOwners
  BY <1>2 DEF CompleteKept, EntriesHaveOwners
<1> QED BY <1>4, <1>5, <1>6, <1>7

\* And the consolidation, which calls a run complete when all of it is.
LEMMA WriteRunKeepsRun ==
  ASSUME RunInv, WriteRun PROVE RunInv' /\ CompleteKept /\ EntriesHaveOwners
<1> USE ReviewAssumption
    DEF RunInv, ReviewTypes, LockIsHeld, LaunchesInOrder, FilesAreKept, ManifestIsEarned,
        RunWriting, ReviewResults, NoResult, NoHolder, Launcher, Consolidator, Step,
        NotMarked, Writes, NewManifest, Manifests, Ends, Earned
<1>1. /\ consolidation \in RunWriting /\ read = manifest /\ lockedBy = Consolidator
      /\ read' = NewManifest /\ lockedBy' = NoHolder
      /\ UNCHANGED <<handler, untried, missing, captures, statusFile, statuses>>
  BY DEF WriteRun
<1>2. /\ manifest.status # "complete"
      /\ manifest \in Manifests /\ statuses \in [Reviewers -> ReviewResults \cup {NoResult}]
  BY <1>1
<1>3. ASSUME NEW s \in {"running", "consolidating", "complete", "partial"},
             NEW m \in [Reviewers -> ReviewResults \cup {NoResult}],
             NEW c \in {NoResult, "complete", "failed"},
             manifest' = [manifest EXCEPT !.status = s, !.reviewers = m, !.consolidated = c]
      PROVE  /\ manifest' \in Manifests /\ manifest'.launchError = manifest.launchError
             /\ manifest'.status = s /\ manifest'.reviewers = m /\ manifest'.consolidated = c
  BY <1>2, <1>3
<1> DEFINE Rewritten(s, m, c) ==
      /\ manifest' = [manifest EXCEPT !.status = s, !.reviewers = m, !.consolidated = c]
      /\ \/ /\ consolidation = "marking" /\ consolidation' = "consolidating"
            /\ s = "consolidating" /\ m = statuses
         \/ /\ consolidation \in {"storing", "storingFailure"}
            /\ consolidation' \in {"stored", "storedFailure"}
            /\ consolidation' = "stored" => consolidation = "storing"
            /\ s = manifest.status /\ m = manifest.reviewers
         \/ /\ consolidation \in {"closing", "closingFailure", "breaking"}
            /\ consolidation' = "ended" /\ m = manifest.reviewers
            /\ s \in {"complete", "partial"}
            /\ s = "complete" =>
                 /\ consolidation = "closing" /\ c = "complete"
                 /\ \A r \in Reviewers : statuses[r] = "complete"
<1>4. PICK s \in {"running", "consolidating", "complete", "partial"},
           m \in [Reviewers -> ReviewResults \cup {NoResult}],
           c \in {NoResult, "complete", "failed"} : Rewritten(s, m, c)
  <2>1. CASE /\ Step("marking", "consolidating")
             /\ manifest' = [manifest EXCEPT !.status = "consolidating", !.reviewers = statuses]
    <3>1. manifest' = [manifest EXCEPT !.status = "consolidating", !.reviewers = statuses,
                                       !.consolidated = manifest.consolidated]
      BY <1>2, <2>1
    <3>2. Rewritten("consolidating", statuses, manifest.consolidated)
      BY <2>1, <3>1
    <3>3. manifest.consolidated \in {NoResult, "complete", "failed"}
      BY <1>2
    <3> HIDE DEF Rewritten
    <3> QED BY <1>2, <3>2, <3>3
  <2>2. ASSUME NEW d \in {"complete", "failed"},
               manifest' = [manifest EXCEPT !.consolidated = d],
               \/ Step("storing", "stored") \/ Step("storingFailure", "storedFailure")
        PROVE  /\ Rewritten(manifest.status, manifest.reviewers, d)
               /\ manifest.status \in {"running", "consolidating", "complete", "partial"}
               /\ manifest.reviewers \in [Reviewers -> ReviewResults \cup {NoResult}]
    <3>1. manifest' = [manifest EXCEPT !.status = manifest.status,
                                       !.reviewers = manifest.reviewers, !.consolidated = d]
      BY <1>2, <2>2
    <3> QED BY <1>2, <2>2, <3>1
  <2>3. ASSUME NEW d \in {"complete", "failed"}, manifest' = Ends(d),
               \/ Step("closing", "ended") /\ d = "complete"
               \/ Step("closingFailure", "ended") /\ d = "failed"
               \/ Step("breaking", "ended") /\ d = "failed"
        PROVE  /\ Rewritten(Earned(d), manifest.reviewers, d)
               /\ Earned(d) \in {"running", "consolidating", "complete", "partial"}
               /\ manifest.reviewers \in [Reviewers -> ReviewResults \cup {NoResult}]
    <3>1. manifest' = [manifest EXCEPT !.status = Earned(d),
                                       !.reviewers = manifest.reviewers, !.consolidated = d]
      BY <1>1, <1>2, <2>3
    <3> QED BY <1>2, <2>3, <3>1
  <2>4. \/ /\ Step("marking", "consolidating")
           /\ manifest' = [manifest EXCEPT !.status = "consolidating", !.reviewers = statuses]
        \/ \E d \in {"complete", "failed"} :
              \/ /\ manifest' = [manifest EXCEPT !.consolidated = d]
                 /\ Step("storing", "stored") \/ Step("storingFailure", "storedFailure")
              \/ /\ manifest' = Ends(d)
                 /\ \/ Step("closing", "ended") /\ d = "complete"
                    \/ Step("closingFailure", "ended") /\ d = "failed"
                    \/ Step("breaking", "ended") /\ d = "failed"
    <3> HIDE DEF Step, Ends
    <3> QED BY <1>1 DEF WriteRun
  <2> HIDE DEF Rewritten, Step, Ends, Earned
  <2> QED BY <2>1, <2>2, <2>3, <2>4
<1>5. /\ manifest' \in Manifests /\ manifest'.launchError = manifest.launchError
      /\ manifest'.status = s /\ manifest'.reviewers = m /\ manifest'.consolidated = c
  BY <1>3, <1>4
<1>6. ReviewTypes' /\ LockIsHeld'
  <2>1. ReviewTypes'
    BY <1>1, <1>5
  <2>2. read = manifest /\ lockedBy = Consolidator /\ consolidation' \notin RunWriting
    BY <1>1, <1>4
  <2> QED BY <1>1, <2>1, <2>2
<1>7. LaunchesInOrder' /\ FilesAreKept'
  BY <1>1, <1>4
<1>8. ManifestIsEarned'
  BY <1>1, <1>2, <1>4, <1>5
<1>9. CompleteKept
  BY <1>2, <1>5 DEF CompleteKept
<1>10. EntriesHaveOwners
  <2>1. consolidation = "marking" => \A r \in Reviewers : statuses[r] # NoResult
    OBVIOUS
  <2> QED BY <1>1, <1>4, <1>5, <2>1 DEF EntriesHaveOwners
<1> QED BY <1>6, <1>7, <1>8, <1>9, <1>10

\* So each step of the run leaves the entries of others as they are.
LEMMA RunStepIsOwn ==
  ASSUME RunInv, RunNext
  PROVE  RunInv' /\ (UNCHANGED manifest \/ CompleteKept) /\ EntriesHaveOwners
<1>1. RunInv' /\ (UNCHANGED manifest \/ (CompleteKept /\ EntriesHaveOwners))
  <2>1. CASE RecordedLaunchError
    BY <2>1, LaunchErrorKeepsRun
  <2>2. CASE WriteRun
    BY <2>2, WriteRunKeepsRun
  <2>3. CASE \E r \in Reviewers : RecordReviewer(r)
    BY <2>3, RecordReviewerKeepsRun
  <2>4. CASE ~(RecordedLaunchError \/ WriteRun \/ \E r \in Reviewers : RecordReviewer(r))
    <3>1. \/ OpenPanes \/ LaunchThrows \/ RecordsLaunchError \/ GivesUpRecording
          \/ EndWait \/ LockForRun \/ Consolidates
          \/ \E begun, told \in BOOLEAN :
               \/ LaunchConsolidation(begun, told)
               \/ \E r \in Reviewers : LaunchReviewer(r, begun, told)
          \/ \E r \in Reviewers :
               \/ WriteOff(r) \/ LockForReviewer(r) \/ CaptureDies(r) \/ ReadStatus(r)
               \/ \E result \in ReviewResults : ReviewerEnds(r, result)
      BY <2>4, Zenon DEF RunNext
    <3>2. RunInv' /\ UNCHANGED manifest
      BY <3>1, BesideTheFile
    <3> QED BY <3>2
  <2> QED BY <2>1, <2>2, <2>3, <2>4
<1>2. UNCHANGED manifest => EntriesHaveOwners
  BY DEF EntriesHaveOwners
<1> QED BY <1>1, <1>2

(***************************************************************************)
(* The monitor shows what it has read: a run it shows complete is, but for *)
(* a launch failure recorded since.                                        *)
(***************************************************************************)
MonitorInv ==
  /\ seen.status = "complete" => manifest.status = "complete" \/ manifest.launchError
  /\ widget = "complete" => manifest.status = "complete" \/ manifest.launchError
  /\ monitor \in {"stale", "over"} => widget = NoWidget

ReviewInv == RunInv /\ MonitorInv

\* The initial state satisfies both.
LEMMA ReviewInitInv == ReviewInit => ReviewInv
<1> SUFFICES ASSUME ReviewInit PROVE ReviewInv
  OBVIOUS
<1> USE ReviewAssumption DEF ReviewInit, NewManifest, NothingSeen, NoWidget, NoResult, NoHolder
<1>1. manifest \in Manifests /\ read \in Manifests
  BY DEF Manifests
<1>2. ReviewTypes
  BY <1>1 DEF ReviewTypes
<1>3. LockIsHeld /\ LaunchesInOrder /\ FilesAreKept
  BY DEF LockIsHeld, LaunchesInOrder, FilesAreKept, RunWriting
<1>4. ManifestIsEarned
  BY DEF ManifestIsEarned
<1>5. MonitorInv
  BY DEF MonitorInv
<1> QED BY <1>2, <1>3, <1>4, <1>5 DEF ReviewInv, RunInv

\* Every step keeps them.
LEMMA ReviewStepInv == ReviewInv /\ [ReviewNext]_reviewVars => ReviewInv'
<1> SUFFICES ASSUME ReviewInv, [ReviewNext]_reviewVars PROVE ReviewInv'
  OBVIOUS
<1> USE DEF ReviewInv
<1>1. CASE RunNext /\ UNCHANGED monitorVars
  <2>1. RunInv' /\ (UNCHANGED manifest \/ CompleteKept)
    BY <1>1, RunStepIsOwn
  <2> QED BY <1>1, <2>1 DEF MonitorInv, CompleteKept, monitorVars
<1>2. CASE Refuse \/ CreateRun
  <2>1. RunInv'
    BY <1>2 DEF Refuse, CreateRun, runVars, RunInv, ReviewTypes, LockIsHeld, LaunchesInOrder,
                FilesAreKept, ManifestIsEarned, NotMarked
  <2> QED BY <1>2, <2>1 DEF Refuse, CreateRun, runVars, monitorVars, MonitorInv
<1>3. ASSUME handler' = handler, UNCHANGED runVars PROVE RunInv'
  BY <1>3 DEF runVars, RunInv, ReviewTypes, LockIsHeld, LaunchesInOrder, FilesAreKept,
              ManifestIsEarned, NotMarked
<1>4. CASE ReadProgress
  BY <1>3, <1>4 DEF ReadProgress, MonitorInv, runVars, NothingSeen
<1>5. CASE EndSession
  BY <1>3, <1>5 DEF EndSession, MonitorInv, runVars, NoWidget, NothingSeen
<1>6. CASE DropProgress
  BY <1>3, <1>6 DEF DropProgress, MonitorInv, runVars, NothingSeen
<1>7. ASSUME NEW readable \in BOOLEAN, ShowProgress(readable) PROVE ReviewInv'
  BY <1>3, <1>7 DEF ShowProgress, MonitorInv, runVars, NothingSeen
<1>8. CASE UNCHANGED reviewVars
  BY <1>3, <1>8 DEF reviewVars, MonitorInv, monitorVars, runVars
<1> QED BY <1>1, <1>2, <1>4, <1>5, <1>6, <1>7, <1>8 DEF ReviewNext

\* Every entry of run.json is its owner's: only a review's own process and the
\* consolidation's marking change it, and the run and the session call complete
\* only what is, for any set of reviewers.
THEOREM ReviewSoundness == ReviewSpec => ReviewsAreKept
<1>1. ReviewInv /\ [ReviewNext]_reviewVars => [EntriesHaveOwners /\ RunIsHonest']_reviewVars
  <2> SUFFICES ASSUME ReviewInv, ReviewNext PROVE EntriesHaveOwners /\ RunIsHonest'
    OBVIOUS
  <2>1. RunIsHonest'
    BY ReviewStepInv
    DEF ReviewInv, RunInv, MonitorInv, ManifestIsEarned, RunIsHonest, NotMarked
  <2>2. CASE RunNext
    BY <2>1, <2>2, RunStepIsOwn DEF ReviewInv
  <2>3. CASE ~RunNext
    <3>1. UNCHANGED manifest
      BY <2>3 DEF ReviewNext, Refuse, CreateRun, ReadProgress, EndSession, DropProgress,
                  ShowProgress, runVars
    <3> QED BY <2>1, <3>1 DEF EntriesHaveOwners
  <2> QED BY <2>1, <2>2, <2>3
<1> QED BY <1>1, ReviewInitInv, ReviewStepInv, PTL DEF ReviewSpec, ReviewsAreKept

\* What is not of the run itself: the lock, the monitor and what it shows.
ReviewBounds ==
  /\ lockedBy \in Reviewers \cup {NoHolder, Launcher, Consolidator}
  /\ monitor \in {"none", "on", "reading", "finished", "stale", "over"}
  /\ seen.status \in {"none", "complete", "partial"}
  /\ widget \in {NoWidget, "incomplete", "complete"}

\* Every step keeps the bounds.
LEMMA ReviewKeepsBounds == ReviewInv /\ ReviewBounds /\ [ReviewNext]_reviewVars => ReviewBounds'
<1> SUFFICES ASSUME ReviewInv, ReviewBounds, [ReviewNext]_reviewVars PROVE ReviewBounds'
  OBVIOUS
<1> USE DEF ReviewBounds
<1>1. ASSUME UNCHANGED monitorVars,
             lockedBy' \in {lockedBy, NoHolder, Launcher, Consolidator} \cup Reviewers
      PROVE  ReviewBounds'
  BY <1>1 DEF monitorVars
<1>2. CASE UNCHANGED monitorVars /\ RunNext
  <2>1. CASE OpenPanes \/ LaunchThrows \/ GivesUpRecording \/ EndWait \/ Consolidates
    BY <1>1, <1>2, <2>1 DEF OpenPanes, LaunchThrows, GivesUpRecording, EndWait, Consolidates
  <2>2. CASE RecordsLaunchError \/ RecordedLaunchError \/ LockForRun
    BY <1>1, <1>2, <2>2 DEF RecordsLaunchError, RecordedLaunchError, LockForRun, Locks, Writes
  <2>3. CASE WriteRun
    <3>1. lockedBy' = NoHolder
      BY <2>3 DEF WriteRun, Writes
    <3> QED BY <1>1, <1>2, <3>1
  <2>4. ASSUME NEW begun \in BOOLEAN, NEW ok \in BOOLEAN,
               \/ LaunchConsolidation(begun, ok)
               \/ \E r \in Reviewers : LaunchReviewer(r, begun, ok)
        PROVE  ReviewBounds'
    BY <1>1, <1>2, <2>4 DEF LaunchConsolidation, LaunchReviewer
  <2>5. ASSUME NEW r \in Reviewers,
               \/ WriteOff(r) \/ LockForReviewer(r) \/ RecordReviewer(r)
               \/ CaptureDies(r) \/ ReadStatus(r)
               \/ \E result \in ReviewResults : ReviewerEnds(r, result)
        PROVE  ReviewBounds'
    BY <1>1, <1>2, <2>5 DEF WriteOff, LockForReviewer, RecordReviewer, CaptureDies, ReadStatus,
                            ReviewerEnds, Locks, Writes
  <2> QED BY <1>2, <2>1, <2>2, <2>3, <2>4, <2>5 DEF RunNext
<1>3. CASE Refuse \/ CreateRun \/ UNCHANGED reviewVars
  BY <1>3 DEF Refuse, CreateRun, reviewVars, runVars, monitorVars
<1>4. CASE ReadProgress
  <2>1. seen'.status \in {"none", "complete", "partial"}
    BY <1>4 DEF ReadProgress, NothingSeen
  <2> QED BY <1>4, <2>1 DEF ReadProgress, runVars
<1>5. CASE EndSession \/ DropProgress
  BY <1>5 DEF EndSession, DropProgress, runVars, NoWidget, NothingSeen
<1>6. ASSUME NEW readable \in BOOLEAN, ShowProgress(readable) PROVE ReviewBounds'
  <2>1. monitor' \in {"on", "finished"} /\ seen'.status = "none" /\ lockedBy' = lockedBy
        /\ widget' \in {"incomplete", "complete"}
    BY <1>6 DEF ShowProgress, runVars, NothingSeen
  <2> QED BY <2>1
<1> QED BY <1>2, <1>3, <1>4, <1>5, <1>6 DEF ReviewNext

\* They hold at first, and give the types.
LEMMA ReviewBoundsGiveTypes ==
  (ReviewInit => ReviewBounds) /\ (ReviewInv /\ ReviewBounds => ReviewTypeOK)
<1>1. ReviewInit => ReviewBounds
  BY DEF ReviewInit, ReviewBounds, NothingSeen, NoWidget
<1>2. ASSUME ReviewInv, ReviewBounds PROVE ReviewTypeOK
  <2>1. ReviewTypes
    BY <1>2 DEF ReviewInv, RunInv
  <2>2. manifest.status \in {"running", "consolidating", "complete", "partial"}
        /\ manifest.reviewers \in [Reviewers -> ReviewResults \cup {NoResult}]
    BY <2>1 DEF ReviewTypes, Manifests
  <2> QED BY <1>2, <2>1, <2>2 DEF ReviewBounds, ReviewTypes, ReviewTypeOK
<1> QED BY <1>1, <1>2

(***************************************************************************)
(* SkillBlocking.  Blocking is off only where its user turned it off, and  *)
(* a command that is not refused writes a rule that no other file          *)
(* overrides.                                                              *)
(***************************************************************************)
BlockInv == BlockTypeOK /\ bypassing \subseteq asked

\* What a filter hides are skills.
LEMMA HiddenAreSkills ==
  ASSUME NEW user \in Filters, NEW project \in Filters
  PROVE  HiddenBy(Merged(user, project)) \subseteq Skills
<1> DEFINE rule == IF project.project.rule THEN project.project ELSE user.project
           on == Merged(user, project).enabled
<1>1. user.project \in Rules /\ project.project \in Rules
  BY DEF Filters
<1>2. rule \in Rules
  BY <1>1
<1>3. Merged(user, project).project = rule
  BY DEF Merged
<1> HIDE DEF rule
<1>4. ASSUME rule.rule PROVE rule.ignore \subseteq Skills
  <2>1. rule # NoRule
    BY <1>4 DEF NoRule
  <2> QED BY <1>2, <2>1 DEF Rules
<1> QED BY <1>3, <1>4 DEF HiddenBy

\* The rule that disables a skill is one a file can hold.
LEMMA IgnoringIsFilter ==
  ASSUME userFile \in Filters, NEW k \in Skills PROVE Ignoring(k) \in Filters
<1> DEFINE ignored == IF userFile.project.rule THEN userFile.project.ignore ELSE {}
           flag == IF userFile.enabled = "unset" THEN "on" ELSE userFile.enabled
           rule == [rule |-> TRUE, enabled |-> "on", skills |-> "on", ignore |-> ignored \cup {k}]
<1>1. userFile.project \in Rules /\ flag \in Flags
  BY DEF Filters, Flags
<1>2. ignored \subseteq Skills
  <2>1. ASSUME userFile.project.rule PROVE userFile.project.ignore \subseteq Skills
    <3>1. userFile.project # NoRule
      BY <2>1 DEF NoRule
    <3> QED BY <1>1, <3>1 DEF Rules
  <2> QED BY <2>1
<1>3. ignored \cup {k} \in SUBSET Skills
  BY <1>2
<1>4. rule \in Rules
  BY <1>3 DEF Rules
<1>5. Ignoring(k) = [enabled |-> flag, project |-> rule]
  BY DEF Ignoring
<1> HIDE DEF flag, rule
<1> QED BY <1>1, <1>4, <1>5 DEF Filters

\* A command that is not refused hides the skill, whatever both files say.
LEMMA DisablingHides ==
  ASSUME userFile \in Filters, projectFile \in Filters, NEW k \in Skills, ~Refuses(k)
  PROVE  k \in HiddenBy(Merged(IF projectFile.project.rule THEN userFile ELSE Ignoring(k),
                               projectFile))
<1>1. CASE projectFile.project.rule
  BY <1>1 DEF Refuses, HiddenBy, Merged
<1>2. CASE ~projectFile.project.rule
  <2>1. /\ Ignoring(k).project.rule /\ Ignoring(k).project.enabled = "on"
        /\ Ignoring(k).project.skills = "on" /\ k \in Ignoring(k).project.ignore
    BY DEF Ignoring
  <2>2. Ignoring(k).enabled = IF userFile.enabled = "unset" THEN "on" ELSE userFile.enabled
    BY DEF Ignoring
  <2>3. Merged(Ignoring(k), projectFile).enabled # "off"
    BY <2>2 DEF Refuses, Merged
  <2>4. Merged(Ignoring(k), projectFile).project = Ignoring(k).project
    BY <1>2 DEF Merged
  <2> QED BY <1>2, <2>1, <2>3, <2>4 DEF HiddenBy
<1> QED BY <1>1, <1>2

\* Every step keeps the invariant.
LEMMA BlockStepInv == BlockInv /\ [BlockNext]_blockVars => BlockInv'
<1> SUFFICES ASSUME BlockInv, [BlockNext]_blockVars PROVE BlockInv'
  OBVIOUS
<1> USE DEF BlockInv, BlockTypeOK
<1>1. DisabledNow \in SUBSET Skills
  BY HiddenAreSkills DEF DisabledNow
<1>2. CASE UNCHANGED blockVars
  BY <1>2 DEF blockVars
<1>3. ASSUME NEW s \in FilterSessions, NEW k \in Skills, DisableSkill(s, k) PROVE BlockInv'
  <2>1. userFile' \in Filters /\ projectFile' \in Filters
    BY <1>3, IgnoringIsFilter DEF DisableSkill
  <2>2. HiddenBy(Merged(userFile', projectFile)) \in SUBSET Skills
    BY <2>1, HiddenAreSkills
  <2> QED BY <1>3, <2>1, <2>2 DEF DisableSkill
<1>4. ASSUME NEW s \in FilterSessions, NEW enable \in {"on", "off"}, NEW ignore \in SUBSET Skills,
             AnswerConfig(s, enable, ignore)
      PROVE  BlockInv'
  <2> DEFINE rule == [rule |-> TRUE, enabled |-> enable, skills |-> "on", ignore |-> ignore]
             flag == IF userFile.enabled = "unset" THEN "on" ELSE userFile.enabled
  <2>1. rule \in Rules
    BY DEF Rules
  <2>2. flag \in Flags
    BY DEF Filters, Flags
  <2>3. userFile' = [enabled |-> flag, project |-> rule]
    BY <1>4 DEF AnswerConfig
  <2> HIDE DEF rule, flag
  <2>4. userFile' \in Filters /\ projectFile' \in Filters
    <3>1. [enabled |-> flag, project |-> rule] \in Filters
      BY <2>1, <2>2 DEF Filters
    <3>2. UNCHANGED projectFile
      BY <1>4 DEF AnswerConfig
    <3> QED BY <2>3, <3>1, <3>2
  <2>5. HiddenBy(Merged(userFile', projectFile)) \in SUBSET Skills
    BY <2>4, HiddenAreSkills
  <2> QED BY <1>4, <2>4, <2>5 DEF AnswerConfig
<1>5. ASSUME NEW s \in FilterSessions, OpenConfig(s) \/ CancelConfig(s) \/ StartFilterSession(s)
      PROVE  BlockInv'
  BY <1>1, <1>5 DEF OpenConfig, CancelConfig, StartFilterSession
<1>6. ASSUME NEW s \in FilterSessions, NEW off \in BOOLEAN, SwitchBlocking(s, off)
      PROVE  BlockInv'
  BY <1>6 DEF SwitchBlocking
<1>7. ASSUME NEW s \in FilterSessions, StartAgent(s) PROVE BlockInv'
  BY <1>7 DEF StartAgent
<1> QED BY <1>2, <1>3, <1>4, <1>5, <1>6, <1>7 DEF BlockNext

\* The initial state satisfies the invariant.
LEMMA BlockInitInv == BlockInit => BlockInv
<1> SUFFICES ASSUME BlockInit PROVE BlockInv
  OBVIOUS
<1>1. DisabledNow \in SUBSET Skills
  BY HiddenAreSkills DEF DisabledNow, BlockInit
<1> QED BY <1>1 DEF BlockInit, BlockInv, BlockTypeOK

\* An accepted "/skillz disable" takes effect in every session whose user did
\* not turn blocking off, with any combination of both settings files
\* (update-agent-skills.ts: disableProjectSkill).
THEOREM BlockSoundness == BlockSpec => DisableTakesEffect
<1> DEFINE Effect == \A s \in FilterSessions, k \in Skills :
       DisableSkill(s, k) =>
         /\ k \in hidden'[s]
         /\ \A o \in FilterSessions : Blocks(o, k)' \/ o \in asked
<1>1. BlockInv => Effect
  <2> SUFFICES ASSUME BlockInv, NEW s \in FilterSessions, NEW k \in Skills, DisableSkill(s, k)
               PROVE  /\ k \in hidden'[s]
                      /\ \A o \in FilterSessions : Blocks(o, k)' \/ o \in asked
    OBVIOUS
  <2>1. k \in HiddenBy(Merged(userFile', projectFile))
    BY DisablingHides DEF DisableSkill, BlockInv, BlockTypeOK
  <2>2. k \in hidden'[s]
    BY <2>1 DEF DisableSkill, BlockInv, BlockTypeOK
  <2>3. k \in DisabledNow'
    BY <2>1 DEF DisableSkill, DisabledNow
  <2>4. bypassing' \subseteq asked
    BY DEF DisableSkill, BlockInv
  <2> QED BY <2>2, <2>3, <2>4 DEF Blocks
<1>2. DisableTakesEffect <=> [][Effect]_blockVars
  BY DEF DisableTakesEffect
<1> HIDE DEF Effect
<1> QED BY BlockInitInv, BlockStepInv, <1>1, <1>2, PTL DEF BlockSpec

(***************************************************************************)
(* SkillUpkeep.  What a run is about to pin was accepted, what it is about *)
(* to report was pinned, and neither is ever taken back.                   *)
(***************************************************************************)
UpkeepRuns ==
  [at : {"none", "checking", "asking", "pinning", "syncing"}, asks : BOOLEAN,
   left : SUBSET Managed, failed : BOOLEAN, seen : [Managed -> Versions],
   updates : SUBSET Updates]

UpkeepInv ==
  /\ upkeep \in [Upkeepers -> UpkeepRuns]
  /\ skillManifest \in [Managed -> [version : Versions, enabled : BOOLEAN]]
  /\ newest \in [Managed -> Versions]
  /\ \A u \in Upkeepers :
       /\ upkeep[u].at = "pinning" => upkeep[u].updates \subseteq accepted
       /\ upkeep[u].at = "syncing" => upkeep[u].updates \subseteq pinned
  /\ reported \subseteq pinned /\ pinned \subseteq accepted /\ accepted \subseteq Updates

\* One run becomes r; what was accepted, pinned and reported only grows.
LEMMA RunKeepsUpkeepInv ==
  ASSUME UpkeepInv, NEW u \in Upkeepers, NEW r \in UpkeepRuns,
         upkeep' = [upkeep EXCEPT ![u] = r],
         skillManifest' \in [Managed -> [version : Versions, enabled : BOOLEAN]],
         newest' \in [Managed -> Versions],
         accepted \subseteq accepted', pinned \subseteq pinned',
         r.at = "pinning" => r.updates \subseteq accepted',
         r.at = "syncing" => r.updates \subseteq pinned',
         reported' \subseteq pinned', pinned' \subseteq accepted', accepted' \subseteq Updates
  PROVE  UpkeepInv'
<1>1. upkeep' \in [Upkeepers -> UpkeepRuns]
  BY DEF UpkeepInv
<1>2. \A v \in Upkeepers : upkeep'[v] = IF v = u THEN r ELSE upkeep[v]
  BY DEF UpkeepInv
<1>3. \A v \in Upkeepers :
       /\ upkeep'[v].at = "pinning" => upkeep'[v].updates \subseteq accepted'
       /\ upkeep'[v].at = "syncing" => upkeep'[v].updates \subseteq pinned'
  BY <1>2 DEF UpkeepInv
<1> QED BY <1>1, <1>3 DEF UpkeepInv

\* An idle run is a run.
LEMMA NoUpkeepIsRun == NoUpkeep \in UpkeepRuns /\ NoUpkeep.at = "none" /\ NoUpkeep.updates = {}
  BY UpkeepAssumption DEF NoUpkeep, UpkeepRuns, Versions

\* The script's pins leave a manifest of versions.
LEMMA PinsAreVersions ==
  ASSUME UpkeepInv, NEW written \in SUBSET Updates, WritePins(written)
  PROVE  skillManifest' \in [Managed -> [version : Versions, enabled : BOOLEAN]]
<1> DEFINE row(s) == IF \E p \in written : p.skill = s
                     THEN [skillManifest[s] EXCEPT
                             !.version = (CHOOSE p \in written : p.skill = s).to]
                     ELSE skillManifest[s]
<1>1. ASSUME NEW s \in Managed PROVE row(s) \in [version : Versions, enabled : BOOLEAN]
  <2>1. skillManifest[s] \in [version : Versions, enabled : BOOLEAN]
    BY DEF UpkeepInv
  <2>2. CASE \E p \in written : p.skill = s
    <3> DEFINE chosen == CHOOSE p \in written : p.skill = s
    <3>1. chosen \in Updates
      BY <2>2
    <3>2. chosen.to \in Versions
      BY <3>1 DEF Updates
    <3> HIDE DEF chosen
    <3>3. [skillManifest[s] EXCEPT !.version = chosen.to]
                \in [version : Versions, enabled : BOOLEAN]
      BY <2>1, <3>2
    <3> QED BY <2>2, <3>3 DEF chosen
  <2>3. CASE ~\E p \in written : p.skill = s
    BY <2>1, <2>3
  <2> QED BY <2>2, <2>3
<1>2. skillManifest' = [s \in Managed |-> row(s)]
  BY DEF WritePins
<1> HIDE DEF row
<1> QED BY <1>1, <1>2

\* Every step keeps the invariant.
LEMMA UpkeepStepInv == UpkeepInv /\ [UpkeepNext]_upkeepVars => UpkeepInv'
<1> SUFFICES ASSUME UpkeepInv, [UpkeepNext]_upkeepVars PROVE UpkeepInv'
  OBVIOUS
<1>0. /\ \A u \in Upkeepers : upkeep[u] \in UpkeepRuns
      /\ skillManifest \in [Managed -> [version : Versions, enabled : BOOLEAN]]
      /\ newest \in [Managed -> Versions]
      /\ reported \subseteq pinned /\ pinned \subseteq accepted /\ accepted \subseteq Updates
  BY DEF UpkeepInv
<1>1. ASSUME NEW u \in Upkeepers, NEW question \in BOOLEAN, StartCheck(u, question)
      PROVE  UpkeepInv'
  <2> DEFINE r == [NoUpkeep EXCEPT
                     !.at = "checking", !.asks = question,
                     !.left = {s \in Managed : skillManifest[s].enabled},
                     !.seen = [s \in Managed |-> skillManifest[s].version]]
  <2>1. [s \in Managed |-> skillManifest[s].version] \in [Managed -> Versions]
    BY <1>0
  <2>2. r \in UpkeepRuns /\ r.at = "checking"
    BY <2>1, NoUpkeepIsRun DEF UpkeepRuns
  <2>3. /\ upkeep' = [upkeep EXCEPT ![u] = r]
        /\ UNCHANGED <<skillManifest, newest, accepted, pinned, reported>>
    BY <1>1 DEF StartCheck
  <2> HIDE DEF r
  <2> QED BY <1>0, <2>2, <2>3, RunKeepsUpkeepInv
<1>2. ASSUME NEW u \in Upkeepers, NEW s \in Managed, NEW ok \in BOOLEAN, SourceAnswers(u, s, ok)
      PROVE  UpkeepInv'
  <2> DEFINE old == upkeep[u]
             more == IF ok /\ newest[s] # old.seen[s]
                     THEN old.updates \cup {[skill |-> s, to |-> newest[s]]} ELSE old.updates
             r == [old EXCEPT !.left = @ \ {s}, !.failed = @ \/ ~ok, !.updates = more]
  <2>1. old \in UpkeepRuns /\ more \in SUBSET Updates
    BY <1>0 DEF UpkeepRuns, Updates
  <2>2. (old.failed \/ ~ok) \in BOOLEAN
    OBVIOUS
  <2>3. /\ upkeep' = [upkeep EXCEPT ![u] = r] /\ old.at = "checking"
        /\ UNCHANGED <<skillManifest, newest, accepted, pinned, reported>>
    BY <1>2 DEF SourceAnswers
  <2> HIDE DEF old, more
  <2>4. r \in UpkeepRuns /\ r.at = old.at
    BY <2>1, <2>2 DEF UpkeepRuns
  <2> HIDE DEF r
  <2> QED BY <1>0, <2>3, <2>4, RunKeepsUpkeepInv
<1>3. ASSUME NEW u \in Upkeepers, NoMore(u),
             skillManifest' \in [Managed -> [version : Versions, enabled : BOOLEAN]],
             UNCHANGED newest, accepted \subseteq accepted', pinned \subseteq pinned',
             reported' \subseteq pinned', pinned' \subseteq accepted', accepted' \subseteq Updates
      PROVE  UpkeepInv'
  BY <1>0, <1>3, NoUpkeepIsRun, RunKeepsUpkeepInv DEF NoMore
<1>4. ASSUME NEW u \in Upkeepers, Checked(u) PROVE UpkeepInv'
  <2>1. UNCHANGED <<skillManifest, newest, accepted, pinned, reported>>
    BY <1>4 DEF Checked
  <2>2. CASE NoMore(u)
    BY <1>0, <1>3, <2>1, <2>2
  <2>3. CASE ~NoMore(u)
    <3> DEFINE r == [upkeep[u] EXCEPT !.at = "asking", !.seen = NoUpkeep.seen]
    <3>1. upkeep' = [upkeep EXCEPT ![u] = r]
      BY <1>4, <2>3 DEF Checked
    <3>2. NoUpkeep.seen \in [Managed -> Versions]
      BY UpkeepAssumption DEF NoUpkeep, Versions
    <3>3. r \in UpkeepRuns /\ r.at = "asking"
      BY <1>0, <3>2 DEF UpkeepRuns
    <3> HIDE DEF r
    <3> QED BY <1>0, <2>1, <3>1, <3>3, RunKeepsUpkeepInv
  <2> QED BY <2>2, <2>3
<1>5. ASSUME NEW u \in Upkeepers, NEW chosen \in SUBSET upkeep[u].updates, Choose(u, chosen)
      PROVE  UpkeepInv'
  <2>1. /\ UNCHANGED <<skillManifest, newest, pinned, reported>>
        /\ accepted' = accepted \cup chosen
    BY <1>5 DEF Choose
  <2>2. chosen \subseteq Updates
    BY <1>0 DEF UpkeepRuns
  <2>3. CASE chosen = {}
    BY <1>0, <1>3, <1>5, <2>1, <2>3 DEF Choose
  <2>4. CASE chosen # {}
    <3> DEFINE r == [upkeep[u] EXCEPT !.at = "pinning", !.updates = chosen]
    <3>1. upkeep' = [upkeep EXCEPT ![u] = r]
      BY <1>5, <2>4 DEF Choose
    <3>2. r \in UpkeepRuns /\ r.at = "pinning" /\ r.updates = chosen
      BY <1>0, <2>2 DEF UpkeepRuns
    <3> HIDE DEF r
    <3> QED BY <1>0, <2>1, <2>2, <3>1, <3>2, RunKeepsUpkeepInv
  <2> QED BY <2>3, <2>4
<1>6. ASSUME NEW u \in Upkeepers, NEW written \in SUBSET upkeep[u].updates, NEW ok \in BOOLEAN,
             Pin(u, written, ok)
      PROVE  UpkeepInv'
  <2>1. /\ UNCHANGED <<newest, accepted, reported>> /\ WritePins(written)
        /\ pinned' = pinned \cup written /\ upkeep[u].at = "pinning"
        /\ ok => written = upkeep[u].updates
    BY <1>6 DEF Pin, WritePins
  <2>2. written \subseteq Updates /\ written \subseteq accepted
    BY <1>0, <2>1 DEF UpkeepRuns, UpkeepInv
  <2>3. skillManifest' \in [Managed -> [version : Versions, enabled : BOOLEAN]]
    BY <2>1, <2>2, PinsAreVersions
  <2>4. CASE ~ok
    <3>1. NoMore(u)
      BY <1>6, <2>4 DEF Pin
    <3> QED BY <1>0, <1>3, <2>1, <2>2, <2>3, <3>1
  <2>5. CASE ok
    <3> DEFINE r == [upkeep[u] EXCEPT !.at = "syncing"]
    <3>1. upkeep' = [upkeep EXCEPT ![u] = r]
      BY <1>6, <2>5 DEF Pin
    <3>2. r \in UpkeepRuns /\ r.at = "syncing" /\ r.updates = written
      BY <1>0, <2>1, <2>5 DEF UpkeepRuns
    <3> HIDE DEF r
    <3> QED BY <1>0, <2>1, <2>2, <2>3, <3>1, <3>2, RunKeepsUpkeepInv
  <2> QED BY <2>4, <2>5
<1>7. ASSUME NEW u \in Upkeepers, StartSync(u) PROVE UpkeepInv'
  <2> DEFINE r == [NoUpkeep EXCEPT !.at = "syncing"]
  <2>1. /\ upkeep' = [upkeep EXCEPT ![u] = r]
        /\ UNCHANGED <<skillManifest, newest, accepted, pinned, reported>>
    BY <1>7 DEF StartSync
  <2>2. r \in UpkeepRuns /\ r.at = "syncing" /\ r.updates = {}
    BY NoUpkeepIsRun DEF UpkeepRuns
  <2> HIDE DEF r
  <2> QED BY <1>0, <2>1, <2>2, RunKeepsUpkeepInv
<1>8. ASSUME NEW u \in Upkeepers, Synced(u) PROVE UpkeepInv'
  <2>1. /\ NoMore(u) /\ UNCHANGED <<skillManifest, newest, accepted, pinned>>
        /\ reported' = reported \cup upkeep[u].updates /\ upkeep[u].at = "syncing"
    BY <1>8 DEF Synced
  <2>2. upkeep[u].updates \subseteq pinned
    BY <2>1 DEF UpkeepInv
  <2> QED BY <1>0, <1>3, <2>1, <2>2
<1>9. ASSUME NEW s \in Managed, Publish(s) PROVE UpkeepInv'
  <2>1. /\ newest' = [newest EXCEPT ![s] = @ + 1] /\ newest[s] < MaxVersion
        /\ UNCHANGED <<skillManifest, upkeep, accepted, pinned, reported>>
    BY <1>9 DEF Publish
  <2>2. newest' \in [Managed -> Versions]
    BY <1>0, <2>1, UpkeepAssumption DEF Versions
  <2> QED BY <2>1, <2>2 DEF UpkeepInv
<1>10. ASSUME NEW s \in Managed, NEW v \in Versions, NEW enable \in BOOLEAN, Edit(s, v, enable)
      PROVE  UpkeepInv'
  <2>1. /\ skillManifest' = [skillManifest EXCEPT ![s] = [version |-> v, enabled |-> enable]]
        /\ UNCHANGED <<newest, upkeep, accepted, pinned, reported>>
    BY <1>10 DEF Edit
  <2>2. skillManifest' \in [Managed -> [version : Versions, enabled : BOOLEAN]]
    BY <1>0, <2>1
  <2> QED BY <2>1, <2>2 DEF UpkeepInv
<1>11. CASE UNCHANGED upkeepVars
  BY <1>11 DEF upkeepVars, UpkeepInv
<1> QED BY <1>1, <1>2, <1>4, <1>5, <1>6, <1>7, <1>8, <1>9, <1>10, <1>11 DEF UpkeepNext

\* The initial state satisfies the invariant.
LEMMA UpkeepInitInv == UpkeepInit => UpkeepInv
<1>1. 1 \in Versions
  BY UpkeepAssumption DEF Versions
<1> QED BY <1>1, NoUpkeepIsRun DEF UpkeepInit, UpkeepInv

\* The invariant says both of it.
LEMMA UpkeepInvIsSound == UpkeepInv => ReportIsEarned /\ UpkeepTypeOK
BY DEF UpkeepInv, UpkeepRuns, ReportIsEarned, UpkeepTypeOK

\* Nothing is pinned that no human accepted and nothing reported that was not
\* pinned, for any number of skills, versions and sessions
\* (update-agent-skills.ts: the outcome checked before the sync).
THEOREM UpkeepSoundness == UpkeepSpec => [](ReportIsEarned /\ UpkeepTypeOK)
<1> QED BY UpkeepInitInv, UpkeepStepInv, UpkeepInvIsSound, PTL DEF UpkeepSpec

(***************************************************************************)
(* The parts together, as MCSessionParts checks them: whichever part       *)
(* moves, its own invariant and bounds hold, and so do its types.          *)
(***************************************************************************)
PartsInv ==
  /\ part \in Parts
  /\ part = "startup" => StartInv
  /\ part = "link" => LinkInv /\ LinkBounds
  /\ part = "reading" => ReadInv /\ ReadBounds
  /\ part = "navigation" => NavInv /\ NavBounds
  /\ part = "safety" => GateInv /\ GateBounds
  /\ part = "form" => FormInv /\ FormTypeOK
  /\ part = "subagents" => PoolInv /\ PoolBounds
  /\ part = "compaction" => CompactTypeOK
  /\ part = "todos" => TodosTypeOK
  /\ part = "evaluation" => EvalInv /\ EvalBounds
  /\ part = "evidence" => EvidenceInv /\ EvidenceBounds
  /\ part = "usage" => UsageInv /\ UsageBounds
  /\ part = "limits" => LimitsInv /\ LimitsBounds
  /\ part = "fast" => FastInv /\ FastBounds
  /\ part = "review" => ReviewInv /\ ReviewBounds
  /\ part = "blocking" => BlockInv
  /\ part = "upkeep" => UpkeepInv

\* Every part starts with its invariant and its bounds.
LEMMA PartsInitInv == Init => PartsInv
<1> SUFFICES ASSUME Init PROVE PartsInv
  OBVIOUS
<1>1. part \in Parts /\ StartupInit /\ LinkInit /\ ReadingInit /\ NavInit /\ SafetyInit /\ FormInit
      /\ PoolInit /\ CompactInit /\ TodosInit /\ EvalInit /\ EvidenceInit /\ UsageInit
      /\ LimitsInit /\ FastInit /\ ReviewInit /\ BlockInit /\ UpkeepInit
  BY DEF Init
<1>2. StartInv /\ LinkInv /\ LinkBounds /\ ReadInv /\ ReadBounds /\ NavInv /\ NavBounds
  BY <1>1, InitStartInv, InitLinkInv, LinkBoundsGiveTypes, ReadInitInv, ReadBoundsGiveTypes,
     NavInitInv, NavBoundsGiveTypes
<1>3. GateInv /\ GateBounds /\ FormInv /\ FormTypeOK /\ PoolInv /\ PoolBounds /\ CompactTypeOK
  BY <1>1, GateInitInv, GateBoundsGiveTypes, InitIsForm, FormTypesInit, PoolInitInv,
     PoolBoundsGiveTypes, CompactTypesStep
<1>4. TodosTypeOK /\ EvalInv /\ EvalBounds /\ EvidenceInv /\ EvidenceBounds /\ UsageInv
      /\ UsageBounds
  BY <1>1, TodosTypesStep, EvalInitInv, EvalBoundsGiveTypes, EvidenceInitInv,
     EvidenceBoundsGiveTypes, InitIsSound, UsageBoundsGiveTypes
<1>5. LimitsInv /\ LimitsBounds /\ FastInv /\ FastBounds /\ ReviewInv /\ ReviewBounds /\ BlockInv
      /\ UpkeepInv
  BY <1>1, LimitsInitInv, LimitsBoundsGiveTypes, FastInitInv, FastKeepsBounds, ReviewInitInv,
     ReviewBoundsGiveTypes, BlockInitInv, UpkeepInitInv
<1> QED BY <1>1, <1>2, <1>3, <1>4, <1>5 DEF PartsInv

\* A step of the part that moves keeps its invariant and its bounds.
LEMMA PartsStepInv == PartsInv /\ [Next]_vars => PartsInv'
<1> SUFFICES ASSUME PartsInv, [Next]_vars PROVE PartsInv'
  OBVIOUS
<1> USE DEF PartsInv
<1>0. part' = part
  BY DEF Next, Only, vars
<1>1. CASE part = "startup"
  <2>1. [StartupNext]_startupVars
    BY <1>1 DEF Next, Only, vars
  <2> QED BY <1>0, <1>1, <2>1, StepKeepsStartInv, StutterKeepsStartInv
<1>2. CASE part = "link"
  <2>1. [LinkNext]_linkVars
    BY <1>2 DEF Next, Only, vars
  <2> QED BY <1>0, <1>2, <2>1, StepKeepsLinkInv, StutterKeepsLinkInv, LinkKeepsBounds
<1>3. CASE part = "reading"
  <2>1. [ReadingNext]_readVars
    BY <1>3 DEF Next, Only, vars
  <2> QED BY <1>0, <1>3, <2>1, ReadStepInv, ReadKeepsBounds
<1>4. CASE part = "navigation"
  <2>1. [NavNext]_navVars
    BY <1>4 DEF Next, Only, vars
  <2> QED BY <1>0, <1>4, <2>1, NavStepInv, NavKeepsBounds
<1>5. CASE part = "safety"
  <2>1. [SafetyNext]_safetyVars
    BY <1>5 DEF Next, Only, vars
  <2> QED BY <1>0, <1>5, <2>1, GateStepInv, GateKeepsBounds
<1>6. CASE part = "form"
  <2>1. [FormNext]_formVars
    BY <1>6 DEF Next, Only, vars
  <2> QED BY <1>0, <1>6, <2>1, StepKeepsForm, FormKeepsTypes
<1>7. CASE part = "subagents"
  <2>1. [PoolNext]_poolVars
    BY <1>7 DEF Next, Only, vars
  <2> QED BY <1>0, <1>7, <2>1, PoolStepInv, PoolKeepsBounds
<1>8. CASE part = "compaction"
  <2>1. [CompactNext]_compactVars
    BY <1>8 DEF Next, Only, vars
  <2> QED BY <1>0, <1>8, <2>1, CompactTypesStep
<1>9. CASE part = "todos"
  <2>1. [TodosNext]_todoVars
    BY <1>9 DEF Next, Only, vars
  <2> QED BY <1>0, <1>9, <2>1, TodosTypesStep
<1>10. CASE part = "evaluation"
  <2>1. [EvalNext]_evalVars
    BY <1>10 DEF Next, Only, vars
  <2> QED BY <1>0, <1>10, <2>1, EvalStepInv, EvalKeepsBounds
<1>11. CASE part = "evidence"
  <2>1. [EvidenceNext]_evidenceVars
    BY <1>11 DEF Next, Only, vars
  <2> QED BY <1>0, <1>11, <2>1, EvidenceStepInv, EvidenceKeepsBounds
<1>12. CASE part = "usage"
  <2>1. [UsageNext]_usageVars
    BY <1>12 DEF Next, Only, vars
  <2> QED BY <1>0, <1>12, <2>1, StepKeepsUsage, UsageKeepsBounds
<1>13. CASE part = "limits"
  <2>1. [LimitsNext]_limitVars
    BY <1>13 DEF Next, Only, vars
  <2> QED BY <1>0, <1>13, <2>1, LimitsStepInv, LimitsKeepBounds
<1>14. CASE part = "fast"
  <2>1. [FastNext]_fastVars
    BY <1>14 DEF Next, Only, vars
  <2> QED BY <1>0, <1>14, <2>1, FastStepInv, FastKeepsBounds
<1>15. CASE part = "review"
  <2>1. [ReviewNext]_reviewVars
    BY <1>15 DEF Next, Only, vars
  <2> QED BY <1>0, <1>15, <2>1, ReviewStepInv, ReviewKeepsBounds
<1>16. CASE part = "blocking"
  <2>1. [BlockNext]_blockVars
    BY <1>16 DEF Next, Only, vars
  <2> QED BY <1>0, <1>16, <2>1, BlockStepInv
<1>17. CASE part = "upkeep"
  <2>1. [UpkeepNext]_upkeepVars
    BY <1>17 DEF Next, Only, vars
  <2> QED BY <1>0, <1>17, <2>1, UpkeepStepInv
<1> QED BY <1>1, <1>2, <1>3, <1>4, <1>5, <1>6, <1>7, <1>8, <1>9, <1>10, <1>11, <1>12, <1>13,
           <1>14, <1>15, <1>16, <1>17 DEF Parts

\* Whichever part of a session moves keeps its types, whatever its steps.
THEOREM PartsTypes == Spec => []TypesOK
<1>1. PartsInv => TypesOK
  <2> SUFFICES ASSUME PartsInv PROVE TypesOK
    OBVIOUS
  <2> USE DEF PartsInv
  <2>1. part = "startup" => StartupTypeOK
    BY DEF StartInv
  <2>2. /\ part = "link" => LinkTypeOK
        /\ part = "reading" => ReadingTypeOK
        /\ part = "navigation" => NavTypeOK
        /\ part = "safety" => SafetyTypeOK
        /\ part = "form" => FormTypeOK
    BY LinkBoundsGiveTypes, ReadBoundsGiveTypes, NavBoundsGiveTypes, GateBoundsGiveTypes
  <2>3. /\ part = "subagents" => PoolTypeOK
        /\ part = "compaction" => CompactTypeOK
        /\ part = "todos" => TodosTypeOK
        /\ part = "evaluation" => EvalTypeOK
        /\ part = "evidence" => EvidenceTypeOK
        /\ part = "usage" => UsageTypeOK
    BY PoolBoundsGiveTypes, EvalBoundsGiveTypes, EvidenceBoundsGiveTypes, UsageBoundsGiveTypes
  <2>4. /\ part = "limits" => LimitsTypeOK
        /\ part = "fast" => FastTypeOK
        /\ part = "review" => ReviewTypeOK
    BY LimitsBoundsGiveTypes, FastKeepsBounds, ReviewBoundsGiveTypes
  <2>5. part = "blocking" => BlockTypeOK
    BY DEF BlockInv
  <2>6. part = "upkeep" => UpkeepTypeOK
    BY UpkeepInvIsSound
  <2> QED BY <2>1, <2>2, <2>3, <2>4, <2>5, <2>6 DEF TypesOK
<1> QED BY <1>1, PartsInitInv, PartsStepInv, PTL DEF Spec

=============================================================================
