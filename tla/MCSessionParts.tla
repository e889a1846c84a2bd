---------------------------- MODULE MCSessionParts ----------------------------
(***************************************************************************)
(* The parts of a session that share no state, checked in one run: which   *)
(* of them moves is chosen once, and the others keep an initial state.     *)
(***************************************************************************)
EXTENDS BrokerStartup, SessionLink, TeamReading, TeamNavigation, SafetyGate,
        QuestionForm, SubagentPool, AutoCompact, Todos, EvalRun, EvalEvidence,
        UsageCapture, CodexLimits, FastMode, SkillReview, SkillBlocking, SkillUpkeep, TLC

VARIABLE part   \* the one that moves

Parts == {"startup", "link", "reading", "navigation", "safety", "form", "subagents", "compaction", "todos", "evaluation", "evidence", "usage", "limits", "fast", "review", "blocking", "upkeep"}

Init ==
    /\ part \in Parts
    /\ StartupInit
    /\ LinkInit
    /\ ReadingInit /\ (part # "reading" => query = [thread |-> InboxQuery, history |-> FALSE, cursor |-> 0, limit |-> PageLimit])
    /\ NavInit
    /\ SafetyInit
    /\ FormInit /\ (part # "form" => form = CHOOSE f \in Forms : f.plain)
    /\ PoolInit
    /\ CompactInit /\ (part # "compaction" => settingsFile = "on")
    /\ TodosInit
    /\ EvalInit /\ (part # "evaluation" => onTimeout = "stop" /\ dialogs = "interactive")
    /\ EvidenceInit
    /\ UsageInit
    /\ LimitsInit
    /\ FastInit /\ (part # "fast" => model \in SlowModels /\ provider = "native")
    /\ ReviewInit
    /\ BlockInit /\ (part # "blocking" =>
                      userFile = projectFile /\ userFile = CHOOSE f \in Filters : TRUE)
    /\ UpkeepInit

\* Every part but p stays as it is.
Only(p) ==
    /\ part = p /\ UNCHANGED part
    /\ IF p = "startup" THEN TRUE ELSE UNCHANGED startupVars
    /\ IF p = "link" THEN TRUE ELSE UNCHANGED linkVars
    /\ IF p = "reading" THEN TRUE ELSE UNCHANGED readVars
    /\ IF p = "navigation" THEN TRUE ELSE UNCHANGED navVars
    /\ IF p = "safety" THEN TRUE ELSE UNCHANGED safetyVars
    /\ IF p = "form" THEN TRUE ELSE UNCHANGED formVars
    /\ IF p = "subagents" THEN TRUE ELSE UNCHANGED poolVars
    /\ IF p = "compaction" THEN TRUE ELSE UNCHANGED compactVars
    /\ IF p = "todos" THEN TRUE ELSE UNCHANGED todoVars
    /\ IF p = "evaluation" THEN TRUE ELSE UNCHANGED evalVars
    /\ IF p = "evidence" THEN TRUE ELSE UNCHANGED evidenceVars
    /\ IF p = "usage" THEN TRUE ELSE UNCHANGED usageVars
    /\ IF p = "limits" THEN TRUE ELSE UNCHANGED limitVars
    /\ IF p = "fast" THEN TRUE ELSE UNCHANGED fastVars
    /\ IF p = "review" THEN TRUE ELSE UNCHANGED reviewVars
    /\ IF p = "blocking" THEN TRUE ELSE UNCHANGED blockVars
    /\ IF p = "upkeep" THEN TRUE ELSE UNCHANGED upkeepVars

Next ==
    \/ Only("startup") /\ StartupNext
    \/ Only("link") /\ LinkNext
    \/ Only("reading") /\ ReadingNext
    \/ Only("navigation") /\ NavNext
    \/ Only("safety") /\ SafetyNext
    \/ Only("form") /\ FormNext
    \/ Only("subagents") /\ PoolNext
    \/ Only("compaction") /\ CompactNext
    \/ Only("todos") /\ TodosNext
    \/ Only("evaluation") /\ EvalNext
    \/ Only("evidence") /\ EvidenceNext
    \/ Only("usage") /\ UsageNext
    \/ Only("limits") /\ LimitsNext
    \/ Only("fast") /\ FastNext
    \/ Only("review") /\ ReviewNext
    \/ Only("blocking") /\ BlockNext
    \/ Only("upkeep") /\ UpkeepNext

MCForms ==
    LET question(n, marked, multiple, other) ==
            [options |-> n, marked |-> marked, multiple |-> multiple, allowOther |-> other] IN
    {[plain |-> FALSE, questions |-> <<question(2, {1, 2}, FALSE, TRUE), question(2, {2}, TRUE, TRUE)>>],
     [plain |-> FALSE, questions |-> <<question(0, {}, FALSE, TRUE), question(1, {}, FALSE, FALSE)>>],
     [plain |-> FALSE, questions |-> <<question(0, {}, TRUE, FALSE)>>],
     [plain |-> TRUE, questions |-> <<question(3, {2}, TRUE, FALSE)>>],
     [plain |-> TRUE, questions |-> <<question(2, {2}, FALSE, FALSE)>>]}

vars == <<part, startupVars, linkVars, readVars, navVars, safetyVars, formVars, poolVars, compactVars, todoVars, evalVars, evidenceVars, usageVars, limitVars, fastVars, reviewVars, blockVars, upkeepVars>>

Spec == Init /\ [][Next]_vars

TypesOK ==
    /\ part = "startup" => StartupTypeOK
    /\ part = "link" => LinkTypeOK
    /\ part = "reading" => ReadingTypeOK
    /\ part = "navigation" => NavTypeOK
    /\ part = "safety" => SafetyTypeOK
    /\ part = "form" => FormTypeOK
    /\ part = "subagents" => PoolTypeOK
    /\ part = "compaction" => CompactTypeOK
    /\ part = "todos" => TodosTypeOK
    /\ part = "evaluation" => EvalTypeOK
    /\ part = "evidence" => EvidenceTypeOK
    /\ part = "usage" => UsageTypeOK
    /\ part = "limits" => LimitsTypeOK
    /\ part = "fast" => FastTypeOK
    /\ part = "review" => ReviewTypeOK
    /\ part = "blocking" => BlockTypeOK
    /\ part = "upkeep" => UpkeepTypeOK

\* The values of these constants are alike in the one part they belong to.  One
\* exchange of all pairs at a time is enough, since one part moves.
Exchange(pair, do) == CHOOSE p \in Permutations(pair) : \A x \in pair : do <=> p[x] # x
PairsAlike ==
    {Exchange(Starters, do) @@ Exchange(Homes, do) @@ Exchange(NavRooms, do)
       @@ Exchange(Calls, do) @@ Exchange(CommandKeys, do) @@ Exchange(Summaries, do)
       @@ Exchange(UsageEntries, do) @@ Exchange(UsageTags, do) @@ Exchange(Askers, do)
       @@ Exchange(FastModels, do) @@ Exchange(FilterSessions, do)
       @@ Exchange(Reviewers, do) : do \in BOOLEAN}

\* The monitor of a review changes nothing but what is shown.  A poll of a run that
\* has not ended shows "incomplete" whatever it read, and nothing is shown after
\* the session: neither is followed further.
MonitorMatters == monitor # "over" /\ (monitor = "reading" => seen # NothingSeen)

=============================================================================
