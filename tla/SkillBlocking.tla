------------------------------ MODULE SkillBlocking ------------------------------
(***************************************************************************)
(* Project skills hidden from the model and guarded against use            *)
(* (src/shared/context-filter-config.ts, skill-blocking-session.ts,        *)
(* disabled-skill-access.ts; extensions/productivity/context.ts and        *)
(* /skillz disable and session of extensions/skills/update-agent-skills.ts)*)
(* One project: its rule in the user's settings.json, shared by every      *)
(* session and process, and its rule in .pi/settings.json of the working   *)
(* directory, which wins.  Context files are filtered the same way and are *)
(* left out.                                                               *)
(***************************************************************************)
EXTENDS Naturals, FiniteSets

CONSTANTS Skills,           \* project-local skills the session has loaded
          FilterSessions    \* sessions of this user in the project

ASSUME BlockingAssumption == Skills # {} /\ FilterSessions # {}

VARIABLES userFile,     \* contextFileFilter of the user's settings.json
          projectFile,  \* contextFileFilter of .pi/settings.json
          hidden,       \* skills the cached rule state of a session hides
          bypassing,    \* sessions with blocking off
          asked,        \* history: sessions whose user turned blocking off since they started
          configuring,  \* sessions whose /context project config questionnaire is open
          inPrompt         \* skills in the prompt of the last agent run of a session

blockVars == <<userFile, projectFile, hidden, bypassing, asked, configuring, inPrompt>>

Flags == {"unset", "on", "off"}
NoRule == [rule |-> FALSE]
\* A rule is taken whole from one file, and a flag it leaves unset counts as on.
Rules == {NoRule} \cup
  [rule : {TRUE}, enabled : {"on", "off"}, skills : {"on", "off"}, ignore : SUBSET Skills]
Filters == [enabled : Flags, project : Rules]

\* mergeConfig: a flag or rule of the project's file replaces the user's.
Merged(user, project) ==
  [enabled |-> IF project.enabled = "unset" THEN user.enabled ELSE project.enabled,
   project |-> IF project.project.rule THEN project.project ELSE user.project]

\* getDisabledProjectSkills and resolveState: what a filter hides.
HiddenBy(filter) ==
  IF filter.enabled # "off" /\ filter.project.rule
       /\ filter.project.enabled # "off" /\ filter.project.skills # "off"
  THEN filter.project.ignore ELSE {}

DisabledNow == HiddenBy(Merged(userFile, projectFile))

BlockInit ==
  /\ userFile \in Filters /\ projectFile \in Filters
  /\ hidden = [s \in FilterSessions |-> DisabledNow]
  /\ bypassing = {} /\ asked = {}
  /\ configuring = {}
  /\ inPrompt = [s \in FilterSessions |-> {}]

-----------------------------------------------------------------------------
(* disableProjectSkill *)

\* Mutant: a rule of the project's own file is not looked at.
RefusesUserRuleOnly(k) ==
  \/ userFile.enabled = "off"
  \/ userFile.project.rule /\ "off" \in {userFile.project.enabled, userFile.project.skills}

\* The filter is off where it counts, or the project's file overrides the rule
\* this command would write.
Refuses(k) ==
  LET local == projectFile.project
      user == userFile.project
  IN \/ Merged(userFile, projectFile).enabled = "off"
     \/ local.rule /\ \/ "off" \in {local.enabled, local.skills}
                      \/ k \notin local.ignore
     \/ ~local.rule /\ user.rule /\ "off" \in {user.enabled, user.skills}

Ignoring(k) ==
  LET before == IF userFile.project.rule THEN userFile.project.ignore ELSE {}
  IN [enabled |-> IF userFile.enabled = "unset" THEN "on" ELSE userFile.enabled,
      project |-> [rule |-> TRUE, enabled |-> "on", skills |-> "on",
                   ignore |-> before \cup {k}]]

\* /skillz disable <path> of a loaded project skill, in one turn of the event
\* loop; contextFilterChanged refreshes the session's cached state.
DisableSkill(s, k) ==
  /\ ~Refuses(k)
  /\ userFile' = IF projectFile.project.rule THEN userFile ELSE Ignoring(k)
  /\ hidden' = [hidden EXCEPT ![s] = HiddenBy(Merged(userFile', projectFile))]
  /\ UNCHANGED <<projectFile, bypassing, asked, configuring, inPrompt>>

-----------------------------------------------------------------------------
(* /context project config *)

\* The questionnaire opens on a fresh reading of the files.
OpenConfig(s) ==
  /\ s \notin configuring
  /\ hidden' = [hidden EXCEPT ![s] = DisabledNow]
  /\ configuring' = configuring \cup {s}
  /\ UNCHANGED <<userFile, projectFile, bypassing, asked, inPrompt>>

\* Its answers replace the user's rule, whatever other sessions wrote meanwhile.
AnswerConfig(s, enabled, ignore) ==
  /\ s \in configuring
  /\ configuring' = configuring \ {s}
  /\ userFile' = [enabled |-> IF userFile.enabled = "unset" THEN "on" ELSE userFile.enabled,
                  project |-> [rule |-> TRUE, enabled |-> enabled, skills |-> "on",
                               ignore |-> ignore]]
  /\ hidden' = [hidden EXCEPT ![s] = HiddenBy(Merged(userFile', projectFile))]
  /\ UNCHANGED <<projectFile, bypassing, asked, inPrompt>>

CancelConfig(s) ==
  /\ s \in configuring
  /\ configuring' = configuring \ {s}
  /\ UNCHANGED <<userFile, projectFile, hidden, bypassing, asked, inPrompt>>

-----------------------------------------------------------------------------
(* Sessions and their guards *)

\* session_start of a new, resumed, forked or reloaded session.
StartFilterSession(s) ==
  /\ hidden' = [hidden EXCEPT ![s] = DisabledNow]
  /\ bypassing' = bypassing \ {s} /\ asked' = asked \ {s}
  /\ configuring' = configuring \ {s}
  /\ inPrompt' = [inPrompt EXCEPT ![s] = {}]
  /\ UNCHANGED <<userFile, projectFile>>

\* /skillz session --disable and --enable.
SwitchBlocking(s, off) ==
  /\ bypassing' = IF off THEN bypassing \cup {s} ELSE bypassing \ {s}
  /\ asked' = IF off THEN asked \cup {s} ELSE asked \ {s}
  /\ UNCHANGED <<userFile, projectFile, hidden, configuring, inPrompt>>

\* before_agent_start filters the prompt by the cached state.
StartAgent(s) ==
  /\ inPrompt' = [inPrompt EXCEPT ![s] = Skills \ (IF s \in bypassing THEN {} ELSE hidden[s])]
  /\ UNCHANGED <<userFile, projectFile, hidden, bypassing, asked, configuring>>

\* The guards on /skill:<name> and on file and shell tools read the files anew.
Blocks(s, k) == s \notin bypassing /\ k \in DisabledNow

BlockNext ==
  \E s \in FilterSessions :
    \/ OpenConfig(s) \/ CancelConfig(s) \/ StartFilterSession(s) \/ StartAgent(s)
    \/ \E off \in BOOLEAN : SwitchBlocking(s, off)
    \/ \E k \in Skills : DisableSkill(s, k)
    \/ \E enabled \in {"on", "off"}, ignore \in SUBSET Skills :
         AnswerConfig(s, enabled, ignore)

BlockSpec == BlockInit /\ [][BlockNext]_blockVars

-----------------------------------------------------------------------------
BlockTypeOK ==
  /\ userFile \in Filters /\ projectFile \in Filters
  /\ hidden \in [FilterSessions -> SUBSET Skills]
  /\ configuring \subseteq FilterSessions
  /\ bypassing \subseteq FilterSessions /\ asked \subseteq FilterSessions
  /\ inPrompt \in [FilterSessions -> SUBSET Skills]

\* A "/skillz disable" that is accepted takes effect: with any combination of
\* the user's and the project's settings, the skill is guarded afterwards in
\* every session without the override, and hidden from the next prompt of the
\* session that disabled it (docs/commands.md:198-206).
DisableTakesEffect ==
  [][\A s \in FilterSessions, k \in Skills :
       DisableSkill(s, k) =>
         /\ k \in hidden'[s]
         /\ \A o \in FilterSessions : Blocks(o, k)' \/ o \in asked]_blockVars
==============================================================================
