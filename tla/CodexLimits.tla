----------------------------- MODULE CodexLimits -----------------------------
(***************************************************************************)
(* /usage openai: the limits of the OpenAI subscription                    *)
(* (refreshCodexLimits and handleCodexLimitsCommand of                     *)
(* src/extensions/usage/index.ts, src/src/shared/codex-usage-limits.ts).   *)
(* Commands share one request; the end of the session aborts it and starts *)
(* a new generation.  The code between two awaits is one action.           *)
(***************************************************************************)
EXTENDS Naturals, Sequences, FiniteSets

CONSTANTS
    Askers,          \* commands at one time
    MaxGenerations,  \* bound: session ends
    MaxRequests      \* bound: requests ever started

ASSUME LimitsAssumption == MaxGenerations \in Nat /\ MaxRequests \in Nat

VARIABLES
    codexGeneration, \* codexLimitsGeneration
    refresh,     \* codexLimitsRefresh: the request commands join, 0 for none
    abort,       \* codexLimitsAbort: the request the session's end aborts
    limitRequests, \* every request started
    asks,        \* the commands that await a request
    limitsShown  \* the answers shown

limitVars == <<codexGeneration, refresh, abort, limitRequests, asks, limitsShown>>

NoAsk == [generation |-> 0, request |-> 0]
StillRunning == {r \in DOMAIN limitRequests : limitRequests[r].at \in {"token", "fetch"}}

\* A command joins the request there is, or starts one.
Command(a) ==
    /\ asks[a] = NoAsk
    /\ IF refresh # 0
       THEN /\ asks' = [asks EXCEPT ![a] = [generation |-> codexGeneration, request |-> refresh]]
            /\ UNCHANGED <<refresh, abort, limitRequests>>
       ELSE /\ Len(limitRequests) < MaxRequests
            /\ limitRequests' = Append(limitRequests,
                    [generation |-> codexGeneration, at |-> "token", aborted |-> FALSE])
            /\ refresh' = Len(limitRequests') /\ abort' = Len(limitRequests')
            /\ asks' = [asks EXCEPT ![a] = [generation |-> codexGeneration, request |-> refresh']]
    /\ UNCHANGED <<codexGeneration, limitsShown>>

IsCancelled(r) == limitRequests[r].aborted \/ limitRequests[r].generation # codexGeneration

\* The finally clause: only the request that is still the session's lets go.
EndsRequest(r, outcome) ==
    /\ limitRequests' = [limitRequests EXCEPT ![r].at = outcome]
    /\ IF abort = r THEN abort' = 0 /\ refresh' = 0 ELSE UNCHANGED <<abort, refresh>>

\* The access token is there, or the human is not signed in.
TokenArrives(r, signedIn) ==
    /\ limitRequests[r].at = "token"
    /\ IF signedIn /\ ~IsCancelled(r)
       THEN /\ limitRequests' = [limitRequests EXCEPT ![r].at = "fetch"]
            /\ UNCHANGED <<abort, refresh>>
       ELSE EndsRequest(r, "failed")
    /\ UNCHANGED <<codexGeneration, asks, limitsShown>>

\* The token names no account, the request fails, is refused or times out, its
\* body has no window that can be read - or the limits are there.
FetchEnds(r, usable) ==
    /\ limitRequests[r].at = "fetch"
    /\ EndsRequest(r, IF usable /\ ~IsCancelled(r) THEN "limits" ELSE "failed")
    /\ UNCHANGED <<codexGeneration, asks, limitsShown>>

\* The command goes on, and is silent in another generation.
AnswerAsk(a) ==
    LET ask == asks[a] IN
    /\ ask # NoAsk /\ ask.request \notin StillRunning
    /\ asks' = [asks EXCEPT ![a] = NoAsk]
    /\ limitsShown' = IF ask.generation = codexGeneration
                THEN limitsShown \cup {[request |-> ask.request, under |-> codexGeneration]}
                ELSE limitsShown
    /\ UNCHANGED <<codexGeneration, refresh, abort, limitRequests>>

\* Mutant: the end of a session leaves its request to the next.
EndLimitsOnly ==
    /\ codexGeneration < MaxGenerations /\ codexGeneration' = codexGeneration + 1
    /\ limitRequests' = [r \in DOMAIN limitRequests |->
            IF r = abort THEN [limitRequests[r] EXCEPT !.aborted = TRUE] ELSE limitRequests[r]]
    /\ UNCHANGED <<abort, refresh, asks, limitsShown>>

\* session_shutdown.
EndLimits ==
    /\ codexGeneration < MaxGenerations /\ codexGeneration' = codexGeneration + 1
    /\ limitRequests' = [r \in DOMAIN limitRequests |->
            IF r = abort THEN [limitRequests[r] EXCEPT !.aborted = TRUE] ELSE limitRequests[r]]
    /\ abort' = 0 /\ refresh' = 0
    /\ UNCHANGED <<asks, limitsShown>>

LimitsInit ==
    /\ codexGeneration = 0 /\ refresh = 0 /\ abort = 0 /\ limitRequests = <<>>
    /\ asks = [a \in Askers |-> NoAsk] /\ limitsShown = {}

LimitsNext ==
    \/ \E a \in Askers : Command(a) \/ AnswerAsk(a)
    \/ \E r \in DOMAIN limitRequests, good \in BOOLEAN : TokenArrives(r, good) \/ FetchEnds(r, good)
    \/ EndLimits

LimitsSpec == LimitsInit /\ [][LimitsNext]_limitVars

LimitsTypeOK ==
    /\ codexGeneration \in 0..MaxGenerations
    /\ {refresh, abort} \subseteq 0..Len(limitRequests)
    /\ \A r \in DOMAIN limitRequests :
        /\ limitRequests[r].at \in {"token", "fetch", "limits", "failed"}
        /\ limitRequests[r].generation \in 0..MaxGenerations
    /\ asks \in [Askers -> [generation : 0..MaxGenerations, request : 0..MaxRequests]]

\* However requests and sessions overlap, a session is shown only what a request
\* of its own brought, and has at most one that was not aborted; commands join
\* that one for as long as it runs, and never one that has ended.
LimitsAreOfSession ==
    /\ \A s \in limitsShown : limitRequests[s.request].generation = s.under
    /\ {r \in StillRunning : ~limitRequests[r].aborted} = IF refresh = 0 THEN {} ELSE {refresh}

=============================================================================
