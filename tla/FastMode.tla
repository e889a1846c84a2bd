------------------------------- MODULE FastMode -------------------------------
(***************************************************************************)
(* Priority service on request (src/extensions/productivity/fast.ts): a    *)
(* /fast command waits for the agent to be idle before it applies, while   *)
(* the session, its branch or its model may change; requests go through a  *)
(* provider wrapper that asks for priority only for the session's selected *)
(* model, and another extension may take the provider over.                *)
(***************************************************************************)
EXTENDS Naturals, FiniteSets

CONSTANTS FastModels,       \* models with a native OpenAI Responses connection
          SlowModels,       \* any other models
          MaxResets,        \* bound on generations
          MaxCommands       \* bound on /fast commands waiting

ASSUME FastAssumption == FastModels # {} /\ MaxResets \in Nat /\ MaxCommands \in Nat

VARIABLES fast,         \* fields of the extension: enabled, selection, generation
          model,        \* the session's model in the host
          sessionId,    \* number of the host's session
          provider,     \* who is registered for the provider: native, wrapped, other
          waiting,      \* /fast commands waiting for idle
          wanted        \* history: session and model of the command applied last

fastVars == <<fast, model, sessionId, provider, waiting, wanted>>

AnyModels == FastModels \cup SlowModels

\* available: a supported model whose provider nobody else registered.
Available == model \in FastModels /\ provider \in {"native", "wrapped"}

FastInit ==
  /\ model \in AnyModels /\ sessionId = 1
  /\ fast = [enabled |-> FALSE, selection |-> model, generation |-> 0]
  /\ provider \in {"native", "other"} /\ waiting = {}
  /\ wanted = [session |-> 0, model |-> model]

-----------------------------------------------------------------------------
ResetTo(m) ==
  /\ fast.generation < MaxResets
  /\ fast' = [enabled |-> FALSE, selection |-> m, generation |-> fast.generation + 1]

\* The host selects another model, and the handler of model_select runs.
SelectModel(m) ==
  /\ m # model /\ model' = m /\ ResetTo(m)
  /\ UNCHANGED <<sessionId, provider, waiting, wanted>>

\* session_shutdown and session_start: the wrapper is removed if still owned.
ReplaceSession(m) ==
  /\ ResetTo(m) /\ model' = m
  /\ sessionId' = sessionId + 1
  /\ provider' = IF provider = "wrapped" THEN "native" ELSE provider
  /\ UNCHANGED <<waiting, wanted>>

MoveTree ==
  /\ ResetTo(model)
  /\ UNCHANGED <<model, sessionId, provider, waiting, wanted>>

\* Another extension registers the provider, or drops its registration.
OtherRegisters ==
  /\ provider' = IF provider = "other" THEN "native" ELSE "other"
  /\ UNCHANGED <<fast, model, sessionId, waiting, wanted>>

\* before_agent_start, and /fast status.
CheckRegistration ==
  /\ fast.enabled /\ ~(Available /\ fast.selection = model)
  /\ ResetTo(model)
  /\ UNCHANGED <<model, sessionId, provider, waiting, wanted>>

-----------------------------------------------------------------------------
\* /fast, /fast on, /fast off: what it found before it waits.
TypeFast(action) ==
  /\ Cardinality(waiting) < MaxCommands
  /\ waiting' = waiting \cup {[action |-> action, generation |-> fast.generation,
                               session |-> sessionId, model |-> model]}
  /\ UNCHANGED <<fast, model, sessionId, provider, wanted>>

\* Mutant: only the session is looked at after the wait.
SameSessionOnly(c) == c.session = sessionId

StillApplies(c) == c.generation = fast.generation /\ c.session = sessionId

\* After waitForIdle.  An unavailable model or provider leaves all as it is.
ApplyFast(c) ==
  LET on == c.action = "on" \/ (c.action = "toggle" /\ ~fast.enabled)
  IN /\ c \in waiting /\ waiting' = waiting \ {c}
     /\ IF StillApplies(c) /\ (on => Available)
        THEN /\ fast' = [fast EXCEPT !.enabled = on, !.selection = model]
             /\ provider' = IF on THEN "wrapped" ELSE provider
             /\ wanted' = [session |-> c.session, model |-> c.model]
        ELSE UNCHANGED <<fast, provider, wanted>>
     /\ UNCHANGED <<model, sessionId>>

FastNext ==
  \/ \E m \in AnyModels : SelectModel(m) \/ ReplaceSession(m)
  \/ MoveTree \/ OtherRegisters \/ CheckRegistration
  \/ \E action \in {"on", "off", "toggle"} : TypeFast(action)
  \/ \E c \in waiting : ApplyFast(c)

FastSpec == FastInit /\ [][FastNext]_fastVars

-----------------------------------------------------------------------------
\* streamSimple of the wrapper: whether a request for m of session id made
\* now asks for priority.
AsksPriority(m, id) ==
  /\ provider = "wrapped" /\ fast.enabled /\ Available /\ m \in FastModels
  /\ fast.selection = model /\ m = fast.selection /\ id = sessionId

FastTypeOK ==
  /\ fast \in [enabled : BOOLEAN, selection : AnyModels, generation : 0 .. MaxResets]
  /\ model \in AnyModels /\ sessionId \in Nat
  /\ provider \in {"native", "wrapped", "other"}
  /\ Cardinality(waiting) <= MaxCommands

\* Priority, which costs more, is only ever asked for in the session and for
\* the model its user was in when typing the command that turned it on, however
\* long that command waited (fast.ts: "session or model changed while waiting").
PriorityIsWanted ==
  \A m \in AnyModels :
    AsksPriority(m, sessionId) => wanted = [session |-> sessionId, model |-> m]
==============================================================================
