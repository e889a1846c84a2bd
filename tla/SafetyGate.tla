----------------------------- MODULE SafetyGate -----------------------------
(***************************************************************************)
(* The permission prompts of the safety extension                          *)
(* (src/extensions/safety/index.ts): the queue of decisions about tool     *)
(* calls and user commands of several turns, the on/off mode and its       *)
(* restoration, and the explanations a human may ask the agent for.        *)
(*                                                                         *)
(* Abstractions.  Which operations are hazardous, and the texts, are left  *)
(* out: every call here is one that needs a decision.  A command and its   *)
(* normalized key are one.                                                 *)
(***************************************************************************)
EXTENDS Naturals, Sequences, FiniteSets

CONSTANTS
    Calls,           \* hazardous calls the session ever makes
    CommandKeys,     \* the commands they run
    MaxTurns,        \* bound: turns of the agent
    HasUI            \* ctx.hasUI

ASSUME SafetyAssumption == MaxTurns \in Nat \ {0} /\ HasUI \in BOOLEAN

VARIABLES
    promptsEnabled,
    savedModes,       \* the modes the branch has recorded, newest last
    turn,             \* the turn whose signal ctx.signal returns
    abortedTurns,
    calls,            \* call -> its command, the turn it belongs to, its fate
    decisionQueue,    \* the calls whose decision is not made, in order
    requests,         \* command -> whether an explanation was asked and given
    pendingKeys,      \* pendingExplanationCommandKeys
    decisions         \* history: call -> what the human chose in its dialog

safetyVars == <<promptsEnabled, savedModes, turn, abortedTurns, calls,
                decisionQueue, requests, pendingKeys, decisions>>

NoCall == [at |-> "none", kind |-> "command", key |-> "none", turn |-> 0]
FileWrite == "file"   \* a write or edit has a path, not a command

Fate(c, fate) == calls' = [calls EXCEPT ![c].at = fate]

\* Mutant: the signal is read when it is used, from the turn then running.
LaterSignal(c) == turn

Signal(c) == calls[c].turn
Aborted(c) == Signal(c) \in abortedTurns

(***************************************************************************)
(* tool_call and user_bash                                                 *)
(***************************************************************************)
\* The mode is read when the call is made, and so is the turn's signal; a
\* human's command may be given while no turn runs.
RequestDecision(c, kind, key, signal) ==
    /\ calls[c] = NoCall /\ (kind = "write") = (key = FileWrite)
    /\ signal = turn \/ (kind = "user" /\ signal = 0)
    /\ calls' = [calls EXCEPT ![c] =
            [at |-> IF promptsEnabled THEN "queued" ELSE "unasked",
             kind |-> kind, key |-> key, turn |-> signal]]
    /\ decisionQueue' = IF promptsEnabled THEN Append(decisionQueue, c) ELSE decisionQueue
    /\ UNCHANGED <<promptsEnabled, savedModes, turn, abortedTurns, requests,
                   pendingKeys, decisions>>

\* withSafetyDecision: a call's turn in the queue has come.
Decide ==
    LET c == Head(decisionQueue) IN
    /\ decisionQueue # <<>> /\ calls[c].at = "queued"
    /\ IF Aborted(c) \/ ~HasUI
       THEN Fate(c, "blocked") /\ decisionQueue' = Tail(decisionQueue)
       ELSE Fate(c, "asked") /\ UNCHANGED decisionQueue
    /\ UNCHANGED <<promptsEnabled, savedModes, turn, abortedTurns, requests,
                   pendingKeys, decisions>>

\* The dialog closes, by the human's choice or by the signal.
ChooseDecision(choice) ==
    LET c == Head(decisionQueue)
        decision == IF Aborted(c) THEN "block" ELSE choice IN
    /\ decisionQueue # <<>> /\ calls[c].at = "asked"
    /\ calls[c].kind = "write" => choice # "explain"
    /\ decisionQueue' = Tail(decisionQueue)
    /\ decisions' = [decisions EXCEPT ![c] = decision]
    /\ Fate(c, CASE decision = "allow" -> "allowed"
                 [] decision = "explain" -> "explain"
                 [] OTHER -> "blocked")
    /\ IF decision = "explain"
       THEN /\ requests' = [requests EXCEPT ![calls[c].key].asked = TRUE]
            /\ pendingKeys' = pendingKeys \cup {calls[c].key}
       ELSE UNCHANGED <<requests, pendingKeys>>
    /\ UNCHANGED <<promptsEnabled, savedModes, turn, abortedTurns>>

\* A dialog that throws blocks its caller, which gets the error.
DialogFails ==
    LET c == Head(decisionQueue) IN
    /\ decisionQueue # <<>> /\ calls[c].at = "asked"
    /\ Fate(c, "blocked")
    /\ decisionQueue' = Tail(decisionQueue)
    /\ UNCHANGED <<promptsEnabled, savedModes, turn, abortedTurns, requests,
                   pendingKeys, decisions>>

(***************************************************************************)
(* Mode, turns and explanations                                            *)
(***************************************************************************)
Toggle ==
    /\ promptsEnabled' = ~promptsEnabled
    /\ savedModes' = Append(savedModes, promptsEnabled') /\ Len(savedModes) < 2
    /\ UNCHANGED <<turn, abortedTurns, calls, decisionQueue, requests, pendingKeys,
                   decisions>>

\* session_tree: another branch of the session, which has recorded less.
RestoreMode ==
    /\ \E n \in 0..Len(savedModes) :
        /\ savedModes' = SubSeq(savedModes, 1, n)
        /\ promptsEnabled' = IF n = 0 THEN TRUE ELSE savedModes[n]
    /\ UNCHANGED <<turn, abortedTurns, calls, decisionQueue, requests, pendingKeys,
                   decisions>>

NextTurn ==
    /\ turn < MaxTurns /\ turn' = turn + 1
    /\ UNCHANGED <<promptsEnabled, savedModes, abortedTurns, calls, decisionQueue,
                   requests, pendingKeys, decisions>>

AbortTurn ==
    /\ turn \notin abortedTurns /\ abortedTurns' = abortedTurns \cup {turn}
    /\ UNCHANGED <<promptsEnabled, savedModes, turn, calls, decisionQueue, requests,
                   pendingKeys, decisions>>

\* message_end with an explanation: it is kept for every pending command.
Explained ==
    /\ pendingKeys # {} /\ pendingKeys' = {}
    /\ requests' = [k \in CommandKeys |->
            IF k \in pendingKeys /\ requests[k].asked
            THEN [requests[k] EXCEPT !.explained = TRUE] ELSE requests[k]]
    /\ UNCHANGED <<promptsEnabled, savedModes, turn, abortedTurns, calls, decisionQueue,
                   decisions>>

\* An hour passes: the request is pruned, but its key may stay pending.
RequestExpires(k) ==
    /\ requests[k].asked
    /\ requests' = [requests EXCEPT ![k] = [asked |-> FALSE, explained |-> FALSE]]
    /\ UNCHANGED <<promptsEnabled, savedModes, turn, abortedTurns, calls, decisionQueue,
                   pendingKeys, decisions>>

(***************************************************************************)
(* Specification                                                           *)
(***************************************************************************)
SafetyInit ==
    /\ promptsEnabled = TRUE /\ savedModes = <<>>
    /\ turn = 1 /\ abortedTurns = {}
    /\ calls = [c \in Calls |-> NoCall] /\ decisionQueue = <<>>
    /\ requests = [k \in CommandKeys |-> [asked |-> FALSE, explained |-> FALSE]]
    /\ pendingKeys = {}
    /\ decisions = [c \in Calls |-> "none"]

SafetyNext ==
    \/ \E c \in Calls, signal \in 0..turn :
        \/ \E key \in CommandKeys, kind \in {"command", "user"} :
              RequestDecision(c, kind, key, signal)
        \/ RequestDecision(c, "write", FileWrite, signal)
    \/ Decide \/ DialogFails
    \/ \E choice \in {"allow", "block", "explain"} : ChooseDecision(choice)
    \/ Toggle \/ RestoreMode \/ NextTurn \/ AbortTurn \/ Explained
    \/ \E k \in CommandKeys : RequestExpires(k)

SafetySpec == SafetyInit /\ [][SafetyNext]_safetyVars

(***************************************************************************)
(* Properties                                                              *)
(***************************************************************************)
SafetyTypeOK ==
    /\ promptsEnabled \in BOOLEAN /\ savedModes \in Seq(BOOLEAN)
    /\ turn \in 1..MaxTurns /\ abortedTurns \subseteq 1..MaxTurns
    /\ calls \in [Calls -> [at : {"none", "unasked", "queued", "asked", "allowed",
                                  "blocked", "explain"},
                            kind : {"command", "user", "write"},
                            key : CommandKeys \cup {FileWrite, "none"},
                            turn : 0..MaxTurns]]
    /\ decisionQueue \in Seq(Calls) /\ pendingKeys \subseteq CommandKeys
    /\ requests \in [CommandKeys -> [asked : BOOLEAN, explained : BOOLEAN]]

Undecided == {c \in Calls : calls[c].at \in {"queued", "asked"}}

\* A call that waits is in the queue, and one dialog at most is open: neither a
\* dialog that throws nor an aborted turn stalls the calls behind it.
QueueNeverStalls ==
    /\ Undecided = {decisionQueue[i] : i \in DOMAIN decisionQueue}
    /\ Cardinality({c \in Calls : calls[c].at = "asked"}) <= 1

\* A call whose own turn was aborted before its decision never runs, however
\* long it waited and whatever later turn is then running; and the queue of
\* decisions goes on in every step.
DecidedByOwnTurn ==
    [][/\ \A c \in Calls :
            calls[c].at # "allowed" /\ calls'[c].at = "allowed"
                => calls[c].turn \notin abortedTurns
       /\ QueueNeverStalls']_safetyVars

=============================================================================
