----------------------------- MODULE MCWakeHost -----------------------------
(***************************************************************************)
(* TLC instances of WakeHost.                                              *)
(***************************************************************************)
EXTENDS WakeHost, TLC

\* The sessions, keys and threads are interchangeable.
Symmetry == Permutations(Sessions) \cup Permutations(Threads) \cup Permutations(Keys)

\* The requests are there before the worker connects.
Early == participants[Worker].generation > 0 => Len(messages) = MaxMessages

\* The asker stays connected, and the human does one thing at a time.
Roles ==
    /\ participants[Asker].link = "live"
    /\ command = "none" \/ recovery = NoRecovery

\* Besides, the worker's connections end by their sockets, threads stay open, and
\* the human resumes the member but does not pause it.  Only steps that no
\* fairness is assumed of lead out of it.
Steady ==
    /\ Roles
    /\ participants[Worker].link # "lapsed"
    /\ \A t \in Threads : threads[t] # "resolved"
    /\ command # "pausing"

=============================================================================
