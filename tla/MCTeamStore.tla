----------------------------- MODULE MCTeamStore -----------------------------
(***************************************************************************)
(* TLC instances of TeamStore.                                             *)
(***************************************************************************)
EXTENDS TeamStore, TLC

CONSTANT Asker   \* the member that asks in the runs that give members roles

\* Sessions, threads and keys are interchangeable in the module.
Symmetry == Permutations(Sessions) \cup Permutations(Threads) \cup Permutations(Keys)

\* Members are too, where no role is given.
MemberSymmetry == Symmetry \cup Permutations(Participants)

\* State constraint of the runs with roles: the asker connects once, stays, and
\* asks the other member; pauses are the recipient's own.  What the human
\* answers stays in the asker's mailbox.
QuietAsker ==
    LET row == participants[Asker] IN
    /\ ~roomPaused /\ ~row.paused
    /\ row.link # "lapsed" /\ row.generation <= 1
    /\ Exists(Asker) => row.joined
    /\ \A m \in DOMAIN messages :
        /\ messages[m].sender = Asker
        /\ deliveries[m][Asker].state = IF messages[m].human THEN "pending" ELSE "absent"

\* State constraint of the mail run: everyone joins and connects before the
\* first message, then no connection is lost and nobody is paused; members ask
\* and answer each other, and at most one delivery is ever attempted.
StableMembers ==
    /\ ~roomPaused
    /\ \A p \in Participants :
        /\ ~participants[p].paused
        /\ messages # <<>> => participants[p].joined /\ Connected(p)
    /\ \A m \in DOMAIN messages, p \in Participants :
        /\ messages[m].type # "status"
        /\ messages[m].sender = p /\ ~messages[m].human =>
             \/ ~Present(m, p)
             \/ \E r \in Participants : deliveries[m][r].obligation = "redirected"
    /\ Cardinality({mp \in MsgIds \X Participants :
            deliveries[mp[1]][mp[2]].state \notin {"absent", "pending", "cancelled"}}) <= 1

=============================================================================
