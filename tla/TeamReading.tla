---------------------------- MODULE TeamReading ----------------------------
(***************************************************************************)
(* Paging through an inbox or a thread: TeamStore.read at the broker       *)
(* (src/coordination/store.ts), team_read in the session (tools.ts) and    *)
(* the size limit on a tool's result (tool-results.ts).  The reader        *)
(* follows nextCursor, and retries as an oversized result asks.            *)
(*                                                                         *)
(* Abstractions.  A message is its ordinal, its thread, whether the reader *)
(* is a recipient, whether its delivery still belongs to the default inbox *)
(* and its weight in a result; no summary alone exceeds the size limit.    *)
(* "late" is a history: the message became the reader's only when the      *)
(* reader, or the page on its way, was past its ordinal.                   *)
(* Reading one full message, which moves no cursor, is left out.           *)
(***************************************************************************)
EXTENDS Naturals, FiniteSets, SequencesExt

CONSTANTS
    ReadThreads,    \* threads of the room
    InboxQuery,     \* the query that names no thread
    PageLimit,      \* the largest page a reader asks for
    ResultWeight,   \* MAX_TEAM_TOOL_RESULT_BYTES
    MaxPosts        \* bound: messages of the room

ASSUME ReadingAssumption ==
    /\ InboxQuery \notin ReadThreads
    /\ PageLimit \in Nat \ {0} /\ ResultWeight \in Nat \ {0} /\ MaxPosts \in Nat

VARIABLES
    posts,      \* the messages of the room, by ordinal
    query,      \* what the reader asks: thread, history, cursor and limit
    page,       \* the broker's answer on its way to the reader
    shown       \* the ordinals shown to the reader, in order

readVars == <<posts, query, page, shown>>

NoPage == [items |-> <<>>, next |-> 0, upTo |-> 0, arrived |-> FALSE]
Ordinals == 1..Len(posts)

(***************************************************************************)
(* The room                                                                *)
(***************************************************************************)
Post(thread, mine, weight) ==
    /\ Len(posts) < MaxPosts
    /\ posts' = Append(posts, [thread |-> thread, mine |-> mine, live |-> mine,
                               late |-> FALSE, weight |-> weight])
    /\ UNCHANGED <<query, page, shown>>

\* A delivery is recorded and acknowledged, answered, resolved or cancelled:
\* it leaves the default inbox for good.
LeaveInbox(m) ==
    /\ posts[m].live
    /\ posts' = [posts EXCEPT ![m].live = FALSE]
    /\ UNCHANGED <<query, page, shown>>

\* How far the page on its way, or the last one, goes.
PageReach == IF page.next = 0 THEN page.upTo ELSE page.next

\* A human redirects another member's request to the reader, who has no delivery
\* of it yet: an old message enters the inbox at its old ordinal.
Redirected(m) ==
    /\ ~posts[m].mine
    /\ LET past == query.thread = InboxQuery /\ (m <= query.cursor \/ m <= PageReach)
       IN  posts' = [posts EXCEPT ![m] =
                        [@ EXCEPT !.mine = TRUE, !.live = TRUE, !.late = past]]
    /\ UNCHANGED <<query, page, shown>>

(***************************************************************************)
(* TeamStore.read                                                          *)
(***************************************************************************)
Matches(m) ==
    IF query.thread # InboxQuery
    THEN posts[m].thread = query.thread
    ELSE posts[m].mine /\ (query.history \/ posts[m].live)

\* ORDER BY ordinal: the k-th row is the one at place k.
Rows == {m \in Ordinals : m > query.cursor /\ Matches(m)}
Place(m) == Cardinality({r \in Rows : r <= m})
RowAt(k) == CHOOSE m \in Rows : Place(m) = k
Least(a, b) == IF a < b THEN a ELSE b

\* Mutant: the page continues from the first row it leaves out.
NextCursorPastIt ==
    IF Cardinality(Rows) > query.limit THEN RowAt(query.limit + 1) ELSE 0

NextCursor == IF Cardinality(Rows) > query.limit THEN RowAt(query.limit) ELSE 0

ReadPage ==
    /\ page = NoPage
    /\ page' = [items |-> [k \in 1..Least(query.limit, Cardinality(Rows)) |-> RowAt(k)],
                next |-> NextCursor, upTo |-> Len(posts), arrived |-> TRUE]
    /\ UNCHANGED <<posts, query, shown>>

\* The call fails or its answer is lost; the reader asks again.
LosePage ==
    /\ page.arrived
    /\ page' = NoPage
    /\ UNCHANGED <<posts, query, shown>>

(***************************************************************************)
(* readPageToolResult and formatTeamToolResult                             *)
(***************************************************************************)
Weight(items) == FoldLeft(LAMBDA sum, m : sum + posts[m].weight, 0, items)
Oversized == Weight(page.items) > ResultWeight

\* The result shows the items; the reader follows the cursor, if there is one.
ShowPage ==
    /\ page.arrived /\ ~Oversized
    /\ shown' = shown \o page.items
    /\ IF page.next = 0
       THEN page' = [page EXCEPT !.arrived = FALSE] /\ UNCHANGED query
       ELSE page' = NoPage /\ query' = [query EXCEPT !.cursor = page.next]
    /\ UNCHANGED posts

\* An oversized result shows nothing but the cursor and a smaller limit.
RetrySmaller ==
    /\ page.arrived /\ Oversized
    /\ query' = [query EXCEPT !.limit = IF @ \div 2 > 1 THEN @ \div 2 ELSE 1]
    /\ page' = NoPage
    /\ UNCHANGED <<posts, shown>>

\* The reader chooses another limit at any cursor.
ChangeLimit(limit) ==
    /\ page = NoPage /\ limit # query.limit
    /\ query' = [query EXCEPT !.limit = limit]
    /\ UNCHANGED <<posts, page, shown>>

(***************************************************************************)
(* Specification                                                           *)
(***************************************************************************)
ReadingInit ==
    /\ posts = <<>> /\ page = NoPage /\ shown = <<>>
    /\ query \in [thread : ReadThreads \cup {InboxQuery}, history : BOOLEAN,
                  cursor : {0}, limit : {PageLimit}]

ReadingNext ==
    \/ \E thread \in ReadThreads, mine \in BOOLEAN, weight \in 1..ResultWeight :
           Post(thread, mine, weight)
    \/ \E m \in Ordinals : LeaveInbox(m) \/ Redirected(m)
    \/ \E limit \in 1..PageLimit : ChangeLimit(limit)
    \/ ReadPage \/ LosePage \/ ShowPage \/ RetrySmaller

ReadingSpec == ReadingInit /\ [][ReadingNext]_readVars

(***************************************************************************)
(* Properties                                                              *)
(***************************************************************************)
ReadingTypeOK ==
    /\ posts \in Seq([thread : ReadThreads, mine : BOOLEAN, live : BOOLEAN,
                      late : BOOLEAN, weight : 1..ResultWeight])
    /\ query \in [thread : ReadThreads \cup {InboxQuery}, history : BOOLEAN,
                  cursor : 0..MaxPosts, limit : 1..PageLimit]
    /\ page.items \in Seq(Ordinals) /\ page.next \in 0..MaxPosts
    /\ shown \in Seq(Ordinals)

\* Whatever is posted, settled, redirected, lost or refused as oversized between
\* two pages, the reader sees messages in order and each once; and of those its
\* query matches at or below its cursor, or at the end below the last page's
\* view of the room, it misses none but a request that was redirected to it
\* when it was past it already.
PagingMissesOnlyLate ==
    /\ \A i \in 1..(Len(shown) - 1) : shown[i] < shown[i + 1]
    /\ \A m \in Ordinals :
           /\ Matches(m) /\ ~posts[m].late
           /\ m <= query.cursor \/ (~page.arrived /\ m <= page.upTo)
           => m \in ToSet(shown)

=============================================================================
