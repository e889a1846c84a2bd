--------------------------- MODULE TeamNavigation ---------------------------
(***************************************************************************)
(* What the human sees of the team: the dashboard                          *)
(* (src/extensions/coordination/dashboard.ts) and the navigation cache     *)
(* that completes arguments of /team (src/src/coordination/navigation.ts). *)
(* Answers of the broker arrive after the human may have left the room, or *)
(* joined it again as somebody else; the dashboard, the status refresh,    *)
(* the commands and the agent's tools all remember what they read.  The    *)
(* code between two awaits is one action.                                  *)
(*                                                                         *)
(* Abstractions.  An enrolment is its place in the order of joins; it      *)
(* stands for the binding and the epoch.  A page is any few messages of    *)
(* the room, numbered by age; the limits on bytes act as the one on their  *)
(* number.  The participants of a room are remembered together.            *)
(***************************************************************************)
EXTENDS Naturals, Sequences, FiniteSets

CONSTANTS
    NavRooms, NoRoom,
    MaxJoins,     \* bound: enrolments ever granted
    NavMessages,  \* the numbers of a room's messages
    MaxCached     \* MAX_MESSAGES of the cache, MAX_DASHBOARD_MESSAGES of the list

ASSUME NavigationAssumption ==
    NoRoom \notin NavRooms /\ MaxJoins \in Nat /\ NavMessages \subseteq Nat \ {0}
    /\ MaxCached \in Nat \ {0}

VARIABLES
    rooms,    \* the rooms of the enrolments granted so far
    held,     \* the enrolment the runtime has, 0 for none
    hasLink,   \* it has a connection
    navRoom,  \* TeamNavigationCache.room
    people,   \* the rooms whose participants are cached
    mail,     \* the messages cached, and the participant they were cached for
    asking,     \* a question of a refresh, a command or a tool on its way
    dash      \* the dashboard

enrolVars == <<rooms, held, hasLink>>
cacheVars == <<navRoom, people, mail>>
navVars == <<enrolVars, cacheVars, asking, dash>>

NoQuestion == [by |-> "none", of |-> 0]
NoDash == [at |-> "closed", of |-> 0, history |-> FALSE, loaded |-> FALSE,
           cursor |-> FALSE, shown |-> {}]

(***************************************************************************)
(* The cache                                                               *)
(***************************************************************************)
Newest(S) ==
    {m \in S : Cardinality({n \in S : n.id > m.id}) < MaxCached}

Pages == {P \in SUBSET NavMessages : Cardinality(P) <= 2}

\* remember* needs an enrolment, and adoptRoom refuses another room's news.
Adopts(room) == held # 0 /\ navRoom \in {NoRoom, room}

RememberMail(P, room) ==
    IF P # {} /\ Adopts(room)
    THEN /\ navRoom' = room
         /\ mail' = Newest({m \in mail : ~(m.room = room /\ m.id \in P)}
                             \cup [room : {room}, id : P, own : {held}])
    ELSE UNCHANGED <<navRoom, mail>>

RememberStatus(room) ==
    IF Adopts(room)
    THEN navRoom' = room /\ people' = people \cup {room}
    ELSE UNCHANGED <<navRoom, people>>

ResetCache(room) == navRoom' = room /\ people' = {} /\ mail' = {}

(***************************************************************************)
(* Enrolment and connection                                                *)
(***************************************************************************)
Enrol(room) ==
    /\ held = 0 /\ Len(rooms) < MaxJoins
    /\ rooms' = Append(rooms, room) /\ held' = Len(rooms') /\ hasLink' = FALSE
    /\ ResetCache(room)
    /\ UNCHANGED <<asking, dash>>

\* A leave, a detach, a switch to another session and a shutdown.
Unenrol ==
    /\ held # 0 /\ held' = 0 /\ hasLink' = FALSE
    /\ ResetCache(NoRoom)
    /\ UNCHANGED <<rooms, asking, dash>>

Relink ==
    /\ held # 0 /\ hasLink' = ~hasLink
    /\ UNCHANGED <<rooms, held, cacheVars, asking, dash>>

(***************************************************************************)
(* Refreshes, commands and tools                                           *)
(***************************************************************************)
Ask(by) ==
    /\ asking = NoQuestion /\ held # 0 /\ hasLink
    /\ asking' = [by |-> by, of |-> held]
    /\ UNCHANGED <<enrolVars, cacheVars, dash>>

\* The refresh drops an answer of an earlier epoch or connection; a command or
\* a tool remembers whatever it was answered.
StatusArrives(fresh) ==
    /\ asking.by \in {"refresh", "status"} /\ asking' = NoQuestion
    /\ IF asking.by = "status" \/ (asking.of = held /\ fresh)
       THEN RememberStatus(rooms[asking.of]) /\ UNCHANGED mail
       ELSE UNCHANGED cacheVars
    /\ UNCHANGED <<enrolVars, dash>>

PageArrives(P) ==
    /\ asking.by = "read" /\ asking' = NoQuestion
    /\ RememberMail(P, rooms[asking.of])
    /\ UNCHANGED <<enrolVars, people, dash>>

CallFails ==
    /\ asking # NoQuestion /\ asking' = NoQuestion
    /\ UNCHANGED <<enrolVars, cacheVars, dash>>

(***************************************************************************)
(* The dashboard                                                           *)
(***************************************************************************)
EnrolmentStands(d) == d.of = held

\* The head of the loop: it needs a connection, and loads what is not loaded.
Turn(d) ==
    IF ~EnrolmentStands(d) \/ ~hasLink THEN NoDash
    ELSE IF d.loaded THEN [d EXCEPT !.at = "overview"]
    ELSE [d EXCEPT !.at = "loading", !.shown = {}]

OpenDashboard ==
    /\ dash = NoDash /\ held # 0
    /\ dash' = Turn([NoDash EXCEPT !.of = held])
    /\ UNCHANGED <<enrolVars, cacheVars, asking>>

Shown(d, P) == Newest(d.shown \cup [id : P, history : {d.history}])

\* Status and inbox arrive together, each answered or refused.
Load(P, hasStatus, hasPage, more) ==
    /\ dash.at = "loading"
    /\ IF ~EnrolmentStands(dash) THEN dash' = NoDash /\ UNCHANGED cacheVars
       ELSE LET page == IF hasPage THEN P ELSE {} IN
            /\ dash' = [dash EXCEPT !.at = "overview", !.loaded = TRUE,
                            !.cursor = hasPage /\ more, !.shown = Shown(dash, page)]
            /\ RememberMail(page, rooms[dash.of])
            /\ people' = IF hasStatus /\ Adopts(rooms[dash.of])
                         THEN people \cup {rooms[dash.of]} ELSE people
    /\ UNCHANGED <<enrolVars, asking>>

\* A choice in the overview that leads to something else than a new list.
ChooseAction(at) ==
    /\ dash.at = "overview"
    /\ at = "more" => dash.cursor
    /\ at = "message" => dash.shown # {}
    /\ dash' = IF at = "closed" \/ ~EnrolmentStands(dash) THEN NoDash
               ELSE [dash EXCEPT !.at = at]
    /\ UNCHANGED <<enrolVars, cacheVars, asking>>

\* Mutant: a change of view keeps the list that is shown.
RefreshKeepingList(history) ==
    /\ dash.at = "overview"
    /\ dash' = Turn([dash EXCEPT !.history = history, !.loaded = history # dash.history])
    /\ UNCHANGED <<enrolVars, cacheVars, asking>>

\* Refresh, or the other one of the active inbox and its history.
Refresh(history) ==
    /\ dash.at = "overview"
    /\ dash' = Turn([dash EXCEPT !.history = history, !.loaded = FALSE])
    /\ UNCHANGED <<enrolVars, cacheVars, asking>>

\* The next page of the same view.
LoadMore(P, more) ==
    /\ dash.at = "more"
    /\ IF ~EnrolmentStands(dash) THEN dash' = NoDash /\ UNCHANGED cacheVars
       ELSE /\ dash' = Turn([dash EXCEPT !.shown = Shown(dash, P), !.cursor = more])
            /\ RememberMail(P, rooms[dash.of]) /\ UNCHANGED people
    /\ UNCHANGED <<enrolVars, asking>>

\* A participant's status or a message's full text arrives and is shown.
ShowDetail(P) ==
    /\ dash.at \in {"participant", "message"}
    /\ IF ~EnrolmentStands(dash) THEN dash' = NoDash /\ UNCHANGED cacheVars
       ELSE IF dash.at = "participant"
       THEN /\ dash' = [dash EXCEPT !.at = "peer"]
            /\ RememberStatus(rooms[dash.of]) /\ UNCHANGED mail
       ELSE /\ Cardinality(P) = 1
            /\ dash' = [dash EXCEPT !.at = "reading"]
            /\ RememberMail(P, rooms[dash.of]) /\ UNCHANGED people
    /\ UNCHANGED <<enrolVars, asking>>

\* A refused question is noted beside the list; a refused next page leaves the
\* list as it is.
QuestionFails ==
    /\ dash.at \in {"more", "participant", "message"}
    /\ dash' = Turn([dash EXCEPT !.loaded = dash.at = "more"])
    /\ UNCHANGED <<enrolVars, cacheVars, asking>>

\* From the message to its actions, and from them to a dispatched command.
GoOn ==
    /\ dash.at \in {"reading", "acting"}
    /\ dash' = IF ~EnrolmentStands(dash) THEN NoDash
               ELSE [dash EXCEPT !.at = IF dash.at = "reading" THEN "acting" ELSE "command"]
    /\ UNCHANGED <<enrolVars, cacheVars, asking>>

\* Back to the list, which is loaded again.
GoBack ==
    /\ dash.at \in {"peer", "reading", "acting", "command"}
    /\ dash' = Turn([dash EXCEPT !.loaded = FALSE])
    /\ UNCHANGED <<enrolVars, cacheVars, asking>>

(***************************************************************************)
(* Specification                                                           *)
(***************************************************************************)
NavInit ==
    /\ rooms = <<>> /\ held = 0 /\ hasLink = FALSE
    /\ navRoom = NoRoom /\ people = {} /\ mail = {}
    /\ asking = NoQuestion /\ dash = NoDash

NavNext ==
    \/ \E room \in NavRooms : Enrol(room)
    \/ Unenrol \/ Relink
    \/ \E by \in {"refresh", "status", "read"} : Ask(by)
    \/ \E fresh \in BOOLEAN : StatusArrives(fresh)
    \/ \E P \in Pages : PageArrives(P)
    \/ CallFails \/ OpenDashboard
    \/ \E P \in Pages, hasStatus, hasPage, more \in BOOLEAN :
        Load(P, hasStatus, hasPage, more)
    \/ \E at \in {"closed", "more", "command", "participant", "message"} : ChooseAction(at)
    \/ \E history \in BOOLEAN : Refresh(history)
    \/ \E P \in Pages, more \in BOOLEAN : LoadMore(P, more)
    \/ \E P \in Pages : ShowDetail(P)
    \/ QuestionFails \/ GoOn \/ GoBack

NavSpec == NavInit /\ [][NavNext]_navVars

(***************************************************************************)
(* Properties                                                              *)
(***************************************************************************)
NavTypeOK ==
    /\ rooms \in Seq(NavRooms) /\ held \in 0..Len(rooms) /\ hasLink \in BOOLEAN
    /\ navRoom \in NavRooms \cup {NoRoom} /\ people \subseteq NavRooms
    /\ mail \subseteq [room : NavRooms, id : NavMessages, own : 1..MaxJoins]
    /\ asking.by \in {"none", "refresh", "status", "read"}
    /\ dash.at \in {"closed", "loading", "overview", "more", "command", "participant",
                    "message", "peer", "reading", "acting"}

\* However late an answer arrives, the cache offers only what belongs to the
\* room the session is in, with the delivery state of the participant it is
\* there, and nothing without an enrolment; and the list a human chooses from
\* is of the view its heading names, so that no message of the history is
\* offered as one that waits, whatever was paged, refused or switched before.
NavigationIsTrue ==
    LET here == IF held = 0 THEN {} ELSE {rooms[held]} IN
    /\ held # 0 => navRoom = rooms[held]
    /\ people \subseteq here
    /\ mail \subseteq [room : here, id : NavMessages, own : {held}]
    /\ dash.at # "closed" => \A m \in dash.shown : m.history = dash.history

=============================================================================
