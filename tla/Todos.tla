-------------------------------- MODULE Todos --------------------------------
(***************************************************************************)
(* The branch-aware todo list of a session                                 *)
(* (src/extensions/productivity/todos.ts).  The agent's todo tool and the  *)
(* user's /todos command change one list in memory; a command persists a   *)
(* snapshot at once, a tool call's snapshot is persisted by the host when  *)
(* it appends the tool result.  A reload or a move in the session tree     *)
(* rebuilds the list from the branch.  Texts are left out.                 *)
(***************************************************************************)
EXTENDS Naturals, Sequences, SequencesExt

CONSTANTS MaxTodoId,        \* bound on ids given out
          MaxBranch         \* bound on the length of the session branch

ASSUME TodosAssumption == MaxTodoId \in Nat /\ MaxBranch \in Nat

VARIABLES list,         \* todos and nextId in memory
          branch,       \* snapshots on the active branch of the session
          results,      \* snapshots of tool results the host has not appended
          overtaken,    \* history: the last change was a command's, made while
                        \* snapshots of the tool still waited for the host
          widgetVisible

todoVars == <<list, branch, results, overtaken, widgetVisible>>

EmptyList == [todos |-> <<>>, nextId |-> 1]

TodosInit ==
  /\ list = EmptyList /\ branch = <<>> /\ results = <<>>
  /\ overtaken = FALSE /\ widgetVisible = TRUE

-----------------------------------------------------------------------------
(* mutate *)

AddTodo(l) == [todos |-> Append(l.todos, [id |-> l.nextId, done |-> FALSE]),
               nextId |-> l.nextId + 1]
MarkTodo(l, i, done) == [l EXCEPT !.todos[i].done = done]
RemoveTodo(l, i) == [l EXCEPT !.todos = RemoveAt(@, i)]

\* The lists an action of the tool or the command can leave: list, edit, a
\* missing text and an unknown id leave it as it is; a known id is looked up.
Mutations(l) ==
  {l, EmptyList} \cup (IF l.nextId <= MaxTodoId THEN {AddTodo(l)} ELSE {})
    \cup {MarkTodo(l, i, d) : i \in DOMAIN l.todos, d \in BOOLEAN}
    \cup {RemoveTodo(l, i) : i \in DOMAIN l.todos}

\* reconstructState: every snapshot of the branch is applied in order.
Reconstruct(b) == IF b = <<>> THEN EmptyList ELSE Last(b)

-----------------------------------------------------------------------------
\* The todo tool: the change happens now, its result is appended later.
ExecuteTodo(l) ==
  /\ Len(branch) + Len(results) < MaxBranch
  /\ list' = l /\ results' = Append(results, l) /\ overtaken' = FALSE
  /\ UNCHANGED <<branch, widgetVisible>>

\* The host appends tool results in the order of the calls.
PersistResult ==
  /\ results # <<>>
  /\ branch' = Append(branch, Head(results)) /\ results' = Tail(results)
  /\ UNCHANGED <<list, overtaken, widgetVisible>>

\* Mutant: the snapshot a command persists is taken before the change.
CommandTodoEarly(l) ==
  /\ Len(branch) + Len(results) < MaxBranch
  /\ list' = l /\ branch' = Append(branch, list)
  /\ overtaken' = (results # <<>>)
  /\ widgetVisible' = (widgetVisible \/ Len(l.todos) > Len(list.todos))
  /\ UNCHANGED results

\* /todos with a mutation persists its snapshot in the same step.
CommandTodo(l) ==
  /\ Len(branch) + Len(results) < MaxBranch
  /\ list' = l /\ branch' = Append(branch, l)
  /\ overtaken' = (results # <<>>)
  /\ widgetVisible' = (widgetVisible \/ Len(l.todos) > Len(list.todos))
  /\ UNCHANGED results

\* /todos, show, hide and toggle-ui.
ToggleWidget(shown) ==
  /\ list.todos = <<>> => ~shown
  /\ shown # widgetVisible /\ widgetVisible' = shown
  /\ UNCHANGED <<list, branch, results, overtaken>>

\* session_tree: the host moves an idle session to another point of its tree.
MoveInTree(n) ==
  /\ results = <<>> /\ n < Len(branch)
  /\ branch' = SubSeq(branch, 1, n)
  /\ list' = Reconstruct(branch') /\ overtaken' = FALSE
  /\ UNCHANGED <<results, widgetVisible>>

\* session_start after a reload or a crash: results not appended are gone.
Restart ==
  /\ list' = Reconstruct(branch) /\ results' = <<>> /\ overtaken' = FALSE
  /\ widgetVisible' = TRUE
  /\ UNCHANGED branch

TodosNext ==
  \/ \E l \in Mutations(list) : ExecuteTodo(l) \/ CommandTodo(l)
  \/ \E shown \in BOOLEAN : ToggleWidget(shown)
  \/ \E n \in 0 .. MaxBranch : MoveInTree(n)
  \/ PersistResult \/ Restart

TodosSpec == TodosInit /\ [][TodosNext]_todoVars

-----------------------------------------------------------------------------
TodoLists == [todos : Seq([id : 1 .. MaxTodoId, done : BOOLEAN]), nextId : 1 .. MaxTodoId + 1]

TodosTypeOK ==
  /\ list \in TodoLists /\ branch \in Seq(TodoLists) /\ results \in Seq(TodoLists)
  /\ overtaken \in BOOLEAN /\ widgetVisible \in BOOLEAN

\* A reload loses nothing: what the branch rebuilds, with the results still to
\* be appended, is the list in memory.  The one exception ends with the next
\* change of either kind: a command made while a tool's snapshot waits is
\* followed by that older snapshot; its own list is then still on the branch.
\* And a rebuilt list never gives out an id it still holds (todos.ts:9-11).
ReloadKeepsList ==
  LET durable == branch \o results
  IN /\ ~overtaken => Reconstruct(durable) = list
     /\ overtaken => \E k \in DOMAIN branch : branch[k] = list
     /\ \A i, j \in DOMAIN list.todos :
          /\ list.todos[i].id < list.nextId
          /\ list.todos[i].id = list.todos[j].id => i = j
==============================================================================
