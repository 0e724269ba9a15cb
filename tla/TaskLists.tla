------------------------------ MODULE TaskLists ------------------------------
(***************************************************************************)
(* The values the task screens compute with: tasks, keyed dictionaries of  *)
(* tasks, the four filters, the reorderer, the rows of a table section and *)
(* the position a row is dropped at.                                       *)
(*                                                                         *)
(* Where the code's result depends on the iteration order of a Swift Set   *)
(* or Dictionary, the operator is the SET of the results the code can      *)
(* produce.  Rows and list positions count from 1, as TLA+ sequences do.   *)
(***************************************************************************)
EXTENDS Integers, FiniteSets, SequencesExt

CONSTANTS
  Ids,        (* the identifiers a stored task can have                      *)
  EmptyId,    (* the empty string, the id of a task nobody has created yet   *)
  NoTask,     (* nil: the value of a dictionary at an absent key             *)
  DayLength   (* clock readings in a day                                     *)

ASSUME IdsAssumption     == IsFiniteSet(Ids)
ASSUME EmptyIdAssumption == EmptyId \notin Ids
ASSUME DayAssumption     == DayLength \in Nat \ {0}

Keys == Ids \cup {EmptyId}

(* The title is left out: no screen of the app changes it.                 *)
Task == [id : Keys, status : {"todo", "wip", "done"}, date : Int, order : Nat]

ASSUME NoTaskAssumption == NoTask \notin Task

(* [Task.ID: Task]                                                         *)
Dictionary == [Keys -> Task \cup {NoTask}]
EmptyDictionary == [k \in Keys |-> NoTask]

Values(d) == {d[k] : k \in Keys} \ {NoTask}

withStatus(task, status, date) == [task EXCEPT !.status = status, !.date = date]
withOrder(task, order)         == [task EXCEPT !.order = order]

-----------------------------------------------------------------------------
(* Dictionaries and arrays of tasks.                                       *)

IsLastWithId(s, k, i) == s[i].id = k /\ \A j \in DOMAIN s : j > i => s[j].id # k

(* toKeyedDictionary, and every loop that writes the tasks of an array     *)
(* into a dictionary: the last task with an id wins.                       *)
ToKeyedDictionary(s) ==
  [k \in Keys |-> IF \E i \in DOMAIN s : IsLastWithId(s, k, i)
                  THEN s[CHOOSE i \in DOMAIN s : IsLastWithId(s, k, i)]
                  ELSE NoTask]

Merge(left, right) == [k \in Keys |-> IF right[k] # NoTask THEN right[k] ELSE left[k]]

(* Array(dictionary.values).toKeyedDictionary(): of several values with    *)
(* one id, the one the dictionary happens to list last.                    *)
Rekeyed(d) ==
  {e \in [Keys -> Values(d) \cup {NoTask}] :
     \A k \in Keys : LET same == {v \in Values(d) : v.id = k}
                     IN  IF same = {} THEN e[k] = NoTask ELSE e[k] \in same}

-----------------------------------------------------------------------------
(* Calendar days and the filters of the screens.                           *)

Day(date) == date \div DayLength
(* Mutant: a day is the last 24 hours.                                    *)
MutantToday(date, now) == now - date < DayLength
isDateInToday(date, now)     == Day(date) = Day(now)
isDateInYesterday(date, now) == Day(date) = Day(now) - 1

(* Mutant: everything that is not finished.                                *)
MutantTodo(tasks) == {t \in tasks : t.status # "done"}
todoTasks(tasks) == {t \in tasks : t.status = "todo"}
doneTasks(tasks) == {t \in tasks : t.status = "done"}
todayTasks(tasks, now) ==
  {t \in tasks : t.status = "wip" \/ (t.status = "done" /\ isDateInToday(t.date, now))}
yesterdayTasks(tasks, now) ==
  {t \in tasks : t.status = "done" /\ isDateInYesterday(t.date, now)}

-----------------------------------------------------------------------------
(* Sorting.                                                                *)

Arrangements(S) ==
  {p \in [1..Cardinality(S) -> S] : \A i, j \in DOMAIN p : p[i] = p[j] => i = j}

(* Tasks of equal order stay in whatever order the set was iterated in.    *)
SortedByOrder(S) ==
  {p \in Arrangements(S) : \A i, j \in DOMAIN p : i < j => p[i].order =< p[j].order}

(* The comparator of toViewModels: two done tasks by date, the most recent *)
(* first, any other pair by order.  It is not transitive.                  *)
Precedes(t, u) ==
  IF t.status = "done" /\ u.status = "done" THEN t.date > u.date ELSE t.order < u.order

(* Swift sorts up to 20 elements by insertion from the right, which fixes  *)
(* the result even where the comparator is inconsistent.                   *)
InsertSorted(sorted, t) ==
  LET stops == {i \in DOMAIN sorted : ~Precedes(t, sorted[i])}
      place == IF stops = {} THEN 1 ELSE Max(stops) + 1
  IN  InsertAt(sorted, place, t)

SortedForDisplay(S) ==
  {p \in Arrangements(S) : \E s \in SortedByOrder(S) : p = FoldLeft(InsertSorted, <<>>, s)}

-----------------------------------------------------------------------------
(* DefaultTaskReorderer.                                                   *)

FirstPosition == [at |-> "first"]
LastPosition  == [at |-> "last"]
Between(after, before) == [at |-> "between", after |-> after, before |-> before]

(* firstIndex(of: task); no task is twice in a list made from a Set.       *)
IndexOf(s, task) == CHOOSE i \in DOMAIN s : s[i] = task

(* Mutant: prefix(upTo: afterIndex).                                       *)
MutantSplice(ordered, updated, afterIndex, beforeIndex) ==
  SubSeq(ordered, 1, afterIndex - 1) \o <<updated>> \o SubSeq(ordered, beforeIndex, Len(ordered))

(* prefix(through: afterIndex) + [updated] + suffix(from: beforeIndex).    *)
(* The prefix and the suffix overlap or leave a gap when the two           *)
(* neighbours are not adjacent in `ordered`.                               *)
Splice(ordered, updated, afterIndex, beforeIndex) ==
  SubSeq(ordered, 1, afterIndex) \o <<updated>> \o SubSeq(ordered, beforeIndex, Len(ordered))

Placed(ordered, updated, position, dataStore) ==
  CASE position.at = "first" -> <<updated>> \o ordered
    [] position.at = "last"  -> Append(ordered, updated)
    [] position.at = "between" ->
         LET after  == dataStore[position.after]
             before == dataStore[position.before]
         IN  IF {after, before} \subseteq ToSet(ordered)
             THEN Splice(ordered, updated, IndexOf(ordered, after), IndexOf(ordered, before))
             ELSE <<updated>> \o ordered

(* Mutant: offsets counted from -1.                                        *)
MutantRenumbered(s) == [i \in 1..Len(s) |-> withOrder(s[i], i - 2)]

(* withOrder(offset) for the offsets 0, 1, 2, ...                          *)
Renumbered(s) == [i \in 1..Len(s) |-> withOrder(s[i], i - 1)]

(* What reorderTasks(tasks, toInclude: task, atPosition: position) can     *)
(* return, where `updated` is the task after the transformation.           *)
ReorderTasks(tasks, task, position, updated, dataStore) ==
  {Renumbered(Placed(ordered, updated, position, dataStore)) :
     ordered \in SortedByOrder(tasks \ {task})}

-----------------------------------------------------------------------------
(* Table rows.                                                             *)

Action == {"wip", "done", "todo", "delete"}
Row == [identifier : Keys, actions : SUBSET Action]

(* The actions a row offers, by the status of its task.                    *)
actionsForTask ==
  [done |-> {"todo", "wip", "delete"}, wip |-> {"done", "todo", "delete"}, todo |-> {"wip", "delete"}]

(* DoneTaskViewModelTransformer.                                           *)
actionsForDoneTask == [done |-> {"wip", "delete"}, wip |-> {"delete"}, todo |-> {"delete"}]

ToViewModels(S, actions) ==
  {[i \in 1..Len(p) |-> [identifier |-> p[i].id, actions |-> actions[p[i].status]]] :
     p \in SortedForDisplay(S)}

(* targetPosition(fromIndexPath:): where in its target list a task goes    *)
(* that sits at `row` of the section `rows`.                               *)
TargetPosition(rows, row) ==
  IF row = 1 THEN FirstPosition
  ELSE IF row = Len(rows) THEN LastPosition
  ELSE Between(rows[row - 1].identifier, rows[row + 1].identifier)

=============================================================================
