----------------------------- MODULE TaskScenes -----------------------------
(***************************************************************************)
(* The three task screens of the app - Dashboard, Todo, Done - each with   *)
(* its view controller (the rows it shows) and its interactor (keyedTasks),*)
(* over the task services they are configured with:                        *)
(*                                                                         *)
(*   "memory"  InMemoryTaskService: every callback runs inside the call;   *)
(*   "aws"     AWSTaskService: retrieve and create are answered later or   *)
(*             never, update, batchUpdate and delete have empty bodies,    *)
(*             a list once fetched is served from the AppSync cache, and   *)
(*             its items become tasks each time it is handed over;         *)
(*   "remote"  any other TaskService: the callbacks of the protocol are    *)
(*             escaping, so each may run later, in any order, or never.    *)
(*                                                                         *)
(* Everything here runs on the main thread, so a handler is one action.    *)
(* TaskLists holds the values and the pure functions.                      *)
(***************************************************************************)
EXTENDS TaskLists

CONSTANTS
  Tabs,          (* the screens: a subset of {"dashboard", "todo", "done"}   *)
  ServiceOf,     (* the task service each screen is configured with          *)
  InitialStores, (* the dictionaries a service can hold at launch            *)
  InitialItems,  (* the items the AWS backend can hold at launch             *)
  NoDate,        (* nil: the statusDate of an item without one               *)
  FirstNow,      (* the clock at launch                                      *)
  LastNow,       (* bound: the last clock reading                            *)
  MaxCalls,      (* bound: service calls that have not been answered         *)
  NotCached      (* the AppSync cache before ListTasks has been fetched      *)

Services == {"memory", "aws", "remote"}
Holders  == {"memory", "remote"}

(* ListTasksQuery.Data.ListTask.Item: a status the app does not know and a *)
(* missing date, or one that cannot be parsed, are possible.               *)
Item ==
  [id : Keys, status : {"todo", "wip", "done", "unknown"}, date : Int \cup {NoDate}, order : Nat]
ItemList == [Keys -> Item \cup {NoTask}]

ASSUME TabsAssumption ==
  /\ Tabs \subseteq {"dashboard", "todo", "done"}
  /\ ServiceOf \in [Tabs -> Services]

ASSUME StoreAssumption ==
  /\ InitialStores \subseteq Dictionary
  /\ \A d \in InitialStores, k \in Keys : d[k] # NoTask => d[k].id = k /\ k # EmptyId

ASSUME ItemsAssumption ==
  /\ NoDate \notin Int /\ NoTask \notin Item
  /\ InitialItems \subseteq ItemList
  /\ \A l \in InitialItems, k \in Keys : l[k] # NoTask => l[k].id = k /\ k # EmptyId

ASSUME BoundAssumption ==
  /\ FirstNow \in Nat /\ LastNow \in Nat /\ MaxCalls \in Nat
  /\ NotCached \notin ItemList

NoTab == "none"

VARIABLES
  store,       (* the tasks the services of Holders hold                     *)
  items,       (* the items the AWS backend holds                            *)
  cache,       (* the ListTasks result in the AppSync cache                  *)
  unused,      (* the identifiers no task has been created with              *)
  calls,       (* the service calls that have not been answered              *)
  visible,     (* the tab on screen                                          *)
  keyedTasks,  (* the tasks each interactor holds                            *)
  sections,    (* the rows each view controller shows, section by section    *)
  now          (* the clock                                                  *)

vars == <<store, items, cache, unused, calls, visible, keyedTasks, sections, now>>

-----------------------------------------------------------------------------
(* Calls to a service, and the answers it has ready for their callbacks.   *)

RetrieveCall(t)     == [op |-> "retrieve", tab |-> t]
BatchCall(t, tasks) == [op |-> "batchUpdate", tab |-> t, tasks |-> tasks]
DeleteCall(t, id)   == [op |-> "delete", tab |-> t, id |-> id]
CreateCall(t, task) == [op |-> "create", tab |-> t, task |-> task]
InputCall(t, item)  == [op |-> "createItem", tab |-> t, item |-> item]

RetrievedAnswer(t, held) == [op |-> "retrieved", tab |-> t, held |-> held]
ListedAnswer(t, list, publish) ==
  [op |-> "listed", tab |-> t, list |-> list, publish |-> publish]
UpdatedAnswer(t, tasks) == [op |-> "updated", tab |-> t, tasks |-> tasks]
DeletedAnswer(t, id)    == [op |-> "deleted", tab |-> t, id |-> id]

Call ==
  [op : {"retrieve"}, tab : Tabs]
    \cup [op : {"batchUpdate", "updated"}, tab : Tabs, tasks : Seq(Task)]
    \cup [op : {"delete", "deleted"}, tab : Tabs, id : Keys]
    \cup [op : {"create"}, tab : Tabs, task : Task]
    \cup [op : {"createItem"}, tab : Tabs, item : Item]
    \cup [op : {"retrieved"}, tab : Tabs, held : Dictionary]
    \cup [op : {"listed"}, tab : Tabs, list : ItemList, publish : BOOLEAN]

-----------------------------------------------------------------------------
(* Items and tasks.                                                        *)

(* CreateTaskInput: a task is sent without its date.                       *)
ToInput(task) == [task EXCEPT !.date = NoDate]

(* TaskDTOTransformer.transform at `date`: an item of unknown status is    *)
(* left out, one without a date is given the present one.                  *)
transform(item, date) ==
  IF item = NoTask THEN NoTask
  ELSE IF item.status = "unknown" THEN NoTask
  ELSE IF item.date = NoDate THEN [item EXCEPT !.date = date] ELSE item

Transformed(list, date) == [k \in Keys |-> transform(list[k], date)]

-----------------------------------------------------------------------------
(* The interactor's didSet on keyedTasks: filter, present, display.        *)

displayTasks(t, d) ==
  LET tasks == Values(d) IN
  CASE t = "dashboard" ->
         {<<y, r>> : y \in ToViewModels(yesterdayTasks(tasks, now), actionsForTask),
                     r \in ToViewModels(todayTasks(tasks, now), actionsForTask)}
    [] t = "todo" -> {<<r>> : r \in ToViewModels(todoTasks(tasks), actionsForTask)}
    [] t = "done" -> {<<r>> : r \in ToViewModels(doneTasks(tasks), actionsForDoneTask)}

SetKeyedTasks(t, d) ==
  /\ keyedTasks' = [keyedTasks EXCEPT ![t] = d]
  /\ \E shown \in displayTasks(t, d) : sections' = [sections EXCEPT ![t] = shown]

Show(t, view) ==
  /\ sections' = [sections EXCEPT ![t] = view]
  /\ UNCHANGED keyedTasks

(* Mutant: the fetched dictionary is kept under the service's keys.        *)
MutantFetched(t, held) == SetKeyedTasks(t, held)

(* Mutant: the deleted task leaves the interactor but not the screen.      *)
MutantTrashed(t, id) ==
  /\ keyedTasks' = [keyedTasks EXCEPT ![t][id] = NoTask]
  /\ UNCHANGED sections

didFetchTasks(t, held) == \E d \in Rekeyed(held) : SetKeyedTasks(t, d)
didMoveTask(t, tasks)  == SetKeyedTasks(t, Merge(keyedTasks[t], ToKeyedDictionary(tasks)))
didMoveTaskToTrash(t, id) == SetKeyedTasks(t, [keyedTasks[t] EXCEPT ![id] = NoTask])

-----------------------------------------------------------------------------
(* What the services do with a call.                                       *)

Hold(s, d) == store' = [store EXCEPT ![s] = d]
HoldUpdated(s, tasks) == Hold(s, Merge(store[s], ToKeyedDictionary(tasks)))
HoldWithout(s, id)    == Hold(s, [store[s] EXCEPT ![id] = NoTask])

(* InMemoryTaskService, called by tab t while it shows `view`.  create     *)
(* stores the new task under the id the caller's task had, not under the   *)
(* new one.  Its caller, the router, only prints the answer.               *)
memoryRetrieve(t, c) ==
  /\ c.op = "retrieve"
  /\ didFetchTasks(t, store["memory"])
  /\ UNCHANGED <<store, unused>>

memoryBatchUpdate(t, c) ==
  /\ c.op = "batchUpdate"
  /\ HoldUpdated("memory", c.tasks)
  /\ didMoveTask(t, c.tasks)
  /\ UNCHANGED unused

memoryDelete(t, c, view) ==
  /\ c.op = "delete"
  /\ IF store["memory"][c.id] = NoTask
     THEN Show(t, view) /\ UNCHANGED store
     ELSE HoldWithout("memory", c.id) /\ didMoveTaskToTrash(t, c.id)
  /\ UNCHANGED unused

memoryCreate(t, c, view) ==
  /\ c.op = "create"
  /\ \E id \in unused :
       /\ unused' = unused \ {id}
       /\ Hold("memory", [store["memory"] EXCEPT ![c.task.id] = [c.task EXCEPT !.id = id]])
  /\ Show(t, view)

MemoryCall(t, c, view) ==
  /\ \/ memoryRetrieve(t, c)
     \/ memoryBatchUpdate(t, c)
     \/ memoryDelete(t, c, view)
     \/ memoryCreate(t, c, view)
  /\ UNCHANGED <<items, calls, cache>>

Enqueue(c) ==
  /\ Len(calls) < MaxCalls
  /\ calls' = Append(calls, c)

LaterCall(t, c, view) ==
  /\ Enqueue(c)
  /\ Show(t, view)
  /\ UNCHANGED <<store, items, unused, cache>>

(* Mutant: AWSTaskService always fetches.                                  *)
MutantRetrieve(t, c, view) == c.op = "retrieve" /\ LaterCall(t, c, view)

(* AWSTaskService: the fetch goes to the network only while nothing is     *)
(* cached.                                                                 *)
awsRetrieve(t, c, view) ==
  /\ c.op = "retrieve"
  /\ LaterCall(t, IF cache = NotCached THEN c ELSE ListedAnswer(t, cache, FALSE), view)

awsCreate(t, c, view) ==
  /\ c.op = "create"
  /\ LaterCall(t, InputCall(t, ToInput(c.task)), view)

(* Mutant: a batch update reports success without having reached the       *)
(* backend.                                                                *)
MutantIgnore(t, c, view) ==
  /\ \/ c.op = "batchUpdate" /\ didMoveTask(t, c.tasks)
     \/ c.op = "delete" /\ Show(t, view)
  /\ UNCHANGED <<store, items, unused, cache, calls>>

awsIgnore(t, c, view) ==
  /\ c.op \in {"batchUpdate", "delete"}
  /\ Show(t, view)
  /\ UNCHANGED <<store, items, unused, cache, calls>>

AwsCall(t, c, view) ==
  awsRetrieve(t, c, view) \/ awsCreate(t, c, view) \/ awsIgnore(t, c, view)

CallService(t, c, view) ==
  CASE ServiceOf[t] = "memory" -> MemoryCall(t, c, view)
    [] ServiceOf[t] = "aws"    -> AwsCall(t, c, view)
    [] ServiceOf[t] = "remote" -> LaterCall(t, c, view)

-----------------------------------------------------------------------------
(* The interactors' moves.  Each returns at once if the interactor does    *)
(* not hold the task.                                                      *)

Ignored(t, view) ==
  Show(t, view) /\ UNCHANGED <<store, items, unused, cache, calls>>

MoveInto(t, id, list, position, status, date, view) ==
  LET task == keyedTasks[t][id] IN
  IF task = NoTask THEN Ignored(t, view)
  ELSE \E toUpdate \in ReorderTasks(list, task, position, withStatus(task, status, date),
                                    keyedTasks[t]) :
         CallService(t, BatchCall(t, toUpdate), view)

moveTaskToToday(t, id, position, view) ==
  MoveInto(t, id, todayTasks(Values(keyedTasks[t]), now), position, "wip", now, view)

(* Mutant: the completion date is not moved back a day.                    *)
MutantYesterday(t, id, position, view) ==
  MoveInto(t, id, yesterdayTasks(Values(keyedTasks[t]), now), position, "done", now, view)

moveTaskToYesterday(t, id, position, view) ==
  MoveInto(t, id, yesterdayTasks(Values(keyedTasks[t]), now), position,
           "done", now - DayLength, view)

moveTaskToDone(t, id, position, view) ==
  MoveInto(t, id, doneTasks(Values(keyedTasks[t])), position, "done", now, view)

moveTaskToTodo(t, id, position, view) ==
  MoveInto(t, id, todoTasks(Values(keyedTasks[t])), position, "todo", now, view)

moveTaskToTrash(t, id, view) ==
  IF keyedTasks[t][id] = NoTask THEN Ignored(t, view)
  ELSE CallService(t, DeleteCall(t, keyedTasks[t][id].id), view)

-----------------------------------------------------------------------------
(* What the user does.                                                     *)

(* Mutant: a screen fetches only the first time it appears.                *)
MutantSelectTab(t) ==
  /\ visible' = t
  /\ IF keyedTasks[t] = EmptyDictionary
     THEN CallService(t, RetrieveCall(t), sections[t])
     ELSE Ignored(t, sections[t])
  /\ UNCHANGED now

(* viewWillAppear fetches.                                                 *)
SelectTab(t) ==
  /\ visible' = t
  /\ CallService(t, RetrieveCall(t), sections[t])
  /\ UNCHANGED now

(* moveRowAt: the data source moves the row, then didMoveTask tells the    *)
(* interactor.  Only the dashboard implements didMoveTask, and the Done    *)
(* table has no drag delegate.                                             *)
MovedRow(view, from, row, to, dest) ==
  LET removed == [view EXCEPT ![from] = RemoveAt(@, row)]
  IN  [removed EXCEPT ![to] = InsertAt(@, dest, view[from][row])]

didMoveRow(t, id, to, dest, view) ==
  CASE t = "dashboard" /\ to = 1 ->
         moveTaskToYesterday(t, id, TargetPosition(view[to], dest), view)
    [] t = "dashboard" /\ to = 2 ->
         moveTaskToToday(t, id, TargetPosition(view[to], dest), view)
    [] OTHER -> Ignored(t, view)

MoveRow(t, from, row, to, dest) ==
  /\ visible = t /\ t \in {"dashboard", "todo"}
  /\ <<from, row>> # <<to, dest>>
  /\ dest =< Len(sections[t][to]) + (IF from = to THEN 0 ELSE 1)
  /\ didMoveRow(t, sections[t][from][row].identifier, to, dest,
                MovedRow(sections[t], from, row, to, dest))
  /\ UNCHANGED <<visible, now>>

(* performAction(_:forTask:atIndexPath:) of each view controller, for an   *)
(* action the row offers.                                                  *)
dashboardAction(t, id, action, position) ==
  CASE action = "delete" -> moveTaskToTrash(t, id, sections[t])
    [] action = "done"   -> moveTaskToDone(t, id, position, sections[t])
    [] action = "todo"   -> moveTaskToTodo(t, id, position, sections[t])
    [] action = "wip"    -> moveTaskToToday(t, id, position, sections[t])

todoAction(t, id, action, position) ==
  CASE action = "delete" -> moveTaskToTrash(t, id, sections[t])
    [] action = "done"   -> moveTaskToDone(t, id, position, sections[t])
    [] action = "todo"   -> Ignored(t, sections[t])
    [] action = "wip"    -> moveTaskToToday(t, id, FirstPosition, sections[t])

doneAction(t, id, action) ==
  CASE action = "delete" -> moveTaskToTrash(t, id, sections[t])
    [] action = "wip"    -> moveTaskToToday(t, id, FirstPosition, sections[t])
    [] action \in {"todo", "done"} -> Ignored(t, sections[t])

PerformAction(t, section, row, action) ==
  LET rows == sections[t][section]
      id   == rows[row].identifier
      position == TargetPosition(rows, row)
  IN  /\ visible = t
      /\ action \in rows[row].actions
      /\ CASE t = "dashboard" -> dashboardAction(t, id, action, position)
           [] t = "todo"      -> todoAction(t, id, action, position)
           [] t = "done"      -> doneAction(t, id, action)
      /\ UNCHANGED <<visible, now>>

(* The dashboard's "Add task" alert: a new wip task with an empty id.      *)
AddTask(t) ==
  /\ t = "dashboard" /\ visible = t
  /\ unused # {}
  /\ CallService(t, CreateCall(t, [id |-> EmptyId, status |-> "wip", date |-> now, order |-> 0]),
                 sections[t])
  /\ UNCHANGED <<visible, now>>

-----------------------------------------------------------------------------
(* What happens to a call that is answered later.                          *)

AnswerWith(i, answer) == calls' = ReplaceAt(calls, i, answer)
Forget(i) == calls' = RemoveAt(calls, i)

(* The service carries out call i and has its answer ready.  A new task    *)
(* gets the backend's own identifier, and nobody waits for its answer.     *)
CarryOut(i) ==
  LET c == calls[i]
      s == ServiceOf[c.tab]
  IN  /\ \/ /\ c.op = "retrieve"
            /\ AnswerWith(i, IF s = "aws" THEN ListedAnswer(c.tab, items, TRUE)
                             ELSE RetrievedAnswer(c.tab, store[s]))
            /\ UNCHANGED <<store, items, unused>>
         \/ /\ c.op = "batchUpdate"
            /\ HoldUpdated(s, c.tasks)
            /\ AnswerWith(i, UpdatedAnswer(c.tab, c.tasks))
            /\ UNCHANGED <<items, unused>>
         \/ /\ c.op = "delete"
            /\ HoldWithout(s, c.id)
            /\ AnswerWith(i, DeletedAnswer(c.tab, c.id))
            /\ UNCHANGED <<items, unused>>
         \/ /\ c.op = "create"
            /\ \E id \in unused :
                 /\ unused' = unused \ {id}
                 /\ Hold(s, [store[s] EXCEPT ![id] = [c.task EXCEPT !.id = id]])
            /\ Forget(i)
            /\ UNCHANGED items
         \/ /\ c.op = "createItem"
            /\ \E id \in unused :
                 /\ unused' = unused \ {id}
                 /\ items' = [items EXCEPT ![id] = [c.item EXCEPT !.id = id]]
            /\ Forget(i)
            /\ UNCHANGED store
      /\ UNCHANGED <<cache, visible, keyedTasks, sections, now>>

(* The call or its answer is lost, or the answer is an error: every        *)
(* didnt... handler is empty.                                              *)
Lose(i) ==
  /\ Forget(i)
  /\ UNCHANGED <<store, items, cache, unused, visible, keyedTasks, sections, now>>

(* The callback of call i runs.  A list of items from the network is       *)
(* published to the AppSync cache; from the network or the cache, its      *)
(* items become tasks now.                                                 *)
Deliver(i) ==
  LET c == calls[i] IN
  /\ \/ /\ c.op = "retrieved"
        /\ didFetchTasks(c.tab, c.held)
        /\ UNCHANGED cache
     \/ /\ c.op = "listed"
        /\ didFetchTasks(c.tab, Transformed(c.list, now))
        /\ cache' = IF c.publish THEN c.list ELSE cache
     \/ /\ c.op = "updated"
        /\ didMoveTask(c.tab, c.tasks)
        /\ UNCHANGED cache
     \/ /\ c.op = "deleted"
        /\ didMoveTaskToTrash(c.tab, c.id)
        /\ UNCHANGED cache
  /\ Forget(i)
  /\ UNCHANGED <<store, items, unused, visible, now>>

Tick ==
  /\ now < LastNow
  /\ now' = now + 1
  /\ UNCHANGED <<store, items, cache, unused, calls, visible, keyedTasks, sections>>

-----------------------------------------------------------------------------
Init ==
  /\ \E d \in InitialStores, list \in InitialItems :
       /\ store = [s \in Holders |-> d]
       /\ items = list
       /\ unused = {k \in Ids : d[k] = NoTask /\ list[k] = NoTask}
  /\ cache = NotCached
  /\ calls = <<>>
  /\ visible = NoTab
  /\ keyedTasks = [t \in Tabs |-> EmptyDictionary]
  /\ sections = [t \in Tabs |-> <<>>]
  /\ now = FirstNow

Next ==
  \/ \E t \in Tabs : SelectTab(t) \/ AddTask(t)
  \/ \E t \in Tabs : \E from, to \in DOMAIN sections[t] :
       \E row \in DOMAIN sections[t][from], dest \in 1..Len(sections[t][to]) + 1 :
         MoveRow(t, from, row, to, dest)
  \/ \E t \in Tabs : \E section \in DOMAIN sections[t] :
       \E row \in DOMAIN sections[t][section], action \in Action :
         PerformAction(t, section, row, action)
  \/ \E i \in DOMAIN calls : CarryOut(i) \/ Deliver(i) \/ Lose(i)
  \/ Tick

Spec == Init /\ [][Next]_vars
-----------------------------------------------------------------------------
(* Properties.                                                             *)

TypeOK ==
  /\ store \in [Holders -> Dictionary]
  /\ items \in ItemList
  /\ cache \in ItemList \cup {NotCached}
  /\ unused \subseteq Ids
  /\ calls \in Seq(Call)
  /\ visible \in Tabs \cup {NoTab}
  /\ keyedTasks \in [Tabs -> Dictionary]
  /\ sections \in [Tabs -> Seq(Seq(Row))]
  /\ now \in Nat

(* An interactor finds a task under the task's own identifier, whatever    *)
(* order answers come in and whatever keys the service used.               *)
KeyedById ==
  \A t \in Tabs, k \in Keys : keyedTasks[t][k] # NoTask => keyedTasks[t][k].id = k

(* Every row on a screen stands for a task its interactor holds, so no     *)
(* swipe or drop is silently dropped by the guards of the moves.           *)
RowsResolve ==
  \A t \in Tabs : \A x \in DOMAIN sections[t] : \A r \in DOMAIN sections[t][x] :
    keyedTasks[t][sections[t][x][r].identifier] # NoTask

(* No task has two rows on a screen: not in one section, not in two.       *)
NoDuplicateRows ==
  \A t \in Tabs : \A x, y \in DOMAIN sections[t] :
    \A r \in DOMAIN sections[t][x], q \in DOMAIN sections[t][y] :
      sections[t][x][r].identifier = sections[t][y][q].identifier => x = y /\ r = q

(* With the shared in-memory service, the screen the user looks at holds   *)
(* exactly what the service holds, although each screen keeps a copy and   *)
(* nothing tells the others of a change.                                   *)
VisibleFresh ==
  visible \in Tabs /\ ServiceOf[visible] = "memory" => keyedTasks[visible] = store["memory"]

(* A task deleted from the in-memory service stays deleted: no screen's    *)
(* batch update writes back a copy it still holds.                         *)
DeletedStaysDeleted ==
  [][\A k \in Keys : store["memory"][k] = NoTask => store'["memory"][k] = NoTask]_store

(* No step changes the status of two tasks of the in-memory service: the   *)
(* tasks a move only renumbers keep the status another screen gave them.   *)
StatusOf(task) == IF task = NoTask THEN NoTask ELSE <<task.status, task.date>>
OneStatusAtATime ==
  [][\A j, k \in Keys :
       /\ StatusOf(store["memory"][j]) # StatusOf(store'["memory"][j])
       /\ StatusOf(store["memory"][k]) # StatusOf(store'["memory"][k])
       => j = k]_store

(* On the Todo and Done screens a task once made wip is out of the user's  *)
(* reach: neither can finish it, put it back or delete it.                 *)
WipOutOfReach ==
  [][\A k \in Keys : LET task == store["memory"][k] IN
       task # NoTask /\ task.status = "wip"
       => store'["memory"][k] # NoTask
            /\ StatusOf(store'["memory"][k]) = StatusOf(task)]_store

(* The rows of section x of tab t, as identifiers.                         *)
RowIds(view, x) == [r \in DOMAIN view[x] |-> view[x][r].identifier]

(* A row dropped among the wip tasks of Today stays exactly where it was   *)
(* dropped once the service has taken the move, provided the section shows *)
(* the wip tasks the interactor holds and no two have the same order.      *)
Sortable(t) ==
  LET today == todayTasks(Values(keyedTasks[t]), now)
  IN  /\ \A u \in today : u.status = "wip"
      /\ \A u, w \in today : u.order = w.order => u = w
      /\ {u.id : u \in today} = {row.identifier : row \in ToSet(sections[t][2])}
DropSticks ==
  [][\A from \in DOMAIN sections["dashboard"] : \A row \in DOMAIN sections["dashboard"][from] :
       \A dest \in 1..Len(sections["dashboard"][2]) + 1 :
         Sortable("dashboard") /\ MoveRow("dashboard", from, row, 2, dest)
         => RowIds(sections'["dashboard"], 2)
              = RowIds(MovedRow(sections["dashboard"], from, row, 2, dest), 2)]_vars

(* A row dropped into a section shows in that section, and only there,     *)
(* once the service has taken the move.                                    *)
DropLandsInSection ==
  [][\A from, to \in DOMAIN sections["dashboard"] :
       \A row \in DOMAIN sections["dashboard"][from] :
         \A dest \in 1..Len(sections["dashboard"][to]) + 1 :
           \/ \A x \in DOMAIN sections'["dashboard"] :
                (x = to) <=> \E r \in DOMAIN sections'["dashboard"][x] :
                  sections'["dashboard"][x][r].identifier
                    = sections["dashboard"][from][row].identifier
           \/ ~MoveRow("dashboard", from, row, to, dest)]_vars

(* Over AWSTaskService the dashboard never holds a change of its own: what *)
(* it holds of a task is the backend's item, moved and deleted rows        *)
(* included, as it was read at one time or another since the launch: that  *)
(* is the date of a task whose item has none.                              *)
DashboardMatchesServer ==
  \A k \in Keys : keyedTasks["dashboard"][k] # NoTask
                  => \E date \in FirstNow..now :
                       keyedTasks["dashboard"][k] = transform(items[k], date)

(* Once a list is cached and no other list is on its way, none ever is:    *)
(* that list is all the dashboard will be given, read again at each fetch, *)
(* and a task created later never reaches it.                              *)
OnlyThisList ==
  /\ cache # NotCached
  /\ \A i \in DOMAIN calls : /\ calls[i].op # "retrieve"
                             /\ calls[i].op = "listed" => calls[i].list = cache
CachedListServed ==
  [][OnlyThisList
     => /\ OnlyThisList' /\ cache' = cache
        /\ keyedTasks'["dashboard"] \in {keyedTasks["dashboard"]} \cup Rekeyed(Transformed(cache, now))]_vars
=============================================================================
