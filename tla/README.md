# Standup: a verification project

Standup is an iOS task list. A Dashboard shows what was done yesterday and what
is in hand today; two more screens show what is still to do and what is done.
The dashboard's tasks live in an AWS AppSync backend, reached through the
vendored AppSync client; the other two screens share an in-memory service.

This directory holds TLA+ modules translated from that code, TLC configurations
that check them on small instances, and proofs for TLAPS. `PROJECT.json` maps
every definition to its lines of source and lists the runs, the mutants, the
findings and the hazards.

## 1. The system

| Component | State | Operations | Talks to |
|---|---|---|---|
| Task values (`Task`, filters, `DefaultTaskReorderer`, `toViewModels`) | none | filter by day and status, reorder, sort, splice | used by the screens |
| Screens (Dashboard, Todo, Done): view controller, interactor, presenter | `sections` (rows shown), `keyedTasks` (tasks held) | fetch on appearance, move rows, swipe actions, five moves, callbacks | one `TaskService` each |
| `InMemoryTaskService.shared` | `tasks` | create, retrieve, batchUpdate, delete, all answered inside the call | Todo and Done screens |
| `AWSTaskService` | none of its own | create and retrieve through the client; update, batchUpdate, delete are empty | AppSync client |
| AppSync client: `MutationExecutor`, `AWSMutationCache`, `PerformMutationOperation` | queue in memory, SQLite table, dispatch group, pause flag | queue, submit, drain, answer, pause, resume, load | HTTP transport, reachability, SQLite |
| Reachability, `SnapshotProcessController`, `AWSAppSyncNetworkStatusChangeNotifier` | two `Reachability` objects, `isInitialConnection` | notice posted, notice handled | executor |
| HTTP transport, retry handler | attempts | send, retry on 429/5xx, answer | backend |
| Apollo client and store (`ApolloStore`, `GraphQLQueryWatcher`, `FetchQueryOperation`) | normalized cache, read/write lock, subscribers; each watcher's `fetching` and `dependentKeys` | watch, refetch, cancel, load, publish, optimistic update | transport, SQLite, main queue |
| Subscription sync (`AppSyncSubscriptionWithSync`, `SubscriptionMessagesQueue`, `SyncStrategy`) | last sync time in memory and in its row, held-back messages, timer | subscribe, base and delta query, hold back, deliver, schedule, cancel | subscriptions, store, backend |
| Subscriptions over MQTT (`AWSAppSyncSubscriptionWatcher`, `AppSyncMQTTClient`) | MQTT clients and their topics, subscribers of each topic, timer | request, reset, status notice, message, cancel | backend, MQTT broker, store |
| Add/Complete/Edit/Delete actions | none | protocol extensions nothing conforms to | - |

What is hard here, and which properties make each part right:

* **Screens.** Two screens keep copies of the same tasks and write whole tasks
  back; answers of a service may be late, reordered or lost; rows on screen are
  filtered by a day that may have ended since; a drop is described by
  neighbouring rows sorted by one comparator and spliced into a list sorted by
  another. Right means: a screen never writes back what was deleted or undoes
  another screen's move, rows always stand for tasks, no task shows twice, a
  dropped row stays where it was dropped.
* **Mutation queue.** The main thread, the URL session's threads, the
  reachability queues and crashes interleave; the main thread blocks on a
  dispatch group; the table and the queue are written separately. Right means:
  nothing is lost or forgotten, nothing overtakes the queue, an answer removes
  its own record, duplicates are bounded by retries and crashes, and draining
  ends.
* **Sync.** Messages, query answers, timers, notices, cancellation and crashes
  interleave; a message may be lost with its connection, doubled or reordered;
  the last sync time decides what is never asked for again, and an answer of
  errors without data counts as a sync. Right means: no change falls before that
  time without being in the store, a sync leaves no gap but the moment the broker
  takes to subscribe, messages come once and in order, and the app ends up with
  what the backend has.
* **MQTT.** Every new subscription replaces the connections of all; blocks of a
  concurrent queue run in any order with what they looked up before. Right
  means: every subscription is connected or told, stays so through the others'
  resets, hears nothing twice, and nothing unused stays open or subscribed.
* **Watched queries.** A load changes queues with a lock held, barriers wait for
  it, the main thread may wait for a barrier, and watchers start new loads from
  inside a barrier. Right means: an answer is what the cache held at one moment,
  nobody waits for ever, and a change reaches the handlers it concerns.

The hazards, each at its line, are in `PROJECT.json`.

## 2. Modules

| Module | Models |
|---|---|
| `TaskLists` | the values and the pure functions of the screens |
| `TaskScenes` | the screens, and the services they call; EXTENDS `TaskLists` |
| `MCTaskScenes` | small instances of `TaskScenes` |
| `MutationExecutor` | the offline mutation queue with its table, the reachability notices and the requests |
| `MutationDelivery` | what that queue promises: a line of mutations, sent in order, answered or given up |
| `MCMutationExecutor` | small instances of `MutationExecutor` |
| `SubscriptionSync`, `MCSubscriptionSync` | a sync: subscription, queries, messages queue, last sync time |
| `MqttSubscriptions`, `MCMqttSubscriptions` | how subscriptions share MQTT connections |
| `QueryWatchers`, `MCQueryWatchers` | watched queries over the Apollo store |
| `TaskLists_proofs` | lemmas: what the functions of `TaskLists` return |
| `TaskScenes_proofs` | type correctness of the screens and ten more theorems about them, over any service, over AWS, over the shared in-memory one |
| `MutationExecutor_proofs` | the inductive invariant of the queue and its theorems |
| `MutationDelivery_proofs` | the refinement: `MutationExecutor` implements `MutationDelivery` |
| `QueryWatchers_proofs` | type correctness and whole answers of watched queries |
| `SubscriptionSync_proofs` | the order of messages and their holding back during a query |
| `SubscriptionSyncCoverage_proofs` | type correctness of a sync, and that no change is skipped or missed; EXTENDS `SubscriptionSync_proofs` |
| `MqttSubscriptions_proofs` | type correctness and the three invariants of subscriptions over MQTT |

Each module stands for a component with variables of its own. Composition is by
EXTENDS (`TaskScenes` over `TaskLists`), by refinement (`MutationExecutor` under
`MutationDelivery`) and by abstraction where one component sees only a queue or
an answer of the other: `SubscriptionSync` has the store as a FIFO queue of
blocks, `QueryWatchers` has a subscription's message as a publication.

### TaskLists

A task is a record of id, status, date and order. A dictionary `[Task.ID: Task]`
is a function that is `NoTask` at absent keys; its keys include `EmptyId`, the
empty string, because `InMemoryTaskService.create` stores a new task under it.
Where a result depends on the order in which a Swift `Set` or `Dictionary` is
iterated, the operator is the set of results the code can produce
(`SortedByOrder`, `Rekeyed`, `ReorderTasks`, `ToViewModels`). `toViewModels`
sorts with a comparator that is not transitive, so the sort algorithm matters:
`SortedForDisplay` is the insertion sort Swift uses for up to 20 elements, and
it is applied to the list already sorted by order, as in the code.

A day has `DayLength` clock readings. `isDateInToday` compares calendar days
while `moveTaskToYesterday` subtracts 24 hours, as the code does; the days of a
model all have the same length.

### TaskScenes

`store` is what the services that hold tasks hold, `items` what the AWS backend
does, `keyedTasks` and `sections` are the fields of the interactors and view
controllers, `cache` is the `ListTasks` result in the AppSync store, `calls` are
calls or answers on their way. One action is one
UIKit callback, user action or service callback: `SelectTab` (viewWillAppear),
`MoveRow` (moveRowAt, `moveTask`, `didMoveTask`), `PerformAction` (a swipe
action), `AddTask` (the router's alert), `CarryOut`, `Lose` and `Deliver` (what
becomes of a call), `Tick`. They all run on the main thread and none is
suspended, so each is atomic; over the in-memory service an action includes the
callback and the redisplay, which run inside the call. A row move includes the
data source's change of `sections`, made before the interactor is asked, and
kept if the move is ignored or its answer never comes.

The constant `ServiceOf` gives each screen a service:

* `"memory"`, `InMemoryTaskService`. The app gives it to Todo and Done. The run
  `dashboard_memory` gives it to the Dashboard too: this is
  not how the app is wired now, but `DashboardInteractor` takes any
  `TaskService`, and the in-memory one is the only one in the repository that
  carries a move out.
* `"aws"`, `AWSTaskService`, the Dashboard's service in the app. The backend holds
  items, not tasks: an item may lack its date (`NoDate`, also for one that cannot be
  parsed) or have a status the app does not know. A created task is sent without its
  date (`ToInput`), since `CreateTaskInput` is given none, and every list handed over, from the network
  or the cache, is made into tasks anew (`Transformed`): unknown ones are dropped,
  undated ones get the present date, so that a task the app created is always of today.
* `"remote"`, any `TaskService` whose callbacks, which the protocol declares
  escaping, run later, in any order, or never.

### MutationExecutor

`mutationQueue`, `shouldExecute`, `isInitialConnection` and `group` are fields
of the code (`group` is the count of `dispatchGroup`); `disk` is the table
`mutation_records` in timestamp order. `main` says where the main thread is, and
so replaces `isExecuting`: it is `"draining"`, `"executed"` or `"waiting"`
exactly while `isExecuting` is set. `request` and `path` hold the state of each
mutation's request and how it was sent; `retries` counts its retries. The
remaining variables are histories for the properties.

| Action | Code |
|---|---|
| `ChangeLink`, `Notice`, `Observe` | the device's network; the flags of the notifier's and of the snapshot controller's own `Reachability` objects |
| `HandleNotice` | `checkForReachability`, `appsyncReachabilityChanged`, `onNetworkAvailabilityStatusChanged`, pause or resume |
| `QueueMutation`, `Submit`, `DeleteSent` | `perform`, `queueMutation` and `performMutation`, cut where a crash can come between |
| `ExecuteInMemory`, `ExecutePersistent`, `WaitOver`, `DrainOver` | `executeAllQueuedMutations` and the two ways a record is executed |
| `Execute`, `Retry`, `Complete` | the backend, the retry handler, the completion handlers |
| `Restart` | a crash and the next launch: `init`, `loadPersistedData` |

Three details of the code decide its behaviour and are modelled as they are.
`performMutation` waits for the group with a deadline of 3 ms after the device
was started, which has passed, so it does not wait. `executeMutation` enters the
group before calling `performMutation`, which enters it again. A record refers
to its operation weakly and the app drops the operation `perform` returns, so in
the app a record that was not submitted at once is always sent from its
data; the constant `Held` is the set of mutations whose operation a caller keeps.

### MutationDelivery

The abstract specification of the queue: `line` waits, `underway` is on its way,
`settled` is answered or given up, `executed` is what the backend did. A crash
takes nothing out of the line; it forgets what was on its way and puts back at
most one mutation, at the front. `MutationExecutor` implements it with `line` the
queue without its first record while that record's request is out (operator
`line` there), `underway <- InFlight`, `settled <- answered`,
`executed <- server`. `Delivers` is the abstract safety specification,
`DeliversFairly` adds that what is on its way does not stay there.

### SubscriptionSync

`pc` is where the operation of `internalStateSyncQueue` is: it blocks on
semaphores in the code, so `"subscribing"`, `"querying"` and `"answered"` are
states in which other threads run. `lastSyncTime` is the field, `savedSyncTime`
its row; `messages` is `messagesQueue`, `deliveries` the serial queue behind it;
`storeQueue` and `handlerQueue` are the FIFO queues of the store and of the
handlers. The backend is a log; the version of an item is the place of its last
change in it.

| Action | Code |
|---|---|
| `BeginSync`, `Connected`, `SubscribeFails`, `RunQuery`, `SkipQuery`, `FinishSync` | `performSync` and its `defer`, cut where it blocks |
| `BaseAnswered`, `DeltaAnswered`, `BaseRejected`, `DeltaRejected`, `QueryFails` | the callbacks of `runBaseQueryFromService` and `runDeltaQuery`: with data, with GraphQL errors and no data, with an error |
| `Arrive`, `appendMessage`, `startDelivery`, `stopDelivery`, `Deliver` | a message from `messageCallbackDelegate` through the messages queue to the handler |
| `RunStore`, `RunHandler` | a block of the store's queue, of the handlers' queue |
| `TimerFires`, `SyncNotice`, `Cancel`, `Restart` | what starts and ends syncs |
| `CloseOld`, `Drop`, `Reconnect`, `Subscribed`, `Change`, `Evaluate`, `Tick` | MQTT, the network, the broker, the backend, the clock |

The connect callback runs when SUBSCRIBE has been sent; nobody waits for the SUBACK.
So `Connected` and `Reconnect` set `subscribing` only, and the broker takes the
subscription in a step of its own, `Subscribed`, before or after the query is answered; `listening` is
what the broker knows. `sentFrom` and `heardFrom` note how much had changed at the
one and at the other. An answer of GraphQL errors and no data is a result without an
error for the code (`GraphQLResponse.parseResult`): `BaseRejected` and `DeltaRejected`
set the last sync time with nothing shown or stored, and `unanswered` notes how much
had changed by then. `cancel()` cancels the current watcher; while one is being
replaced, the old one goes on (the two disjuncts of `Cancel`).

### MqttSubscriptions

`requesting` is the watcher whose request blocks the serial queue of
subscriptions; everything else runs in blocks of a concurrent queue, kept as
bags and sets and run in any order. A status change of a client (`Open`, `Drop`,
`Retry`) posts a block that reads the status when it runs (`Report`), which posts
one that looks the client's topics up (`Notice`) and uses them later (`Handle`); a
message is looked up and handed over in two steps too (`LookUp`, `Callback`).
`resetAndStartSubscriptions` is the whole timer block: it disconnects
every client, and opens new ones for the topics somebody wants. A run-time
error of the code (unwrapping nil, subscribing on a disconnected client) ends
the app: `crash`.

`mqttClientsWithTopics` is the code's dictionary; `subscribed` is what each MQTT client
has sent a SUBSCRIBE for (its `topicListeners`, which it sends again when it reconnects).
The two differ: a block may subscribe to a topic that a clean-up has taken out of the
dictionary since its look-up (`revived`). What the broker has taken is not known to
the code, and a message may reach any of the clients that have sent a SUBSCRIBE
(`Publish`).

### QueryWatchers

Every watcher watches one list query: a root record that holds the list, and a
record for each item. `ops` are the fetches in progress, an operation or a bare
request; `fetching` is the weak reference `cancel` uses. `storeQueue` holds the
blocks of the store's concurrent queue that have not started. A load's block
starts as soon as those before it have (`BeginLoad`), takes the read lock, and
goes on in another queue with a second batch (`EndLoad`); a barrier's block
(`Publish`, `RunUpdate`, `RunSubscribe`) runs alone, and publications and updates
wait for the lock. `MainFree` is that `perform` blocks the main thread until its
optimistic update has run.

| Action | Code |
|---|---|
| `Watch`, `Refetch`, `Cancel`, `fetch` | `ApolloClient.watch`, `GraphQLQueryWatcher.refetch`, `cancel`, `fetch` |
| `Start`, `Loaded` | `FetchQueryOperation.start` and the handler of its load |
| `BeginLoad`, `EndLoad` | `withinReadTransaction`, `execute`, its `finally` |
| `Publish`, `RunUpdate`, `didChangeKeys` | `publish`, `withinReadWriteTransaction`, the subscribers told in it |
| `Replied` | the backend, which evaluates a query before its answer travels |
| `Answered`, `Failed`, `RunHandler` | `send`, the handlers on the main queue |
| `Change`, `Update` | a message of a subscription, `perform` with an optimistic update |

## 3. Runs

| Run | Instance | Shows |
|---|---|---|
| `app_screens` | the three screens as the app configures them: Todo and Done over the shared service, with three tasks; the Dashboard over AWSTaskService, with two items, some without a date or of unknown status, one more to be added, and three calls on their way; midnight | fetching on appearance keeps the two copies from harming each other; a wip task is out of both screens' reach; the dashboard holds nothing but what becomes of the backend's items, and keeps reading the first list it fetched |
| `dashboard_memory` | up to three tasks, one to be added, midnight between the two clock readings | a dropped row stays where it was dropped and in its section, rows resolve, no task shows twice, tasks are held by their own ids |
| `dashboard_remote` | one task, three calls on their way, midnight | late, reordered and lost answers leave screen and interactor consistent |
| `mutations_crash` | three mutations, one of them held, one crash, network on and off | the table is the queue; nothing is lost, forgotten or overtaken; the queue implements `MutationDelivery` |
| `mutations_online` | two mutations, none held, three connections, a retry, fairness | the group counts the requests, draining ends, every request is settled, duplicates are bounded |
| `mutations_held` (violation) | one operation held | the main thread blocks for ever |
| `sync_lossy` | base and delta queries, a connection lost, answers without data, answers and messages that travel up to the slack, two clock steps | only an answer without data makes a change be skipped; a sync misses nothing but what falls between SUBSCRIBE and the broker taking it |
| `sync_faults` | failing requests and queries, no delta query, reordered and doubled messages, a cancellation, a crash | each message is delivered once and in order, none is handed out during a query |
| `sync_converges` | failing queries, answers without data, a lost connection, one clock step, fairness | app and store end up with what the backend has, also where a delta query asks for a part only |
| `mqtt_shared` | two subscriptions, one on a topic of the other's, one connection and its replacement, a lost connection, cancellations | nobody is cut off unless a reset was skipped; nothing unused is open or subscribed but what a stale look-up revived |
| `mqtt_connects` | the same with a message, no cancellation, fairness | nobody hears a message twice; everybody is connected or told |
| `query_watchers` | two watchers, three fetches each, one item, one of: a change, a refetch, an optimistic update; one watcher may be cancelled; fairness | answers are whole, every fetch ends, a change reaches the handlers |

*Bounds: screens and mutations.* Clock readings start high enough that yesterday
exists and end after one midnight, which is the only event of the clock the code
can see; two days of two readings tell "24 hours ago" from "the day before".
Three tasks give a drop two neighbours, which is all `targetPosition` looks at;
two tasks and a free identifier give deletion, creation and moves between
sections. `MaxCalls` 3 lets two answers cross while a third is on its way. Two
mutations let one wait behind another, three let a queue of two wait behind a
request; `MaxNotices` lets a notice be handled after the connection has changed
again.

*Bounds: sync.* One unit of the clock is the 2 seconds `setLastSyncTime` takes off
(`Slack`), and `MaxTravel` says how long an answer or a message may travel; with
`MaxTravel` above `Slack`, TLC finds a skipped change, so the slack is exactly
what the code relies on. `Prompt` says that the app's own queues run before the
clock moves by a unit. `Disorder` lets messages overtake each other and be
doubled. Two changes of one item let a newer version race an older; two clock
steps and an interval of two let a base query, a delta query and a second base
query follow each other. In `sync_converges` the clock makes one step, so that a
delta query asks for a part of the changes. `Converges` leaves out what an answer
without data left out (`unanswered`): only a later base query brings that, and where
the clock stops at its bound no refresh interval passes again.

*Bounds: MQTT.* Two clients let one reset replace a connection and the next
be refused by the bound. Two subscriptions, one of which has a topic of the other's,
are enough for a reset caused by one to hit the other and for a clean-up to keep a
topic that is shared. The runs divide the faults: `mqtt_shared` has the cancellations
and no message, `mqtt_connects` a message and no cancellation. The instance with a
message, a cancellation and a lost connection together (25.8 million states) and the
one with two messages and a cancellation and no loss (2.95 million) are too large to be
run each time; TLC finds the four safety invariants to hold in the first and
`HeardOnce` in the second.

*Bounds: watched queries.* A watcher can have one fetch loading, one waiting in
the store's queue and one on the network, which is `MaxFetches` 3; a change then
comes on top of the publications of the fetches themselves.

Deadlock is not checked: the screens may be left alone, queues be empty, and the
bounds stop the clock, the crashes and the notices; blocked threads are looked
for by the liveness properties instead.

*Fairness.* In `MutationExecutor`, the main thread keeps running the drain or
submission it is in (weak fairness of those steps together, none of which waits
for anything but the group), and every request ends (the URL session answers or
times out, and the retry handler gives up). In `SubscriptionSync`, dispatch queues
run their blocks, timers fire, MQTT reconnects and delivers, the broker takes a
subscription whose connection lasts, requests and queries are answered one way or the
other; `Converges` is conditional on queries neither failing nor being answered
without data for ever. In `MqttSubscriptions`, requests are answered, the timer fires,
clients connect and connect again, blocks run. In `QueryWatchers`, queues run their
blocks and every request is answered or fails. Nothing makes the network change, the
user act or the backend change.

*What the drops show.* `DropSticks` says where a drop in Today lands when all of
Today is wip and no two orders are equal. Both conditions are needed: tasks of
equal order come out in the iteration order of a set, and with finished tasks in
Today the display comparator puts dates before orders.

## 4. Proofs

### The mutation queue

`MutationExecutor_proofs` proves, for any finite set of mutations, any set `Held`,
any connections and any bounds, that `Spec` implies `[]TypeOK`,
`[]DiskMirrorsQueue`, `[]AnswerRemovesItsOwn`, `[]KeptUntilAnswered`,
`[]NoOvertaking` and `[]BoundedDuplicates`, and, where no caller keeps an operation (`Held = {}`, as in
the app), `[]GroupCountsRequests`. It assumes only the ASSUMEs of
`MutationExecutor`.

None of them is inductive. The inductive invariant `IInv` adds what the code
relies on without saying so: the table holds each record once, and only performed
mutations; a request from a record is on its way only while
the main thread waits, and then it is the first record's; a mutation on its way
from memory is no longer in the queue; the group counts at least the requests in
flight, so that the main thread wakes up only when nothing is on its way and an
answer never leaves a group that is empty. The last part carries the proof:
`WaitOver` may drop "waiting" only because a group of zero means no request, and
`Complete` may remove the first record only because "waiting" means that it is
the answered one. The module proves `Init => IInv`, one lemma per part of the
invariant with one step per action, and the properties from `IInv`. Three of them
need more, each by an induction of its own on top of `IInv`. `NoOvertaking` needs
`Order`: the table is in the order of performing, and nothing performed after a
record of the table has a request or has been executed. `GroupCountsRequests` needs
that the mutation being submitted has not been sent before. `BoundedDuplicates`
counts what has happened and so cannot be inductive: `Budget` counts in what may
still happen, one execution for a mutation that is `Due`, because its request is on
its way or because it waits in the queue. A retry or a crash is what makes a
mutation due again, and each is counted on the other side of the inequality.

### The screens

`TaskScenes_proofs` proves, for any finite set of tasks and any number of calls:

* Over any services: `[]TypeOK`, `[]KeyedById`, `[]RowsResolve`, `[]NoDuplicateRows`
  and `DropLandsInSection`. They rest on `IInv`: types, `HeldByKey` (a list is rekeyed
  when it arrives and a merge keeps keys), and `Presents`, that the rows on a screen
  are rows of tasks its interactor holds, each once. `Presents` is what the two
  rebuilding functions establish and what a row moved by the table, before the
  interactor is asked, keeps; every user action comes down to one shape, `UserCall`
  (a call to the screen's service or none, and a view that still presents the tasks),
  so that the services are argued about once. `DropLandsInSection` follows a drop
  through the move, the reorderer and the filters: the status and the date the move
  gives a task put it through exactly the filter of its new section (`OnlyIn`).
* Where the dashboard is served by `AWSTaskService`: `[]DashboardMatchesServer`, and,
  where moreover no screen has a `"remote"` service, `CachedListServed`. Neither says
  that the tasks are the items: `create` sends no date, and whenever a list is read, from
  the network or the cache, an item without a date gets the time of reading and one of
  unknown status is dropped (`transform`). What holds is that a task on the screen is
  what becomes of the backend's item of its id, read at some time since the launch,
  and that the screen's tasks are what becomes of the first list that was fetched, whenever
  it is read. The invariant `Aws` says that the backend is keyed by id and only grows
  (`Backend`), that the cached list and every list on its way are parts of it, and that
  what the screen holds is a reading of such a part (`Copies`): an old list is still
  a true one. The second hypothesis is needed because a fetch from another service is
  a list on its way.
* Where Todo and Done share the in-memory service and no other screen has it, as in
  the app (`SharedService`; the Dashboard may have any other service): `[]VisibleFresh`, `DeletedStaysDeleted`, `OneStatusAtATime`
  and `WipOutOfReach`. They rest on one inductive invariant, `Shared`, and on what it
  says of a step, `Effect`. `Shared` joins `VisibleFresh` (a move is computed from a
  copy, and the copy is the store's), that the store is keyed by id (so that
  rekeying changes nothing) and that every row of a screen stands for a task the
  screen lists. `Effect` says that a step takes at most one task away or somewhere
  else, that it was not wip, and that it renumbers the others at most; it
  follows from `Shared` and from `ReorderElement`.

`TaskLists_proofs` holds what these proofs need of the pure functions:
`ReorderElement` (everything the reorderer returns is the moved task or one of the
list with nothing but its order changed, wherever the splice overlaps or leaves a
gap), that the moved task is among what it returns (`UpdatedIsReturned`) and that the
merge keeps it (`UpdatedIsHeld`), that tasks and rows correspond one to one
(`RowsAreDistinct`, `EveryTaskHasARow`), and what taking a row out and putting it in
leaves (`RemovedElements`, `InsertedElements`). Where a list keeps the last entry of
an id, that there is a last one is well-foundedness of the numbers, not induction.

### The refinement

`MutationDelivery_proofs` proves `Spec => Delivers`: for any mutations, bounds and
held operations, every step of the executor is a step of the abstract line or
leaves it alone. It rests on `IInv` and one more invariant, `Answers`: only
performed mutations are answered, and a record about to be deleted belongs to a
mutation that is on its way or answered. The interesting cases are `Complete`,
which settles and shortens the queue at once, and `Restart`, which may put the
first record back. `DeliversFairly` is checked only.

### Watched queries

`QueryWatchers_proofs` proves, for any watchers, items, policies and bounds,
`[]TypeOK` and `[]WholeAnswers`. `WholeAnswers` holds because whoever changes the
cache finds the lock free, and the lock is held by exactly the loads between
their batches (a conjunct of `TypeOK`). That the lock is not given up or taken
twice for one load needs `Queued`: an operation's block is in the store's queue
only while the operation waits, an answer in the main queue only while it is
answering, and each at most once. `IInv` joins the three and is inductive; most
actions leave loading operations alone (`Calm`) and follow from `CalmStep`.

### The sync

`SubscriptionSync_proofs` proves, for any items, clock, faults and bounds,
`[]InOrderOnce` and `HeldBack`. Both are about a queue that four actors touch: the
handlers append, a sync stops and starts it, the delivery queue takes from its head,
and the store ends the delivery of a message that was held back. `InOrderOnce` is
inductive only with `OneHeld`: there is at most one block of such a delivery in
the store's queue, and while there is one the delivery queue is not empty, so that
the `Tail` the block takes is the message it was posted for. `HeldBack` needs
`Stopped`: delivery is off from the beginning of a sync to its end, so that a
message appended meanwhile waits. `Blocks` says which kinds of blocks the two
queues hold.

`SubscriptionSyncCoverage_proofs` proves `[]TypeOK` for any constants, and, under
hypotheses about the network, the two properties the sync exists for.

*Types.* `TypeInv` says more than `TypeOK`: the log is in the order of its times, what
is on the wire or in an answer is not older than it may travel, a version that is
cached, shown, queued or answered is a place of a change of its item, and one base
result waits for the handler exactly while the sync is "answered".

*No change is skipped.* `NoneSkipped` proves `[]NothingSkipped` under `Recoverable`:
`MaxTravel =< Slack`, `Prompt`, a delta query, queries that are answered, no crash.
Connections may be lost, messages reordered and doubled, requests to subscribe fail,
answers come without data, and the caller may cancel. An answer without data is the
one exception, and it is in the property: the code takes it for a success, and what
had changed by then (`k =< unanswered`) may stay out of the store until a base query
brings data. That this happens is the finding `SyncedUpToTime`. The saved time is not all that matters, since other times
are about to become it: the time in memory, the one a query asks from, the dates
of messages that were held back, and, while a base result waits, the present one;
`Due` is the set of them, and `CoverInv` says that each *reaches*
(`Reach`: every change from before it is in the store or will be, `Coming`) and that
an answer lacks nothing from between the time it was asked from and its
evaluation (`Complete`). A step moves the times only to older ones or, with an
answer, to one the answer reaches (`DueStep`, `AnswerReaches`); and it takes nothing
a travel time old from what is coming (`Kept`), because an older result that overwrites
a newer message in the store (the finding `StoreKeepsNewest`) is younger than that.

*No change is missed.* `NoneMissed` proves `[]NoGap` under `Steady`: `Recoverable`, and
requests to subscribe do not fail. A sync has a gap: it asks once SUBSCRIBE has
been sent, not once the broker has taken it, so what changes in between can be
neither in the answer nor on the wire. `NoGap` says that nothing else is missing: what had
changed when the last SUBSCRIBE was sent (`k =< sentFrom`) and what changed after the broker
had taken the subscription (`k > heardFrom`), but for what an answer without data left
out. The invariant follows each change from the backend to the app; it is `Safe` in one
of three ways. `Lands`: the app has shown it or a newer one of the same item, or it is on the wire,
in a block of either queue, among the messages held back or being delivered, or in the
answer. `ToBeAsked`: the sync that runs has not sent its query yet, and no time it
may ask from is later than the change (`Later`); or the query is on its way and asks
for it. `Missed` and `Owed`: what falls in the gap, and all there is once `cancel()` has
ended the subscription, is not older than any time a later sync could ask from,
including those that queued messages and the answer of a query still on its way will
set, unless that answer has the change. A new change that is not put on a wire is one of
the latter two.

The hypotheses in `Recoverable` are not for the prover's convenience. On the instance of
`sync_lossy`, TLC finds both properties violated when any one of them is dropped:
`MaxTravel` 2 with `Slack` 1, `Prompt` FALSE, or one crash; and, with a second item
(whose message moves the last sync time past a lost change of the first), `HasDelta` FALSE
or `QueriesFail` TRUE. That requests to subscribe do not fail is different: `NoneMissed`
assumes it, but TLC finds `NoGap` to hold on that instance without it (18.3 million
states). `sync_lossy` satisfies all of them.

### Subscriptions over MQTT

`MqttSubscriptions_proofs` proves, for any finite sets of subscriptions and
connections, any topics and bounds, `[]TypeOK`, `[]UnusedReleased`,
`[]ServedUnlessSkipped` and `[]HeardOnce`. It assumes the module's ASSUMEs; that
`None` is no set of watchers and no timer is among them, because the code's `nil` is
neither.

* `TypeOK` says that the clients the code knows are the ones not disconnected;
  the others rest on it. It is proved from `Typed`, which adds that no more clean-ups
  wait than subscriptions have been cancelled.
* `UnusedReleased` is about both the dictionary of topics and what the clients are
  subscribed to. For the dictionary it needs `UsedOrWaiting`: a topic without
  subscribers is there only while a block of `stopSubscription` waits, and a client
  has only topics of `topicSubscribers`, so that the block finds each of them. For the
  subscriptions it needs `HasOrRevived`: a client is subscribed only to topics the
  dictionary gives it, which the clean-up unsubscribes with, or to one that a status block
  had looked up before the clean-up and subscribed to after it. The exception is real
  (the finding `CancelUnsubscribes`).
* `ServedUnlessSkipped` needs `Asked`: the last answer's timer holds every topic
  issued, those of all wanted subscriptions among them. A reset then opens a client
  for each (`OrderOf`: the order it opens connections in leaves none out), and
  a clean-up takes none of them away.
* `HeardOnce` needs two invariants. `Apart`: no two open clients use the same topic,
  where a block that looked a client's topics up before they changed counts as a use.
  `Single` and `Heard`: a message is one block, which no longer has the
  watchers that heard it. What a reset does is stated once, in `ResetEffect`, and what
  a clean-up does in `CleanUpEffect`.

### Only checked by TLC

Every safety property of the runs is proved but one, `DropSticks`: it compares what the
reorderer, the merge, the filter and the display sort make of a list with the
rows as they were dropped, and the sort is a fold, of which nothing can be said for
lists of every length without induction over data. The liveness properties
`DrainEnds`, `DeliversFairly`, `Converges`, `ConnectsOrTold`, `EveryFetchEnds` and
`ChangeReachesHandler` are out of the prover's reach (liveness and ENABLED).
`NothingSkipped` and `NoGap` are proved under hypotheses that the run that checks them
satisfies. No RECURSIVE operator
is used anywhere.

## 5. Findings

The run `mutations_held` expects a violation: `executeMutation` enters the dispatch
group once too often for a record whose operation a caller kept, and the next record
drained blocks the main thread for ever (`AWSOfflineMutationStore.swift:220`), in a loop
whose comment says that all mutations are executed (`AWSOfflineMutationStore.swift:291`).

The modules also state, as definitions, what documentation, comments and checks of
the code promise and the code does not keep. Adding the property to a
configuration makes TLC print a counterexample:

| Property | Instance | What the code does |
|---|---|---|
| `SubmittedWhenOnline` | `mutations_crash`, two mutations, none held | A record left in the queue, which the swallowed first notice leaves after every relaunch, stops the immediate submission of later mutations although the device is online, against the comment at `AWSOfflineMutationStore.swift:193`. |
| `ResultHandlerCalled` | the same without a crash | A mutation queued offline and drained is answered to the delegate only, against the doc of `resultHandler` at `AWSAppSyncClient.swift:872`. |
| `SyncedUpToTime` | `sync_lossy` | An HTTP answer of GraphQL errors and no data sets the last sync time as a successful sync does (`AppSyncSubscriptionWithSync.swift:194`, `:345`, `:383`), against the doc of that time at `AppSyncSubscriptionWithSync.swift:139`; what changed before it is in no later delta query. |
| `DeltaAfterBase` | `sync_faults` with `HasDelta`, no crash or cancellation | Delivering a held-back message sets the last sync time although the base query failed; the next sync runs a delta query over a store never filled, which `AppSyncSubscriptionWithSync.swift:334` says should not happen. |
| `SyncFetches` | `sync_faults` | Without a delta query, a sync within the refresh interval runs no query; the comment at `AppSyncSubscriptionWithSync.swift:428` says the base query is run. |
| `FailedSyncRetried` | `sync_lossy` with `QueriesFail` | A sync whose delta query failed is scheduled as a success, against `AppSyncSubscriptionWithSync.swift:453`. |
| `CancelIsFinal` | `sync_lossy` with `MayCancel` | A sync that waits or runs subscribes and sets a timer after `cancel()`, against `AppSyncSubscriptionWithSync.swift:539`. |
| `NothingSkipped` | `sync_lossy` with a crash | The time of a delta result is persisted before its records are in the store (`AppSyncSubscriptionWithSync.swift:345`): a crash in between loses them until the next base query. |
| `StoreKeepsNewest` | `sync_lossy` | Only the handler's messages are held back: their records go into the store at once, and the older result of the query overwrites them (`AppSyncSubscriptionWithSync.swift:410`). |
| `CancelUnsubscribes` | `mqtt_shared` without losses | A status block that looked a client's topics up before a cancellation's clean-up subscribes to them again after it (`AppSyncMQTTClient.swift:36`), and nothing unsubscribes, against the doc of `cancel` at `AWSAppSyncSubscriptionWatcher.swift:187`. |
| `NoInterruption` | `mqtt_shared` without losses and cancellations | Old clients are muted and disconnected in the block that starts connecting the new ones (`AppSyncMQTTClient.swift:118`), against the comments at `AppSyncMQTTClient.swift:95`. |
| `StaysServed` | `mqtt_shared` | If the subscription that set the timer is cancelled when it fires, all connections are closed and none is opened (`AppSyncMQTTClient.swift:105`). |
| `Converges` | `sync_converges` with `SubscribingFails` | When the request to subscribe has failed, `performSync` returns before its `defer` is there: no further sync is scheduled and delivery stays off, although a connection may come up and messages arrive (`AppSyncSubscriptionWithSync.swift:418`). |
| `CancelReleasesQueue` | `mqtt_connects` with `MayCancel` | Cancelling a subscription whose request is on its way blocks every later subscription for ever (`AWSAppSyncSubscriptionWatcher.swift:109`). |
| `SilentAfterCancel` | `mqtt_shared` with two messages, no losses | A message looked up before `cancel()` unwraps nil after it and ends the app (`AWSAppSyncSubscriptionWatcher.swift:160`). |
| `NoUseAfterDisconnect` | `mqtt_shared` | A connect notice subscribes on a client a reset has disconnected meanwhile, which raises an exception (`AppSyncMQTTClient.swift:38`). |
| `InOrder` | `mqtt_shared` with two messages, no losses | Two messages of a topic, in blocks of a concurrent queue, can reach the handler in the other order; `AppSyncSubscriptionWithSync.swift:44` promises the order they were received in. |
| `ConnectsOrTold` | `mqtt_connects` with outcomes `"ok"`, `"errors"` | An answer with GraphQL errors and no topics counts as success: no callback and no error follow (`AWSAppSyncSubscriptionWatcher.swift:118`), and the sync that waits for one of them waits for ever. |

Two more are plain in the code and in the actions of `QueryWatchers`: `cancel()` of a
watcher cancels only the fetch started last (`GraphQLQueryWatcher.swift:39`), and
`dependentKeys` is set when the handler runs, so that a change published between
a load and its handler is compared with the keys of the result before, and a
failed fetch leaves the watcher deaf (`GraphQLQueryWatcher.swift:32`).

## 6. Not modelled

* `TaskService.update` and the Add, Complete, Edit and Delete actions: nothing calls them.
* Titles, date formats, cells, styles, alerts, drops from other apps.
* A swipe action used after its row has gone; days of 23 or 25 hours.
* The S3 upload path, whose failure never leaves the group
  (`AWSOfflineMutationStore.swift:270`), and conflict resolution: the app uses neither.
* SQLite errors, which the code ignores; `mergeRecords`, which writes the rows of a
  publication one by one without a transaction (`AWSSQLLiteNormalizedCache.swift:187`),
  so that a crash can tear it.
* A clock that steps back, which would reorder the table of mutations and keep a
  sync without a delta query from fetching.
* An answer that has both GraphQL errors and data; refused handshakes and protocol
  errors among the status changes of the MQTT client.
* Two syncs whose operations share a hash (`AppSyncSubscriptionWithSync.swift:517`).
* Data races: the dictionaries of `AppSyncMQTTClient` and a watcher's `dependentKeys`
  are used from several threads without a lock. Blocks are atomic in the models.
* A read-write transaction handed to a message's handler and used after its lock is
  released (`AWSAppSyncSubscriptionWatcher.swift:165`).
* The libraries below: the IoT MQTT and WebSocket clients, AWSCore, SQLite.swift,
  promises and data loaders. Everything modelled is Swift and Objective-C; the
  C headers in the repository belong to these libraries and declare, they do not
  implement.

## 7. Plan

Done: all components the inventory calls modelled or partly modelled, with proofs
of every safety property the runs check but `DropSticks`. Next:

1. The reorderer against a reference definition over all small inputs, and the part
   of `DropSticks` that is not the sort.
2. An abstract specification of a sync (what the app is shown of each item,
   message by message and sync by sync) and `SubscriptionSync` shown to implement it.
3. `QueryWatchers` over the SQLite cache, row by row, with a crash.
