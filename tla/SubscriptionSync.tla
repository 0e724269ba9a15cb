-------------------------- MODULE SubscriptionSync --------------------------
(***************************************************************************)
(* AppSyncSubscriptionWithSync: keeps the app's copy of the backend's data *)
(* current by a subscription, a base query and delta queries.  With it the *)
(* queue that holds subscription messages back while a sync runs           *)
(* (SubscriptionMessagesQueue), the choice of the query (SyncStrategy) and *)
(* the persisted time of the last sync (AWSSubscriptionMetaDataCache).     *)
(*                                                                         *)
(* The backend is a log of changes to items; a version of an item is the   *)
(* place in the log of its last change.  The thread of                     *)
(* internalStateSyncQueue BLOCKS in a sync: `pc` is where it is.  The      *)
(* store's queue and the handlers' queue are FIFO sequences of blocks.     *)
(***************************************************************************)
EXTENDS Integers, SequencesExt

CONSTANTS
  Items,           (* what the queries and the subscription are about      *)
  None,            (* no time, no query                                    *)
  Slack,           (* the 2 seconds setLastSyncTime takes off              *)
  BaseInterval,    (* baseRefreshIntervalInSeconds                         *)
  HasSubscription, (* whether there is a subscription                      *)
  HasDelta,        (* whether there is a delta query                       *)
  SubscribingFails, (* whether a request to subscribe may fail             *)
  QueriesFail,     (* whether a query may fail                             *)
  BackendRejects,  (* whether an answer may bring GraphQL errors, no data  *)
  Prompt,          (* whether the app's queues run before the clock moves  *)
                   (* and before a timer fires                             *)
  Disorder,        (* whether messages may overtake each other or be       *)
                   (* doubled                                              *)
  MayCancel,       (* whether the caller cancels                           *)
  MaxTravel,       (* how long an answer or a message travels, at most     *)
  MaxChanges,      (* bound: changes on the backend                        *)
  MaxTime,         (* bound: the clock                                     *)
  MaxNotices,      (* bound: foreground and connectivity notices           *)
  MaxDrops,        (* bound: disconnections                                *)
  MaxCrashes       (* bound: crashes of the app                            *)

ASSUME NumbersAssumption ==
  {Slack, BaseInterval, MaxTravel, MaxChanges, MaxTime, MaxNotices,
   MaxDrops, MaxCrashes} \subseteq Nat
ASSUME FlagsAssumption ==
  {HasSubscription, HasDelta, SubscribingFails, QueriesFail, BackendRejects, Prompt,
   Disorder, MayCancel} \subseteq BOOLEAN
ASSUME NoneAssumption == None \notin Int

VARIABLES
  now,            (* the wall clock                                        *)
  log,            (* the changes on the backend                            *)
  wire,           (* the messages on their way to the watcher              *)
  watching,       (* subscriptionWatcher is there and not cancelled        *)
  replacing,      (* an older watcher is still there as well               *)
  subscribing,    (* its connection is up, SUBSCRIBE is on its way         *)
  listening,      (* the broker has taken the subscription                 *)
  pc,             (* what the operation of internalStateSyncQueue is doing *)
  ops,            (* the operations that wait in internalStateSyncQueue    *)
  query,          (* the query on its way                                  *)
  timer,          (* nextSyncTimer                                         *)
  syncStart,      (* baseQueryDispatchTime                                 *)
  registered,     (* for foreground and connectivity notices               *)
  cancelled,      (* cancel() has been called                              *)
  lastSyncTime,   (* syncStrategy.lastSyncTime                             *)
  savedSyncTime,  (* the row of subscription_metadata                      *)
  isDelivering,   (* the messages queue delivers                           *)
  messages,       (* messagesQueue                                         *)
  deliveries,     (* the operations of deliveryQueue                       *)
  storeQueue,     (* the barrier blocks of the store's queue               *)
  handlerQueue,   (* the blocks of the queue the handlers are called on    *)
  store,          (* the version of each item in the normalized cache      *)
  shown,          (* the version the handlers last gave the app            *)
  appended,       (* history: the messages appended since the launch       *)
  delivered,      (* history: those delivered                              *)
  based,          (* history: a base query has succeeded                   *)
  unanswered,     (* history: how much of the log was there when an answer *)
                  (* without data last counted as a sync; 0 once a base    *)
                  (* result brings everything                              *)
  sentFrom,       (* history: how much was there when the sync connected   *)
  heardFrom,      (* history: and when the broker took the subscription    *)
  seen,           (* history: the newest version shown of each item        *)
  notices, drops, crashes

backend  == <<now, log>>
link     == <<wire, watching, replacing, subscribing, listening>>
sync     == <<pc, ops, query, timer, syncStart, registered, cancelled>>
times    == <<lastSyncTime, savedSyncTime>>
queue    == <<isDelivering, messages, deliveries>>
queues   == <<storeQueue, handlerQueue>>
caches   == <<store, shown>>
history  == <<appended, delivered, based, unanswered, sentFrom, heardFrom, seen>>
bounds   == <<notices, drops, crashes>>
vars == <<backend, link, sync, times, queue, queues, caches, history, bounds>>

(* The versions an answer or a message brings, over those there were.      *)
Over(old, new) == [i \in Items |-> IF i \in DOMAIN new THEN new[i] ELSE old[i]]

ChangesOf(i) == {k \in DOMAIN log : log[k].item = i}
Latest(i) == IF ChangesOf(i) = {} THEN 0 ELSE CHOOSE k \in ChangesOf(i) : \A l \in ChangesOf(i) : l =< k

(* What the message of a change brings.                                    *)
Version(k) == [i \in {log[k].item} |-> k]

(* The handlers give versions to the app.                                  *)
Display(new) ==
  /\ shown' = Over(shown, new)
  /\ seen' = [i \in Items |-> IF i \in DOMAIN new /\ new[i] > seen[i] THEN new[i] ELSE seen[i]]

(* Blocks: a message for the handlers, versions to show, versions to merge *)
(* into the cache.                                                         *)
Message(k) == [kind |-> "message", change |-> k]
Show(versions) == [kind |-> "show", versions |-> versions]
Publish(versions) == [kind |-> "publish", versions |-> versions]

-----------------------------------------------------------------------------
(* The world: the clock, the backend, the connection.                      *)

(* What has arrived on the wire so far when the connection goes.           *)
LoseTheRest == \E n \in 0..Len(wire) : wire' = SubSeq(wire, 1, n)

Drained == deliveries = <<>> /\ storeQueue = <<>> /\ handlerQueue = <<>>

(* An answer or a message on its way arrives within MaxTravel; Prompt      *)
(* queues are empty by then.                                               *)
Tick ==
  /\ now < MaxTime
  /\ pc = "querying" /\ query.answer # <<>> => now < query.evaluatedAt + MaxTravel
  /\ \A k \in ToSet(wire) : now < log[k].time + MaxTravel
  /\ Prompt => Drained
  /\ now' = now + 1
  /\ UNCHANGED <<log, link, sync, times, queue, queues, caches, history, bounds>>

(* A change, and its message to whoever listens.                           *)
Change(i) ==
  /\ Len(log) < MaxChanges
  /\ log' = Append(log, [item |-> i, time |-> now])
  /\ wire' = IF listening THEN Append(wire, Len(log) + 1) ELSE wire
  /\ UNCHANGED <<now, watching, replacing, subscribing, listening, sync, times, queue, queues,
                 caches, history, bounds>>

(* The connection goes, or is closed.                                      *)
Disconnect ==
  /\ listening \/ subscribing
  /\ listening' = FALSE /\ subscribing' = FALSE
  /\ LoseTheRest

Drop ==
  /\ drops < MaxDrops
  /\ drops' = drops + 1
  /\ Disconnect
  /\ UNCHANGED <<backend, watching, replacing, sync, times, queue, queues, caches,
                 history, notices, crashes>>

(* The MQTT client reconnects by itself, without a sync.                   *)
Reconnect ==
  /\ watching /\ ~listening /\ ~subscribing /\ pc # "subscribing"
  /\ subscribing' = TRUE
  /\ UNCHANGED <<backend, wire, watching, replacing, listening, sync, times, queue, queues,
                 caches, history, bounds>>

(* The broker takes the subscription; nobody waits for its SUBACK.         *)
Subscribed ==
  /\ subscribing
  /\ subscribing' = FALSE /\ listening' = TRUE
  /\ heardFrom' = Len(log)
  /\ UNCHANGED <<backend, wire, watching, replacing, sync, times, queue, queues, caches,
                 appended, delivered, based, unanswered, sentFrom, seen, bounds>>

-----------------------------------------------------------------------------
(* Times.                                                                  *)

(* Mutant: no time is taken off.                                           *)
MutantSetLastSyncTime(date) == lastSyncTime' = date /\ savedSyncTime' = date

setLastSyncTime(date) ==
  /\ lastSyncTime' = date - Slack
  /\ savedSyncTime' = date - Slack

(* A delta query if the last sync was less than the interval ago, whether  *)
(* or not there is one.                                                    *)
methodToUseForSync ==
  IF lastSyncTime # None /\ now - lastSyncTime =< BaseInterval THEN "delta" ELSE "base"

-----------------------------------------------------------------------------
(* The queue of messages.                                                  *)

Delivery(k, live) == [change |-> k, date |-> now, live |-> live]

(* append: at once if the queue delivers and is empty, or after the others.*)
appendMessage(k) ==
  /\ IF isDelivering /\ messages = <<>>
     THEN deliveries' = Append(deliveries, Delivery(k, TRUE)) /\ UNCHANGED messages
     ELSE messages' = Append(messages, Delivery(k, FALSE)) /\ UNCHANGED deliveries
  /\ UNCHANGED isDelivering
  /\ appended' = Append(appended, k)

(* Mutant: the messages stay in the queue.                                 *)
MutantStartDelivery ==
  /\ deliveries' = deliveries \o messages
  /\ UNCHANGED messages
  /\ isDelivering' = TRUE

(* Mutant: the messages that were held back are dropped.                   *)
MutantDiscard ==
  /\ messages' = <<>>
  /\ isDelivering' = TRUE
  /\ UNCHANGED deliveries

startDelivery ==
  /\ deliveries' = deliveries \o messages
  /\ messages' = <<>>
  /\ isDelivering' = TRUE

(* Mutant: delivery goes on during the sync.                               *)
MutantStopDelivery == UNCHANGED isDelivering

stopDelivery == isDelivering' = FALSE

(* Mutant: the delivery queue is not serial.                               *)
MutantDeliver ==
  /\ deliveries # <<>>
  /\ LET m == Head(deliveries) IN
     IF m.live
     THEN /\ handlerQueue' = Append(handlerQueue, Show(Version(m.change)))
          /\ delivered' = Append(delivered, m.change)
          /\ deliveries' = Tail(deliveries)
          /\ UNCHANGED storeQueue
     ELSE /\ Len(storeQueue) < 4
          /\ storeQueue' = Append(storeQueue, [kind |-> "held"])
          /\ UNCHANGED <<handlerQueue, delivered, deliveries>>
  /\ UNCHANGED <<backend, link, sync, times, isDelivering, messages, caches,
                 appended, based, unanswered, sentFrom, heardFrom, seen, bounds>>

(* deliverSubscriptionResult: a live message goes to the handler; one that *)
(* was held back first gets a transaction of the store, and its operation  *)
(* waits for it.                                                           *)
Deliver ==
  /\ deliveries # <<>>
  /\ \A n \in DOMAIN storeQueue : storeQueue[n].kind # "held"
  /\ LET m == Head(deliveries) IN
     IF m.live
     THEN /\ handlerQueue' = Append(handlerQueue, Show(Version(m.change)))
          /\ delivered' = Append(delivered, m.change)
          /\ deliveries' = Tail(deliveries)
          /\ UNCHANGED storeQueue
     ELSE /\ storeQueue' = Append(storeQueue, [kind |-> "held"])
          /\ UNCHANGED <<handlerQueue, delivered, deliveries>>
  /\ UNCHANGED <<backend, link, sync, times, isDelivering, messages, caches,
                 appended, based, unanswered, sentFrom, heardFrom, seen, bounds>>

-----------------------------------------------------------------------------
(* A sync, on internalStateSyncQueue.                                      *)

(* The first operation registers for notices, loads the last sync time and *)
(* shows what the cache holds; every one goes on with performSync.         *)
BeginSync ==
  /\ pc = "idle" /\ ops # <<>>
  /\ ops' = Tail(ops)
  /\ IF Head(ops) = "initial"
     THEN /\ registered' = TRUE
          /\ lastSyncTime' = savedSyncTime
          /\ Display(store)
     ELSE UNCHANGED <<registered, lastSyncTime, shown, seen>>
  /\ stopDelivery
  /\ syncStart' = now
  /\ IF HasSubscription
     THEN pc' = "subscribing" /\ watching' = TRUE /\ replacing' = (watching \/ replacing)
     ELSE pc' = "choosing" /\ UNCHANGED <<watching, replacing>>
  /\ UNCHANGED <<backend, wire, subscribing, listening, query, timer, cancelled, savedSyncTime,
                 messages, deliveries, queues, store, appended, delivered, based, unanswered,
                 sentFrom, heardFrom, bounds>>

(* The MQTT client closes the old connection before the new one is up.     *)
CloseOld ==
  /\ pc = "subscribing"
  /\ Disconnect
  /\ UNCHANGED <<backend, watching, replacing, sync, times, queue, queues, caches,
                 history, bounds>>

(* The store's queue when a watcher is cancelled: its messages' blocks find *)
(* no handler.                                                             *)
Muted ==
  [n \in DOMAIN storeQueue |->
     IF storeQueue[n].kind = "message" THEN [kind |-> "unheard"] ELSE storeQueue[n]]

(* The connect callback, once SUBSCRIBE has been sent; it needs a watcher  *)
(* that was not cancelled.  It cancels the old watcher.                    *)
Connected ==
  /\ pc = "subscribing" /\ watching /\ ~listening /\ ~subscribing
  /\ pc' = "choosing"
  /\ subscribing' = TRUE /\ replacing' = FALSE
  /\ sentFrom' = Len(log)
  /\ \/ UNCHANGED storeQueue
     \/ /\ replacing
        /\ storeQueue' = Muted
  /\ UNCHANGED <<backend, wire, watching, listening, ops, query, timer, syncStart, registered,
                 cancelled, times, queue, handlerQueue, caches, appended, delivered, based,
                 unanswered, heardFrom, seen, bounds>>

(* performSync returns before its defer: delivery stays off, no sync is    *)
(* scheduled.                                                              *)
SubscribeFails ==
  /\ SubscribingFails
  /\ pc = "subscribing" /\ watching
  /\ pc' = "idle"
  /\ UNCHANGED <<backend, link, ops, query, timer, syncStart, registered,
                 cancelled, times, queue, queues, caches, history, bounds>>

(* Mutant: a sync that failed is not scheduled again.                      *)
MutantFinishSync(successful) ==
  /\ pc' = "idle" /\ query' = None
  /\ startDelivery
  /\ timer' = IF successful THEN [kind |-> "base", due |-> syncStart + BaseInterval]
              ELSE None
  /\ UNCHANGED <<ops, syncStart, registered, cancelled>>

(* The defer: deliver what was held back, schedule the next sync.          *)
FinishSync(successful) ==
  /\ pc' = "idle" /\ query' = None
  /\ startDelivery
  /\ timer' = IF successful THEN [kind |-> "base", due |-> syncStart + BaseInterval]
              ELSE [kind |-> "retry", due |-> now]
  /\ UNCHANGED <<ops, syncStart, registered, cancelled>>

RunQuery ==
  /\ pc = "choosing"
  /\ methodToUseForSync = "delta" => HasDelta
  /\ pc' = "querying"
  /\ query' = [method |-> methodToUseForSync, since |-> lastSyncTime, sentAt |-> now,
               answer |-> <<>>, evaluatedAt |-> now]
  /\ UNCHANGED <<backend, link, ops, timer, syncStart, registered, cancelled,
                 times, queue, queues, caches, history, bounds>>

(* runDeltaQuery returns true where there is no delta query.               *)
SkipQuery ==
  /\ pc = "choosing"
  /\ methodToUseForSync = "delta" /\ ~HasDelta
  /\ FinishSync(TRUE)
  /\ UNCHANGED <<backend, link, times, queues, caches, history, bounds>>

ChangedSince(i, since) == Latest(i) # 0 /\ log[Latest(i)].time >= since

(* The backend evaluates the query: every item, or those changed since.    *)
Evaluate ==
  /\ pc = "querying" /\ query.answer = <<>>
  /\ LET asked == IF query.method = "base" THEN Items
                  ELSE {i \in Items : ChangedSince(i, query.since)}
     IN query' = [query EXCEPT !.answer = <<[i \in asked |-> Latest(i)]>>,
                               !.evaluatedAt = now]
  /\ UNCHANGED <<backend, link, pc, ops, timer, syncStart, registered, cancelled,
                 times, queue, queues, caches, history, bounds>>

(* A base result is handed to its handler, and its records to the store.   *)
BaseAnswered ==
  /\ pc = "querying" /\ query.method = "base" /\ query.answer # <<>>
  /\ pc' = "answered"
  /\ handlerQueue' = Append(handlerQueue, [kind |-> "base", versions |-> query.answer[1]])
  /\ storeQueue' = Append(storeQueue, Publish(query.answer[1]))
  /\ UNCHANGED <<backend, link, ops, query, timer, syncStart, registered, cancelled,
                 times, queue, caches, history, bounds>>

(* A delta result goes through the store, and dates from its answer.       *)
DeltaAnswered ==
  /\ pc = "querying" /\ query.method = "delta" /\ query.answer # <<>>
  /\ FinishSync(TRUE)
  /\ setLastSyncTime(now)
  /\ storeQueue' = storeQueue \o <<Show(query.answer[1]), Publish(query.answer[1])>>
  /\ UNCHANGED <<backend, link, handlerQueue, caches, history, bounds>>

(* An answer of GraphQL errors and no data is a result without an error    *)
(* and without records: it counts as a sync though there is nothing to     *)
(* show and nothing to store.                                              *)
Nothing == [i \in {} |-> 0]

BaseRejected ==
  /\ BackendRejects
  /\ pc = "querying" /\ query.method = "base" /\ query.answer # <<>>
  /\ pc' = "answered"
  /\ handlerQueue' = Append(handlerQueue, [kind |-> "rejected"])
  /\ UNCHANGED <<backend, link, ops, query, timer, syncStart, registered, cancelled,
                 times, queue, storeQueue, caches, history, bounds>>

DeltaRejected ==
  /\ BackendRejects
  /\ pc = "querying" /\ query.method = "delta" /\ query.answer # <<>>
  /\ FinishSync(TRUE)
  /\ setLastSyncTime(now)
  /\ unanswered' = Len(log)
  /\ storeQueue' = Append(storeQueue, Show(Nothing))
  /\ UNCHANGED <<backend, link, handlerQueue, caches, appended, delivered, based, sentFrom,
                 heardFrom, seen, bounds>>

(* runDeltaQuery returns true whatever becomes of the query.               *)
QueryFails ==
  /\ QueriesFail
  /\ pc = "querying"
  /\ FinishSync(query.method = "delta")
  /\ UNCHANGED <<backend, link, times, queues, caches, history, bounds>>

-----------------------------------------------------------------------------
(* The store and the handlers.                                             *)

(* messageCallbackDelegate: the message goes to the handler by way of the  *)
(* store, its records are merged into the cache.  While a watcher is being *)
(* replaced both may be subscribed to the topic.                           *)
Arrive ==
  \E n \in DOMAIN wire, copies \in 1..2 :
    /\ n = 1 \/ Disorder
    /\ copies = 1 \/ (replacing /\ Disorder)
    /\ wire' = RemoveAt(wire, n)
    /\ LET k == wire[n]
           once == <<Message(k), Publish(Version(k))>>
       IN storeQueue' = storeQueue \o (IF copies = 1 THEN once ELSE once \o once)
    /\ UNCHANGED <<backend, watching, replacing, subscribing, listening, sync, times, queue,
                   handlerQueue, caches, history, bounds>>

(* The store runs its blocks in order.  A message held back is shown once  *)
(* its transaction is there, and counts as a sync.                         *)
RunStore ==
  /\ storeQueue # <<>>
  /\ LET b == Head(storeQueue)
         m == Head(deliveries)
     IN CASE b.kind = "publish" ->
               /\ store' = Over(store, b.versions)
               /\ UNCHANGED <<handlerQueue, times, deliveries, delivered>>
          [] b.kind \in {"message", "show"} ->
               /\ handlerQueue' = Append(handlerQueue, b)
               /\ UNCHANGED <<store, times, deliveries, delivered>>
          [] b.kind = "unheard" ->
               UNCHANGED <<store, handlerQueue, times, deliveries, delivered>>
          [] b.kind = "held" ->
               /\ handlerQueue' = Append(handlerQueue, Show(Version(m.change)))
               /\ setLastSyncTime(m.date)
               /\ deliveries' = Tail(deliveries)
               /\ delivered' = Append(delivered, m.change)
               /\ UNCHANGED store
  /\ storeQueue' = Tail(storeQueue)
  /\ UNCHANGED <<backend, link, sync, isDelivering, messages, shown, appended, based, unanswered,
                 sentFrom, heardFrom, seen, bounds>>

(* The handlers' queue: a message is appended to the messages queue,       *)
(* versions are shown; a base result, with data or without, also ends its  *)
(* sync, dated from the request.                                           *)
RunHandler ==
  /\ handlerQueue # <<>>
  /\ LET b == Head(handlerQueue)
     IN CASE b.kind = "message" ->
               /\ appendMessage(b.change)
               /\ UNCHANGED <<sync, times, shown, seen, based, unanswered>>
          [] b.kind = "show" ->
               /\ Display(b.versions)
               /\ UNCHANGED <<sync, times, queue, appended, based, unanswered>>
          [] b.kind = "base" ->
               /\ Display(b.versions)
               /\ setLastSyncTime(query.sentAt)
               /\ based' = TRUE /\ unanswered' = 0
               /\ FinishSync(TRUE)
               /\ UNCHANGED appended
          [] b.kind = "rejected" ->
               /\ setLastSyncTime(query.sentAt)
               /\ unanswered' = Len(log)
               /\ FinishSync(TRUE)
               /\ UNCHANGED <<shown, seen, appended, based>>
  /\ handlerQueue' = Tail(handlerQueue)
  /\ UNCHANGED <<backend, link, storeQueue, store, delivered, sentFrom, heardFrom, bounds>>

-----------------------------------------------------------------------------
(* What makes the next sync, and what ends it.                             *)

TimerFires ==
  /\ timer # None /\ now >= timer.due
  /\ Prompt => Drained
  /\ timer' = None
  /\ ops' = Append(ops, "sync")
  /\ UNCHANGED <<backend, link, pc, query, syncStart, registered, cancelled,
                 times, queue, queues, caches, history, bounds>>

(* applicationWillEnterForeground, or didConnectivityChange to available.  *)
SyncNotice ==
  /\ registered /\ notices < MaxNotices
  /\ notices' = notices + 1
  /\ ops' = Append(ops, "sync")
  /\ UNCHANGED <<backend, link, pc, query, timer, syncStart, registered, cancelled,
                 times, queue, queues, caches, history, drops, crashes>>

(* internalCancel; operations that wait or run are left alone.  It cancels *)
(* the current watcher: an old one that is still being replaced goes on.   *)
Cancel ==
  /\ MayCancel /\ ~cancelled
  /\ cancelled' = TRUE /\ registered' = FALSE
  /\ timer' = None
  /\ watching' = FALSE
  /\ \/ /\ pc = "subscribing" /\ replacing
        /\ storeQueue' \in {storeQueue, Muted}
        /\ UNCHANGED <<wire, replacing, subscribing, listening>>
     \/ /\ ~(pc = "subscribing" /\ replacing)
        /\ storeQueue' = Muted
        /\ wire' = <<>> /\ replacing' = FALSE /\ subscribing' = FALSE /\ listening' = FALSE
  /\ UNCHANGED <<backend, pc, ops, query, syncStart, times, queue, handlerQueue,
                 caches, history, bounds>>

(* The app is killed and launched again, and starts the sync again.        *)
Restart ==
  /\ crashes < MaxCrashes
  /\ crashes' = crashes + 1
  /\ wire' = <<>> /\ watching' = FALSE /\ replacing' = FALSE
  /\ subscribing' = FALSE /\ listening' = FALSE
  /\ pc' = "idle" /\ ops' = <<"initial">> /\ query' = None /\ timer' = None
  /\ registered' = FALSE /\ cancelled' = FALSE
  /\ lastSyncTime' = None
  /\ isDelivering' = FALSE /\ messages' = <<>> /\ deliveries' = <<>>
  /\ storeQueue' = <<>> /\ handlerQueue' = <<>>
  /\ shown' = [i \in Items |-> 0] /\ seen' = [i \in Items |-> 0]
  /\ appended' = <<>> /\ delivered' = <<>> /\ sentFrom' = 0 /\ heardFrom' = 0
  /\ UNCHANGED <<backend, syncStart, savedSyncTime, store, based, unanswered, notices, drops>>

-----------------------------------------------------------------------------
Init ==
  /\ now = 0 /\ log = <<>>
  /\ wire = <<>> /\ watching = FALSE /\ replacing = FALSE
  /\ subscribing = FALSE /\ listening = FALSE
  /\ pc = "idle" /\ ops = <<"initial">> /\ query = None /\ timer = None /\ syncStart = 0
  /\ registered = FALSE /\ cancelled = FALSE
  /\ lastSyncTime = None /\ savedSyncTime = None
  /\ isDelivering = FALSE /\ messages = <<>> /\ deliveries = <<>>
  /\ storeQueue = <<>> /\ handlerQueue = <<>>
  /\ store = [i \in Items |-> 0] /\ shown = [i \in Items |-> 0]
  /\ appended = <<>> /\ delivered = <<>> /\ based = FALSE /\ seen = [i \in Items |-> 0]
  /\ unanswered = 0 /\ sentFrom = 0 /\ heardFrom = 0
  /\ notices = 0 /\ drops = 0 /\ crashes = 0

(* The steps of the app's own threads.                                     *)
Work == BeginSync \/ RunQuery \/ SkipQuery

Next ==
  \/ Tick \/ Drop \/ Reconnect \/ CloseOld \/ Connected \/ SubscribeFails \/ Subscribed
  \/ Arrive \/ Deliver \/ RunStore \/ RunHandler
  \/ BeginSync \/ RunQuery \/ SkipQuery \/ TimerFires
  \/ Evaluate \/ BaseAnswered \/ DeltaAnswered \/ BaseRejected \/ DeltaRejected \/ QueryFails
  \/ SyncNotice \/ Cancel \/ Restart
  \/ \E i \in Items : Change(i)

(* The app's threads run, what is on a connection arrives, the broker      *)
(* takes subscriptions, and requests to subscribe and queries are answered *)
(* one way or the other.                                                   *)
Fairness ==
  /\ WF_vars(Work) /\ WF_vars(TimerFires)
  /\ WF_vars(Arrive) /\ WF_vars(Deliver) /\ WF_vars(RunStore) /\ WF_vars(RunHandler)
  /\ WF_vars(CloseOld \/ Connected \/ SubscribeFails) /\ WF_vars(Reconnect) /\ WF_vars(Subscribed)
  /\ WF_vars(Evaluate)
  /\ WF_vars(BaseAnswered \/ DeltaAnswered \/ BaseRejected \/ DeltaRejected \/ QueryFails)

Spec == Init /\ [][Next]_vars
FairSpec == Spec /\ Fairness
-----------------------------------------------------------------------------
(* Properties.                                                             *)

Versions == [Items -> 0..MaxChanges]
Times == {None} \cup (-Slack)..MaxTime
Partial == UNION {[S -> 0..MaxChanges] : S \in SUBSET Items}
MessageType == [change : 1..MaxChanges, date : 0..MaxTime, live : BOOLEAN]
QueryType ==
  [method : {"base", "delta"}, since : Times, sentAt : 0..MaxTime,
   answer : {<<>>} \cup {<<v>> : v \in Partial}, evaluatedAt : 0..MaxTime]
BlockType ==
  [kind : {"message"}, change : 1..MaxChanges] \cup [kind : {"held", "unheard", "rejected"}]
  \cup [kind : {"show", "publish", "base"}, versions : Partial]

(* The variables have their types; a query is there while it is on its way *)
(* or its result waits for the handler, and a "held" block while the first *)
(* delivery waits for the store.                                           *)
TypeOK ==
  /\ now \in 0..MaxTime
  /\ log \in Seq([item : Items, time : 0..MaxTime]) /\ Len(log) =< MaxChanges
  /\ ToSet(wire) \subseteq DOMAIN log
  /\ {watching, replacing, subscribing, listening, registered, cancelled, isDelivering}
       \subseteq BOOLEAN
  /\ {unanswered, sentFrom, heardFrom} \subseteq 0..Len(log)
  /\ pc \in {"idle", "subscribing", "choosing", "querying", "answered"}
  /\ ops \in Seq({"initial", "sync"})
  /\ IF pc \in {"querying", "answered"} THEN query \in QueryType ELSE query = None
  /\ pc = "answered" <=> \E n \in DOMAIN handlerQueue : handlerQueue[n].kind \in {"base", "rejected"}
  /\ timer # None => timer.kind \in {"base", "retry"} /\ timer.due \in Nat
  /\ lastSyncTime \in Times /\ savedSyncTime \in Times
  /\ messages \in Seq(MessageType) /\ deliveries \in Seq(MessageType)
  /\ storeQueue \in Seq(BlockType) /\ handlerQueue \in Seq(BlockType)
  /\ (\E n \in DOMAIN storeQueue : storeQueue[n].kind = "held")
     => deliveries # <<>> /\ ~Head(deliveries).live
  /\ {store, shown, seen} \subseteq Versions

(* The version the store holds of an item once its queue has run.          *)
Coming(i) ==
  LET ks == {n \in DOMAIN storeQueue :
               storeQueue[n].kind = "publish" /\ i \in DOMAIN storeQueue[n].versions}
  IN  IF ks = {} THEN store[i]
      ELSE storeQueue[CHOOSE n \in ks : \A l \in ks : l =< n].versions[i]

(* Whatever messages are lost: a change from before the last sync time,    *)
(* which no later delta query asks for, is in the store or on its way      *)
(* there, unless an answer without data has passed for a sync since.       *)
NothingSkipped ==
  savedSyncTime # None =>
    \A k \in DOMAIN log :
      log[k].time < savedSyncTime => k =< unanswered \/ Coming(log[k].item) >= k

(* The last sync time is the time of a sync that was successful, whatever  *)
(* the backend answered: what changed before it is in the store or on its  *)
(* way there.                                                              *)
SyncedUpToTime ==
  savedSyncTime # None =>
    \A k \in DOMAIN log : log[k].time < savedSyncTime => Coming(log[k].item) >= k

(* Every message appended is delivered once, in the order it was appended. *)
InOrderOnce ==
  appended = delivered \o [n \in DOMAIN deliveries |-> deliveries[n].change]
                       \o [n \in DOMAIN messages |-> messages[n].change]

(* While a query is on its way or its result waits for the handler, no     *)
(* message is handed out for delivery.                                     *)
InQuery == pc \in {"querying", "answered"}
HeldBack == [][InQuery /\ InQuery' => Len(deliveries') =< Len(deliveries)]_vars

(* Every change that was there when the last sync sent SUBSCRIBE, whatever *)
(* the connections before lost of it, and every change from after the      *)
(* broker took the subscription has been shown to the app, or was replaced *)
(* by one that has, once all that is on its way has come: only what falls  *)
(* between the two can be missing until the next sync.                     *)
Quiet == pc = "idle" /\ ops = <<>> /\ listening /\ wire = <<>> /\ messages = <<>> /\ Drained
NoGap ==
  Quiet => \A k \in DOMAIN log :
             k > unanswered /\ (k =< sentFrom \/ k > heardFrom) => seen[log[k].item] >= k

(* Where requests to subscribe do not fail, and unless queries fail or are *)
(* answered without data for ever, the app ends up showing and storing     *)
(* what the backend has, whatever was lost, delayed or overwritten: but    *)
(* for what an answer without data left out, if no base query follows it.  *)
Converges ==
  <>[][~(QueryFails \/ BaseRejected \/ DeltaRejected)]_vars
  => <>[](\A i \in Items : Latest(i) > unanswered => shown[i] = Latest(i) /\ store[i] = Latest(i))

(* A delta query is only run where a base query has filled the store.      *)
DeltaAfterBase == query # None /\ query.method = "delta" => based

(* A sync runs a query.                                                    *)
SyncFetches == [][pc = "choosing" => pc' # "idle"]_vars

(* A sync whose query failed is retried with the backoff.                  *)
FailedSyncRetried == [][QueryFails => timer'.kind = "retry"]_vars

(* After cancel() nothing is left running.                                 *)
CancelIsFinal == cancelled => ~watching /\ timer = None

(* The store never takes an older version of an item for a newer one.      *)
StoreKeepsNewest == [][\A i \in Items : store'[i] >= store[i]]_vars
=============================================================================
