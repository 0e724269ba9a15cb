--------------------------- MODULE QueryWatchers ---------------------------
(***************************************************************************)
(* Watched queries over the normalized cache: GraphQLQueryWatcher,         *)
(* FetchQueryOperation and send of ApolloClient, and ApolloStore with its  *)
(* concurrent queue, its barriers and its read/write lock.                 *)
(*                                                                         *)
(* Every watcher watches one list query: a root record with the list and a *)
(* record for each item.  A load reads the root first and the items in a   *)
(* second batch, on queues of its own, with the lock held in between.      *)
(* Handlers run on the main queue.                                         *)
(***************************************************************************)
EXTENDS Integers, FiniteSets, Sequences

CONSTANTS
  Watchers,     (* the watchers an app may start                           *)
  Items,        (* the items a list may have                               *)
  Root,         (* the key of the root record                              *)
  None,         (* no record, operation or context                         *)
  PolicyOf,     (* the cache policy each is started with                   *)
  Cancels,      (* those that may be cancelled                             *)
  NetworkFails, (* whether queries fail                                    *)
  MaxFetches,   (* bound: fetches of a watcher in progress                 *)
  MaxEvents     (* bound: changes at the backend, refetches and updates    *)

CachePolicy == {"elseFetch", "ignore", "dontFetch", "andFetch"}

ASSUME NamesAssumption == Root \notin Items /\ None \notin Watchers
ASSUME WatchersAssumption == PolicyOf \in [Watchers -> CachePolicy] /\ Cancels \subseteq Watchers
ASSUME FlagAssumption == NetworkFails \in BOOLEAN
ASSUME BoundsAssumption == {MaxFetches, MaxEvents} \subseteq Nat

Operations == Watchers \X (1..MaxFetches)

VARIABLES
  server,        (* what the backend holds: the list, the items' versions   *)
  cache,         (* the records of the normalized cache                     *)
  cacheLock,     (* the operations that hold the lock for reading           *)
  storeQueue,    (* the blocks of the store's queue not yet started         *)
  handlerQueue,  (* the blocks of the main queue                            *)
  subscribers,   (* the store's                                             *)
  ops,           (* the fetches in progress                                 *)
  fetching,      (* the fetch each watcher can cancel                       *)
  dependentKeys, (* of each watcher                                         *)
  cancelled,     (* the watchers cancel() was called on                     *)
  watched,       (* those started                                           *)
  epoch,         (* history: how often the cache has changed                *)
  due,           (* history: the last change each watcher is to hear of     *)
  heard,         (* history: the latest epoch its handler was called with   *)
  events         (* the changes, refetches and updates so far               *)

store    == <<cache, cacheLock, storeQueue, subscribers>>
watchers == <<ops, fetching>>
vars == <<server, store, handlerQueue, watchers, dependentKeys, cancelled, watched,
          epoch, due, heard, events>>

Block(b) == storeQueue' = Append(storeQueue, b)
Result(w, answer, e) == [kind |-> "result", watcher |-> w, answer |-> answer, epoch |-> e]

Event == events < MaxEvents /\ events' = events + 1

(* perform waits for its optimistic update on the main thread.             *)
MainFree == \A n \in DOMAIN storeQueue : storeQueue[n].kind # "update"

-----------------------------------------------------------------------------
(* Records.  The root record has the list, an item's its version; either   *)
(* may be missing.                                                         *)

Content == [list : {None} \cup SUBSET Items, items : [Items -> {None} \cup Nat]]
Nothing == [list |-> None, items |-> [i \in Items |-> None]]

Over(old, new) == IF new = None THEN old ELSE new
Merged(new) ==
  [list  |-> Over(cache.list, new.list),
   items |-> [i \in Items |-> Over(cache.items[i], new.items[i])]]

(* The keys of the records a merge changes.                                *)
Changed(new) ==
  (IF new.list \in {None, cache.list} THEN {} ELSE {Root})
    \cup {i \in Items : new.items[i] \notin {None, cache.items[i]}}

(* The answer that a list and the records of its items make, if none is    *)
(* missing, and the keys it depends on.                                    *)
Answer(list, items) ==
  IF list = None \/ \E i \in list : items[i] = None THEN Nothing
  ELSE [list |-> list, items |-> [i \in Items |-> IF i \in list THEN items[i] ELSE None]]
Keys(answer) == IF answer.list = None THEN {} ELSE {Root} \cup answer.list

-----------------------------------------------------------------------------
(* Fetches.                                                                *)

NoOp == [stage |-> "none", policy |-> "none", isCancelled |-> FALSE,
         list |-> None, answer |-> Nothing, epoch |-> 0]
NewOp(policy) ==
  [stage |-> IF policy = "ignore" THEN "sent" ELSE "added", policy |-> policy,
   isCancelled |-> FALSE, list |-> None, answer |-> Nothing, epoch |-> 0]

Free(w) == {n \in 1..MaxFetches : ops[<<w, n>>].stage = "none"}
Slot(w) == <<w, CHOOSE n \in Free(w) : TRUE>>

(* _fetch for each of some watchers: a request at once, or an operation.   *)
fetch(ws, policy) ==
  /\ \A w \in ws : Free(w) # {}
  /\ ops' = [o \in Operations |-> IF o[1] \in ws /\ o = Slot(o[1]) THEN NewOp(policy) ELSE ops[o]]
  /\ fetching' = [w \in Watchers |-> IF w \in ws THEN Slot(w) ELSE fetching[w]]

(* The operation ends and is released; fetching is a weak reference.       *)
Finish(o) ==
  /\ ops' = [ops EXCEPT ![o] = NoOp]
  /\ fetching' = [fetching EXCEPT ![o[1]] = IF @ = o THEN None ELSE @]

Moved(o, stage, list, answer, e) ==
  [ops EXCEPT ![o] = [stage |-> stage, policy |-> ops[o].policy,
                      isCancelled |-> ops[o].isCancelled,
                      list |-> list, answer |-> answer, epoch |-> e]]
Step(o, stage) == ops' = Moved(o, stage, None, Nothing, 0) /\ UNCHANGED fetching

Watch(w) ==
  /\ MainFree
  /\ w \notin watched
  /\ watched' = watched \cup {w}
  /\ Block([kind |-> "subscribe", watcher |-> w])
  /\ fetch({w}, PolicyOf[w])
  /\ UNCHANGED <<server, cache, cacheLock, subscribers, handlerQueue, dependentKeys,
                 cancelled, epoch, due, heard, events>>

Refetch(w) ==
  /\ MainFree
  /\ w \in watched
  /\ Event
  /\ fetch({w}, "ignore")
  /\ UNCHANGED <<server, store, handlerQueue, dependentKeys, cancelled, watched,
                 epoch, due, heard>>

(* cancel: the fetch started last, and the subscription to the store.      *)
Cancel(w) ==
  /\ MainFree
  /\ w \in (watched \cap Cancels) \ cancelled
  /\ cancelled' = cancelled \cup {w}
  /\ Block([kind |-> "unsubscribe", watcher |-> w])
  /\ ops' = IF fetching[w] = None THEN ops
            ELSE [ops EXCEPT ![fetching[w]].isCancelled = TRUE]
  /\ UNCHANGED <<server, cache, cacheLock, subscribers, handlerQueue, fetching, dependentKeys,
                 watched, epoch, due, heard, events>>

(* start of FetchQueryOperation.                                           *)
Start(o) ==
  /\ ops[o].stage = "added"
  /\ IF ops[o].isCancelled
     THEN Finish(o) /\ UNCHANGED storeQueue
     ELSE Step(o, "waiting") /\ Block([kind |-> "load", op |-> o])
  /\ UNCHANGED <<server, cache, cacheLock, subscribers, handlerQueue, dependentKeys,
                 cancelled, watched, epoch, due, heard, events>>

-----------------------------------------------------------------------------
(* The store's queue.  A load's block starts as soon as those before it    *)
(* have; a barrier's runs alone, and waits for the loads that hold the     *)
(* lock, and the blocks after it wait for it.                              *)

(* load: take the lock, read the root record.                              *)
BeginLoad ==
  /\ storeQueue # <<>> /\ Head(storeQueue).kind = "load"
  /\ LET o == Head(storeQueue).op IN
     /\ cacheLock' = cacheLock \cup {o}
     /\ ops' = Moved(o, "reading", cache.list, Nothing, 0)
  /\ storeQueue' = Tail(storeQueue)
  /\ UNCHANGED <<server, cache, subscribers, handlerQueue, fetching, dependentKeys,
                 cancelled, watched, epoch, due, heard, events>>

(* Mutant: a load that finds nothing keeps the lock.                       *)
MutantUnlocked(o) ==
  IF Answer(ops[o].list, cache.items) = Nothing THEN cacheLock ELSE cacheLock \ {o}

(* finally: found or not.                                                  *)
Unlocked(o) == cacheLock \ {o}

(* Mutant: the second batch waits for the store's own queue.               *)
MutantEndLoad(o) ==
  /\ storeQueue = <<>>
  /\ ops[o].stage = "reading"
  /\ cacheLock' = Unlocked(o)
  /\ ops' = Moved(o, "loaded", None, Answer(ops[o].list, cache.items), epoch)
  /\ UNCHANGED <<server, cache, storeQueue, subscribers, handlerQueue, fetching,
                 dependentKeys, cancelled, watched, epoch, due, heard, events>>

(* The items are read and the lock is released.                            *)
EndLoad(o) ==
  /\ ops[o].stage = "reading"
  /\ cacheLock' = Unlocked(o)
  /\ ops' = Moved(o, "loaded", None, Answer(ops[o].list, cache.items), epoch)
  /\ UNCHANGED <<server, cache, storeQueue, subscribers, handlerQueue, fetching,
                 dependentKeys, cancelled, watched, epoch, due, heard, events>>

(* The handler of the load: what was found goes to the watcher's handler;  *)
(* the network is asked for what was not.                                  *)
Loaded(o) ==
  LET found  == ops[o].answer # Nothing
      policy == ops[o].policy
  IN
  /\ ops[o].stage = "loaded"
  /\ IF found \/ (policy = "dontFetch" /\ ~ops[o].isCancelled)
     THEN handlerQueue' = Append(handlerQueue, Result(o[1], ops[o].answer, ops[o].epoch))
     ELSE UNCHANGED handlerQueue
  /\ IF ops[o].isCancelled \/ policy = "dontFetch" \/ (found /\ policy # "andFetch")
     THEN Finish(o)
     ELSE Step(o, "sent")
  /\ UNCHANGED <<server, store, dependentKeys, cancelled, watched, epoch, due, heard, events>>

(* didChangeKeys: a watcher is told of what it depends on, except by its   *)
(* own fetches; it fetches again.                                          *)
Dependent(changed) ==
  {w \in Watchers : dependentKeys[w] \cap changed # {}}
Notified(changed, context) == (subscribers \cap Dependent(changed)) \ {context}

didChangeKeys(changed, context) ==
  /\ fetch(Notified(changed, context), "elseFetch")
  /\ epoch' = IF changed = {} THEN epoch ELSE epoch + 1
  /\ due' = [w \in Watchers |-> IF w \in Dependent(changed) \ {context} THEN epoch' ELSE due[w]]

merge(records, context) ==
  /\ cache' = Merged(records)
  /\ didChangeKeys(Changed(records), context)

(* Mutant: the queue's barrier is trusted to keep readers out.             *)
MutantPublish ==
  /\ storeQueue # <<>> /\ Head(storeQueue).kind = "publish"
  /\ merge(Head(storeQueue).records, Head(storeQueue).context)
  /\ storeQueue' = Tail(storeQueue)
  /\ UNCHANGED <<server, cacheLock, subscribers, handlerQueue, dependentKeys, cancelled,
                 watched, heard, events>>

(* publish, with the lock held for writing.                                *)
Publish ==
  /\ storeQueue # <<>> /\ Head(storeQueue).kind = "publish"
  /\ cacheLock = {}
  /\ merge(Head(storeQueue).records, Head(storeQueue).context)
  /\ storeQueue' = Tail(storeQueue)
  /\ UNCHANGED <<server, cacheLock, subscribers, handlerQueue, dependentKeys, cancelled,
                 watched, heard, events>>

(* An optimistic update adds an item to the list it reads, if it can.      *)
RunUpdate ==
  /\ storeQueue # <<>> /\ Head(storeQueue).kind = "update"
  /\ cacheLock = {}
  /\ LET answer == Answer(cache.list, cache.items)
         item   == Head(storeQueue).item
     IN IF answer = Nothing THEN UNCHANGED <<cache, watchers, epoch, due>>
        ELSE merge([list |-> answer.list \cup {item},
                    items |-> [answer.items EXCEPT ![item] = server.items[item]]], None)
  /\ storeQueue' = Tail(storeQueue)
  /\ UNCHANGED <<server, cacheLock, subscribers, handlerQueue, dependentKeys, cancelled,
                 watched, heard, events>>

(* Mutant: the filter keeps the watcher it should drop.                    *)
MutantUnsubscribed(w) == subscribers \cap {w}

Unsubscribed(w) == subscribers \ {w}

RunSubscribe ==
  /\ storeQueue # <<>>
  /\ LET b == Head(storeQueue) IN
     \/ b.kind = "subscribe" /\ subscribers' = subscribers \cup {b.watcher}
     \/ b.kind = "unsubscribe" /\ subscribers' = Unsubscribed(b.watcher)
  /\ storeQueue' = Tail(storeQueue)
  /\ UNCHANGED <<server, cache, cacheLock, handlerQueue, watchers, dependentKeys, cancelled,
                 watched, epoch, due, heard, events>>

-----------------------------------------------------------------------------
(* The network and the main queue.                                         *)

(* The backend answers with what it holds now; the answer travels.         *)
Replied(o) ==
  /\ ops[o].stage = "sent"
  /\ ops' = Moved(o, "replied", None, Answer(server.list, server.items), epoch)
  /\ UNCHANGED <<server, store, handlerQueue, fetching, dependentKeys, cancelled, watched,
                 epoch, due, heard, events>>

(* send: the handler is called, by way of the operation if there is one,   *)
Notify(o, answer, e) ==
  IF ops[o].policy = "ignore"
  THEN Finish(o) /\ handlerQueue' = Append(handlerQueue, Result(o[1], answer, e))
  ELSE /\ Step(o, "answering")
       /\ handlerQueue' = Append(handlerQueue,
            [kind |-> "operation", op |-> o, answer |-> answer, epoch |-> e])

(* and what the answer holds, which may be old by now, is published.       *)
Answered(o) ==
  /\ ops[o].stage = "replied"
  /\ Notify(o, ops[o].answer, ops[o].epoch)
  /\ Block([kind |-> "publish", records |-> ops[o].answer, context |-> o[1]])
  /\ UNCHANGED <<server, cache, cacheLock, subscribers, dependentKeys, cancelled, watched,
                 epoch, due, heard, events>>

(* A cancelled request ends with an error too.                             *)
Failed(o) ==
  /\ ops[o].stage \in {"sent", "replied"}
  /\ NetworkFails \/ ops[o].isCancelled
  /\ Notify(o, Nothing, epoch)
  /\ UNCHANGED <<server, store, dependentKeys, cancelled, watched, epoch, due, heard, events>>

(* Another client changes or adds an item, and a subscription's message    *)
(* brings its record.                                                      *)
Change(i) ==
  /\ Event
  /\ LET version == server.items[i] + (IF i \in server.list THEN 1 ELSE 0)
         records == [Nothing.items EXCEPT ![i] = version]
     IN /\ server' = [list |-> server.list \cup {i}, items |-> [server.items EXCEPT ![i] = version]]
        /\ Block([kind |-> "publish", context |-> None,
                  records |-> [list |-> None, items |-> records]])
  /\ UNCHANGED <<cache, cacheLock, subscribers, handlerQueue, watchers, dependentKeys,
                 cancelled, watched, epoch, due, heard>>

(* perform with an optimistic update.                                      *)
Update(i) ==
  /\ MainFree
  /\ Event
  /\ Block([kind |-> "update", item |-> i])
  /\ UNCHANGED <<server, cache, cacheLock, subscribers, handlerQueue, watchers, dependentKeys,
                 cancelled, watched, epoch, due, heard>>

(* The main queue: the operation passes its answer on and ends; a watcher  *)
(* notes what its result depends on and calls its handler.                 *)
RunHandler ==
  /\ MainFree
  /\ handlerQueue # <<>>
  /\ LET b == Head(handlerQueue) IN
     \/ /\ b.kind = "operation"
        /\ handlerQueue' = Append(Tail(handlerQueue), Result(b.op[1], b.answer, b.epoch))
        /\ Finish(b.op)
        /\ UNCHANGED <<dependentKeys, heard>>
     \/ /\ b.kind = "result"
        /\ handlerQueue' = Tail(handlerQueue)
        /\ dependentKeys' = [dependentKeys EXCEPT ![b.watcher] = Keys(b.answer)]
        /\ heard' = [heard EXCEPT ![b.watcher] = IF @ < b.epoch THEN b.epoch ELSE @]
        /\ UNCHANGED watchers
  /\ UNCHANGED <<server, store, cancelled, watched, epoch, due, events>>

-----------------------------------------------------------------------------
(* The cache is empty, or what an earlier launch left of a list.           *)
Init ==
  /\ \E list \in SUBSET Items : server = [list |-> list, items |-> [i \in Items |-> 0]]
  /\ cache \in {Nothing, Answer(server.list, server.items)}
  /\ cacheLock = {} /\ storeQueue = <<>> /\ handlerQueue = <<>> /\ subscribers = {}
  /\ ops = [o \in Operations |-> NoOp] /\ fetching = [w \in Watchers |-> None]
  /\ dependentKeys = [w \in Watchers |-> {}]
  /\ cancelled = {} /\ watched = {}
  /\ epoch = 0 /\ due = [w \in Watchers |-> 0] /\ heard = [w \in Watchers |-> 0]
  /\ events = 0

RunStore == BeginLoad \/ Publish \/ RunUpdate \/ RunSubscribe

Next ==
  \/ \E w \in Watchers : Watch(w) \/ Refetch(w) \/ Cancel(w)
  \/ \E o \in Operations :
     \/ Start(o) \/ EndLoad(o) \/ Loaded(o)
     \/ Replied(o) \/ Answered(o) \/ Failed(o)
  \/ RunStore \/ RunHandler
  \/ \E i \in Items : Change(i) \/ Update(i)

(* Queues run their blocks, and every request is answered or fails.        *)
Fairness ==
  /\ \A o \in Operations :
       /\ WF_vars(Start(o)) /\ WF_vars(EndLoad(o)) /\ WF_vars(Loaded(o))
       /\ WF_vars(Replied(o) \/ Answered(o) \/ Failed(o))
  /\ WF_vars(RunStore) /\ WF_vars(RunHandler)

Spec == Init /\ [][Next]_vars
FairSpec == Spec /\ Fairness
-----------------------------------------------------------------------------
(* Properties.                                                             *)

Stages == {"none", "added", "waiting", "reading", "loaded", "sent", "replied", "answering"}
Operation ==
  [stage : Stages, policy : CachePolicy \cup {"none"}, isCancelled : BOOLEAN,
   list : {None} \cup SUBSET Items, answer : Content, epoch : Nat]
StoreBlock ==
  [kind : {"subscribe", "unsubscribe"}, watcher : Watchers]
    \cup [kind : {"load"}, op : Operations]
    \cup [kind : {"publish"}, records : Content, context : Watchers \cup {None}]
    \cup [kind : {"update"}, item : Items]
HandlerBlock ==
  [kind : {"result"}, watcher : Watchers, answer : Content, epoch : Nat]
    \cup [kind : {"operation"}, op : Operations, answer : Content, epoch : Nat]

(* The variables have their types; the lock is held by the loads between   *)
(* their two batches, and a watcher can only cancel a fetch of its own.    *)
TypeOK ==
  /\ server \in [list : SUBSET Items, items : [Items -> Nat]] /\ cache \in Content
  /\ storeQueue \in Seq(StoreBlock) /\ handlerQueue \in Seq(HandlerBlock)
  /\ subscribers \subseteq Watchers /\ cancelled \subseteq Watchers /\ watched \subseteq Watchers
  /\ ops \in [Operations -> Operation]
  /\ cacheLock = {o \in Operations : ops[o].stage = "reading"}
  /\ fetching \in [Watchers -> Operations \cup {None}]
  /\ \A w \in Watchers : fetching[w] # None =>
       fetching[w][1] = w /\ ops[fetching[w]].stage # "none"
  /\ dependentKeys \in [Watchers -> SUBSET ({Root} \cup Items)]
  /\ epoch \in Nat /\ heard \in [Watchers -> Nat] /\ due \in [Watchers -> Nat]
  /\ events \in Nat

(* A load reads the list, and its items a batch later: the list is still   *)
(* the one in the cache, so that an answer is what the cache held at one   *)
(* moment, whatever is published and updated meanwhile.                    *)
WholeAnswers ==
  \A o \in Operations : ops[o].stage = "reading" => ops[o].list = cache.list

(* Every fetch ends: no load, barrier or blocked main thread waits for     *)
(* another for ever.                                                       *)
EveryFetchEnds == \A o \in Operations : ops[o].stage # "none" ~> ops[o].stage = "none"

(* After a change of something its last result depends on, made by anyone  *)
(* else, a watcher's handler is called with what was there after the       *)
(* change, or with an error, unless it is cancelled.                       *)
ChangeReachesHandler ==
  \A w \in Watchers : due[w] > heard[w] ~> due[w] =< heard[w] \/ w \in cancelled
=============================================================================
