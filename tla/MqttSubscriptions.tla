------------------------- MODULE MqttSubscriptions -------------------------
(***************************************************************************)
(* How subscriptions share MQTT connections: AWSAppSyncSubscriptionWatcher *)
(* and AppSyncMQTTClient.                                                  *)
(*                                                                         *)
(* Requests to subscribe are sent one by one from a serial queue.  An      *)
(* answer names the topics of every subscription of this device and sets a *)
(* timer; when it fires all connections are closed and new ones opened for *)
(* the topics somebody is subscribed to.  Everything else runs on global   *)
(* CONCURRENT queues: their blocks are bags and sets here, run in any      *)
(* order.  An AWSIoTMQTTClient is a number, in the order they are made.    *)
(***************************************************************************)
EXTENDS Integers, SequencesExt, Bags

CONSTANTS
  Watchers,     (* the subscriptions an app may start                      *)
  Topics,
  TopicsOf,     (* the topics of each                                      *)
  Connections,  (* the connections the backend spreads topics over         *)
  ConnectionOf, (* the one it gives each topic                             *)
  None,         (* no watcher, no timer                                    *)
  MayCancel,    (* whether subscriptions are cancelled                     *)
  Outcomes,     (* of a request: among "ok", "error", "errors"             *)
  MaxClients,   (* bound: MQTT clients ever made                           *)
  MaxDrops,     (* bound: connections lost                                 *)
  MaxMessages   (* bound: messages published                               *)

ASSUME FiniteAssumption == IsFiniteSet(Watchers) /\ IsFiniteSet(Connections)
ASSUME TopicsAssumption ==
  /\ TopicsOf \in [Watchers -> SUBSET Topics]
  /\ ConnectionOf \in [Topics -> Connections]
ASSUME NoneAssumption ==
  /\ None \notin Watchers
  /\ \A ws \in SUBSET Watchers : None # ws
  /\ \A ts \in SUBSET Topics, w \in Watchers : None # [topics |-> ts, identifier |-> w]
ASSUME FlagsAssumption == MayCancel \in BOOLEAN /\ Outcomes \subseteq {"ok", "error", "errors"}
ASSUME BoundsAssumption == {MaxClients, MaxDrops, MaxMessages} \subseteq Nat

VARIABLES
  stage,               (* of each watcher: its request                     *)
  isCancelled,         (* of each watcher                                  *)
  subscriptionsQueue,  (* the watchers that wait to send their request     *)
  requesting,          (* the watcher whose request blocks that queue      *)
  issued,              (* the topics the backend has given this device     *)
  topicSubscribers,    (* the watchers of each topic                       *)
  timer,               (* scheduledSubscription                            *)
  mqttClientsWithTopics, (* with it, its domain mqttClients                *)
  status,              (* of each MQTT client made                         *)
  subscribed,          (* topicListeners: those each sent a SUBSCRIBE for  *)
  notices,             (* notifyConnectionStatus blocks, of each client    *)
  reports,             (* connectionStatusChanged blocks                   *)
  handling,            (* those that have looked the client's topics up    *)
  cleanups,            (* stopSubscription blocks                          *)
  messages,            (* receivedMessageData blocks                       *)
  connected,           (* history: watchers whose connect callback ran     *)
  revived,             (* history: topics a block subscribed a client to   *)
                       (* that it no longer had                            *)
  told,                (* history: watchers whose handler got an error     *)
  heard,               (* history: the messages each handler got           *)
  published,           (* history: how many there were                     *)
  skipped,             (* history: the last reset opened no connection     *)
  drops,
  crash                (* the run-time error that ended the app, or None   *)

requests == <<stage, isCancelled, subscriptionsQueue, requesting, issued>>
mqtt     == <<mqttClientsWithTopics, status, subscribed>>
blocks   == <<notices, reports, handling, cleanups, messages>>
history  == <<connected, revived, told, heard, published, skipped>>
vars == <<requests, topicSubscribers, timer, mqtt, blocks, history, drops, crash>>

mqttClients == DOMAIN mqttClientsWithTopics

SubscribersOf(t) == IF t \in DOMAIN topicSubscribers THEN topicSubscribers[t] ELSE {}
Subscribers(ts) == UNION {SubscribersOf(t) : t \in ts}

-----------------------------------------------------------------------------
(* Requests.                                                               *)

(* init: the request waits its turn.                                       *)
Subscribe(w) ==
  /\ stage[w] = "new"
  /\ stage' = [stage EXCEPT ![w] = "queued"]
  /\ subscriptionsQueue' = Append(subscriptionsQueue, w)
  /\ UNCHANGED <<isCancelled, requesting, issued, topicSubscribers, timer, mqtt,
                 blocks, history, drops, crash>>

(* The queue's next block: the request of a watcher not cancelled.         *)
StartSubscription ==
  /\ requesting = None /\ subscriptionsQueue # <<>>
  /\ subscriptionsQueue' = Tail(subscriptionsQueue)
  /\ LET w == Head(subscriptionsQueue) IN
     IF isCancelled[w]
     THEN stage' = [stage EXCEPT ![w] = "skipped"] /\ UNCHANGED requesting
     ELSE stage' = [stage EXCEPT ![w] = "requesting"] /\ requesting' = w
  /\ UNCHANGED <<isCancelled, issued, topicSubscribers, timer, mqtt, blocks,
                 history, drops, crash>>

(* TopicSubscribers.add.                                                   *)
addWatcher(w) ==
  topicSubscribers' = [t \in DOMAIN topicSubscribers \cup TopicsOf[w] |->
                         SubscribersOf(t) \cup (IF t \in TopicsOf[w] THEN {w} ELSE {})]

(* The answer of a cancelled watcher returns without a signal: its request *)
(* goes on blocking the queue.                                             *)
Unheard ==
  /\ requesting # None /\ stage[requesting] = "requesting" /\ isCancelled[requesting]
  /\ stage' = [stage EXCEPT ![requesting] = "unheard"]
  /\ UNCHANGED <<isCancelled, subscriptionsQueue, requesting, issued, topicSubscribers,
                 timer, mqtt, blocks, history, drops, crash>>

(* Mutant: an error does not release the queue.                            *)
MutantAnswered(outcome) ==
  LET w == requesting IN
  /\ w # None /\ stage[w] = "requesting" /\ ~isCancelled[w]
  /\ outcome \in Outcomes
  /\ requesting' = IF outcome = "error" THEN requesting ELSE None
  /\ stage' = [stage EXCEPT ![w] = outcome]
  /\ IF outcome = "ok"
     THEN /\ issued' = issued \cup TopicsOf[w]
          /\ addWatcher(w)
          /\ timer' = [topics |-> issued', identifier |-> w]
     ELSE UNCHANGED <<issued, topicSubscribers, timer>>
  /\ told' = IF outcome = "error" THEN told \cup {w} ELSE told
  /\ UNCHANGED <<isCancelled, subscriptionsQueue, mqtt, blocks, connected, revived,
                 heard, published, skipped, drops, crash>>

(* The request is answered: with the topics of every subscription of the   *)
(* device, which replaces the timer; with an error; or with GraphQL errors *)
(* and no topics, which is taken for success.                              *)
Answered(outcome) ==
  LET w == requesting IN
  /\ w # None /\ stage[w] = "requesting" /\ ~isCancelled[w]
  /\ outcome \in Outcomes
  /\ requesting' = None
  /\ stage' = [stage EXCEPT ![w] = outcome]
  /\ IF outcome = "ok"
     THEN /\ issued' = issued \cup TopicsOf[w]
          /\ addWatcher(w)
          /\ timer' = [topics |-> issued', identifier |-> w]
     ELSE UNCHANGED <<issued, topicSubscribers, timer>>
  /\ told' = IF outcome = "error" THEN told \cup {w} ELSE told
  /\ UNCHANGED <<isCancelled, subscriptionsQueue, mqtt, blocks, connected, revived,
                 heard, published, skipped, drops, crash>>

-----------------------------------------------------------------------------
(* Connections.                                                            *)

(* Mutant: it goes by the topics of the watcher alone.                     *)
MutantInterested(info) == {t \in info.topics : info.identifier \in SubscribersOf(t)}

(* The topics of an answer that have an entry in topicSubscribers, which   *)
(* may be empty.                                                           *)
Interested(info) == info.topics \cap DOMAIN topicSubscribers

(* Mutant: the old connections are left open.                              *)
MutantDisconnected(old) == status

Disconnected(old) == [c \in DOMAIN status |-> IF c \in old THEN "disconnected" ELSE status[c]]

(* resetAndStartSubscriptions: one new client for every connection with a  *)
(* topic of interest, none if the watcher has been cancelled; the old ones *)
(* are muted and disconnected at once.                                     *)
resetAndStartSubscriptions ==
  /\ timer # None
  /\ timer' = None
  /\ skipped' = isCancelled[timer.identifier]
  /\ LET topics == IF isCancelled[timer.identifier] THEN {} ELSE Interested(timer)
         opened == {n \in Connections : \E t \in topics : ConnectionOf[t] = n}
         order  == SetToSeq(opened)
         base   == Len(status)
     IN /\ base + Len(order) =< MaxClients
        /\ status' = Disconnected(mqttClients) \o [n \in DOMAIN order |-> "connecting"]
        /\ subscribed' = subscribed \o [n \in DOMAIN order |-> {}]
        /\ mqttClientsWithTopics' =
             [c \in base + 1 .. base + Len(order) |->
                {t \in topics : ConnectionOf[t] = order[c - base]}]
        /\ notices' = [c \in DOMAIN notices \cup (base + 1 .. base + Len(order)) |->
                         IF c \in DOMAIN notices THEN notices[c] ELSE 1]
  /\ UNCHANGED <<requests, topicSubscribers, reports, handling, cleanups, messages,
                 connected, revived, told, heard, published, drops, crash>>

(* A client's status changes, and a block is to say so.                    *)
changeStatus(c, new) ==
  /\ status' = [status EXCEPT ![c] = new]
  /\ notices' = notices (+) SetToBag({c})
  /\ UNCHANGED <<requests, topicSubscribers, timer, mqttClientsWithTopics, subscribed,
                 reports, handling, cleanups, messages, history, crash>>

(* The handshake is done.  A client that is connected again has sent the   *)
(* SUBSCRIBEs of its topicListeners again.                                 *)
Open(c) == status[c] = "connecting" /\ changeStatus(c, "connected") /\ UNCHANGED drops

(* A connection is lost,                                                   *)
Drop(c) ==
  /\ drops < MaxDrops /\ status[c] = "connected"
  /\ drops' = drops + 1
  /\ changeStatus(c, "error")

(* and the client tries again by itself.                                   *)
Retry(c) == status[c] = "error" /\ changeStatus(c, "connecting") /\ UNCHANGED drops

(* The block reads the status it reports, which may be a later one; a      *)
(* muted client reports nothing, and connecting is of no interest.         *)
Report(c) ==
  /\ notices' = notices (-) SetToBag({c})
  /\ reports' = IF status[c] \in {"connected", "error"}
                THEN reports (+) SetToBag({[client |-> c, status |-> status[c]]})
                ELSE reports
  /\ UNCHANGED <<requests, topicSubscribers, timer, mqtt, handling, cleanups, messages,
                 history, drops, crash>>

(* connectionStatusChanged looks the client up.                            *)
Notice(r) ==
  /\ reports' = reports (-) SetToBag({r})
  /\ handling' = IF r.client \in mqttClients
                 THEN handling (+) SetToBag({[client |-> r.client, status |-> r.status,
                                                   topics |-> mqttClientsWithTopics[r.client]]})
                 ELSE handling
  /\ UNCHANGED <<requests, topicSubscribers, timer, mqtt, notices, cleanups, messages,
                 history, drops, crash>>

(* and goes on: it sends a SUBSCRIBE for each of the topics found and      *)
(* calls their watchers back without waiting for a SUBACK, or tells them   *)
(* of the error.  A client disconnected since raises an exception.         *)
Handle(h) ==
  /\ handling' = handling (-) SetToBag({h})
  /\ CASE h.status = "error" ->
            /\ told' = told \cup {w \in Subscribers(h.topics) : ~isCancelled[w]}
            /\ UNCHANGED <<subscribed, connected, revived, crash>>
       [] h.status = "connected" /\ h.topics # {} /\ status[h.client] = "disconnected" ->
            /\ crash' = "subscribe after disconnect"
            /\ UNCHANGED <<subscribed, connected, revived, told>>
       [] OTHER ->
            /\ subscribed' = [subscribed EXCEPT ![h.client] = @ \cup h.topics]
            /\ connected' = connected \cup Subscribers(h.topics)
            /\ revived' = revived \cup
                 {<<h.client, t>> : t \in IF h.client \in mqttClients
                                         THEN h.topics \ mqttClientsWithTopics[h.client]
                                         ELSE {}}
            /\ UNCHANGED <<told, crash>>
  /\ UNCHANGED <<requests, topicSubscribers, timer, mqttClientsWithTopics, status, notices,
                 reports, cleanups, messages, heard, published, skipped, drops>>

-----------------------------------------------------------------------------
(* Cancelling.                                                             *)

(* cancel, and the synchronous part of stopSubscription.                   *)
Cancel(w) ==
  /\ MayCancel
  /\ stage[w] # "new" /\ ~isCancelled[w]
  /\ isCancelled' = [isCancelled EXCEPT ![w] = TRUE]
  /\ topicSubscribers' = [t \in DOMAIN topicSubscribers |-> topicSubscribers[t] \ {w}]
  /\ cleanups' = cleanups + 1
  /\ UNCHANGED <<stage, subscriptionsQueue, requesting, issued, timer, mqtt, notices,
                 reports, handling, messages, history, drops, crash>>

(* Mutant: topics are unsubscribed, their connections kept.                *)
MutantEmpty(topics) == {}

(* The clients left without a topic.                                       *)
Empty(topics) == {c \in DOMAIN topics : topics[c] = {}}

(* Mutant: a topic leaves mqttClientsWithTopics, no UNSUBSCRIBE is sent.   *)
MutantUnsubscribed(unused) == subscribed

(* unsubscribeTopic: a client is unsubscribed from the topics it has.      *)
Unsubscribed(unused) ==
  [c \in DOMAIN subscribed |->
     subscribed[c] \ (IF c \in mqttClients THEN unused \cap mqttClientsWithTopics[c] ELSE {})]

(* The block of stopSubscription: topics nobody is subscribed to go, and   *)
(* the connections they leave without any.                                 *)
CleanUp ==
  /\ cleanups > 0
  /\ cleanups' = cleanups - 1
  /\ LET unused == {t \in DOMAIN topicSubscribers : topicSubscribers[t] = {}}
         rest   == [c \in mqttClients |-> mqttClientsWithTopics[c] \ unused]
     IN /\ topicSubscribers' = [t \in DOMAIN topicSubscribers \ unused |-> topicSubscribers[t]]
        /\ mqttClientsWithTopics' = [c \in mqttClients \ Empty(rest) |-> rest[c]]
        /\ status' = Disconnected(Empty(rest))
        /\ subscribed' = Unsubscribed(unused)
  /\ UNCHANGED <<requests, timer, notices, reports, handling, messages, history, drops,
                 crash>>

-----------------------------------------------------------------------------
(* Messages.                                                               *)

MayHear(c, t) == status[c] = "connected" /\ t \in subscribed[c]

(* A message on a topic reaches clients that have sent a SUBSCRIBE for it; *)
(* not all of them: the broker may not have taken it yet, or refused it.   *)
Publish(t) ==
  /\ published < MaxMessages
  /\ published' = published + 1
  /\ \E hearers \in SUBSET {c \in DOMAIN status : MayHear(c, t)} :
       messages' = messages \cup
         {[client |-> c, topic |-> t, number |-> published + 1, to |-> None] : c \in hearers}
  /\ UNCHANGED <<requests, topicSubscribers, timer, mqtt, notices, reports, handling,
                 cleanups, connected, revived, told, heard, skipped, drops, crash>>

(* receivedMessageData finds the watchers of the topic; a client muted by  *)
(* then may have dropped the message.                                      *)
LookUp(m) ==
  /\ m.to = None
  /\ \/ /\ m.topic \in DOMAIN topicSubscribers
        /\ messages' = (messages \ {m}) \cup {[m EXCEPT !.to = topicSubscribers[m.topic]]}
     \/ /\ m.topic \notin DOMAIN topicSubscribers \/ status[m.client] = "disconnected"
        /\ messages' = messages \ {m}
  /\ UNCHANGED <<requests, topicSubscribers, timer, mqtt, notices, reports, handling,
                 cleanups, history, drops, crash>>

(* messageCallbackDelegate, for one watcher after the other; it unwraps a  *)
(* subscription that a cancelled watcher no longer has.                    *)
Callback(m) ==
  /\ m.to # None
  /\ IF m.to = {}
     THEN messages' = messages \ {m} /\ UNCHANGED <<heard, crash>>
     ELSE \E w \in m.to :
            /\ messages' = (messages \ {m}) \cup {[m EXCEPT !.to = @ \ {w}]}
            /\ IF isCancelled[w]
               THEN crash' = "nil subscription" /\ UNCHANGED heard
               ELSE heard' = [heard EXCEPT ![w] = Append(@, m.number)] /\ UNCHANGED crash
  /\ UNCHANGED <<requests, topicSubscribers, timer, mqtt, notices, reports, handling,
                 cleanups, connected, revived, told, published, skipped, drops>>

-----------------------------------------------------------------------------
Init ==
  /\ stage = [w \in Watchers |-> "new"] /\ isCancelled = [w \in Watchers |-> FALSE]
  /\ subscriptionsQueue = <<>> /\ requesting = None /\ issued = {}
  /\ topicSubscribers = <<>> /\ timer = None
  /\ mqttClientsWithTopics = <<>> /\ status = <<>> /\ subscribed = <<>>
  /\ notices = EmptyBag /\ reports = EmptyBag /\ handling = EmptyBag
  /\ cleanups = 0 /\ messages = {}
  /\ connected = {} /\ revived = {} /\ told = {} /\ heard = [w \in Watchers |-> <<>>]
  /\ published = 0 /\ skipped = FALSE /\ drops = 0 /\ crash = None

Answer == Unheard \/ \E outcome \in Outcomes : Answered(outcome)
Opens == \E c \in DOMAIN status : Open(c)
Retries == \E c \in DOMAIN status : Retry(c)
Reports == \E c \in DOMAIN notices : Report(c)
Notices == \E r \in DOMAIN reports : Notice(r)
Handles == \E h \in DOMAIN handling : Handle(h)

Next ==
  /\ crash = None
  /\ \/ \E w \in Watchers : Subscribe(w) \/ Cancel(w)
     \/ StartSubscription \/ Answer \/ resetAndStartSubscriptions \/ Opens
     \/ \E c \in DOMAIN status : Drop(c)
     \/ Retries \/ Reports \/ Notices \/ Handles \/ CleanUp
     \/ \E t \in Topics : Publish(t)
     \/ \E m \in messages : LookUp(m) \/ Callback(m)

(* Requests are answered, timers fire, connections come up, blocks run.    *)
Fairness ==
  /\ WF_vars(crash = None /\ StartSubscription) /\ WF_vars(crash = None /\ Answer)
  /\ WF_vars(crash = None /\ resetAndStartSubscriptions)
  /\ \A c \in 1..MaxClients : WF_vars(crash = None /\ c \in DOMAIN status /\ Open(c))
  /\ WF_vars(crash = None /\ Retries) /\ WF_vars(crash = None /\ Reports)
  /\ WF_vars(crash = None /\ Notices) /\ WF_vars(crash = None /\ Handles)
  /\ WF_vars(crash = None /\ CleanUp)

Spec == Init /\ [][Next]_vars
FairSpec == Spec /\ Fairness
-----------------------------------------------------------------------------
(* Properties.                                                             *)

Stages == {"new", "queued", "skipped", "requesting", "unheard", "ok", "error", "errors"}
Clients == 1..MaxClients

(* The variables have their types; the connections the code knows are the  *)
(* ones that are not disconnected.                                         *)
TypeOK ==
  /\ stage \in [Watchers -> Stages] /\ isCancelled \in [Watchers -> BOOLEAN]
  /\ subscriptionsQueue \in Seq(Watchers) /\ requesting \in Watchers \cup {None}
  /\ issued \subseteq Topics
  /\ DOMAIN topicSubscribers \subseteq Topics
  /\ \A t \in DOMAIN topicSubscribers : topicSubscribers[t] \subseteq Watchers
  /\ timer # None => timer.topics \subseteq Topics /\ timer.identifier \in Watchers
  /\ status \in Seq({"connecting", "connected", "error", "disconnected"})
  /\ Len(status) =< MaxClients /\ subscribed \in [DOMAIN status -> SUBSET Topics]
  /\ mqttClients = {c \in DOMAIN status : status[c] # "disconnected"}
  /\ \A c \in mqttClients : mqttClientsWithTopics[c] \in SUBSET Topics
  /\ DOMAIN notices \subseteq DOMAIN status
  /\ \A b \in DOMAIN reports \cup DOMAIN handling : b.client \in DOMAIN status
  /\ revived \subseteq (DOMAIN status) \X Topics
  /\ cleanups \in 0..Cardinality(Watchers)
  /\ published \in 0..MaxMessages /\ drops \in 0..MaxDrops

(* Once its blocks have run, cancelling leaves no connection open that     *)
(* nobody needs, and no topic on one - neither in mqttClientsWithTopics    *)
(* nor subscribed at the broker - that nobody is subscribed to; but for a  *)
(* topic that a status block had looked up before the clean-up and         *)
(* subscribed to after it.                                                 *)
UnusedReleased ==
  cleanups = 0 =>
    \A c \in mqttClients :
      /\ mqttClientsWithTopics[c] # {}
      /\ \A t \in mqttClientsWithTopics[c] \cup subscribed[c] :
           SubscribersOf(t) # {} \/ <<c, t>> \in revived

(* The same without the exception, as cancel has it: when all blocks have  *)
(* run, a cancelled subscription's topics are not subscribed to any more.  *)
CancelUnsubscribes ==
  cleanups = 0 /\ handling = EmptyBag =>
    \A c \in mqttClients : \A t \in subscribed[c] : SubscribersOf(t) # {}

Wanted == {w \in Watchers : stage[w] = "ok" /\ ~isCancelled[w]}
Served(w) == TopicsOf[w] \subseteq UNION {mqttClientsWithTopics[c] : c \in mqttClients}

(* A subscription that was answered and not cancelled is on a connection,  *)
(* or will be when the timer fires, through all resets other subscriptions *)
(* cause, unless a reset was skipped.                                      *)
ServedUnlessSkipped == timer = None /\ ~skipped => \A w \in Wanted : Served(w)

(* The same without the exception.                                         *)
StaysServed == timer = None => \A w \in Wanted : Served(w)

(* No handler gets a message twice, although connections are replaced and  *)
(* several subscriptions share topics.                                     *)
HeardOnce == \A w \in Watchers : \A i, j \in DOMAIN heard[w] : heard[w][i] = heard[w][j] => i = j

(* A handler gets the messages in the order they were published.           *)
InOrder == \A w \in Watchers : \A i, j \in DOMAIN heard[w] : i < j => heard[w][i] < heard[w][j]

(* As long as no subscription is cancelled, each is connected or told of   *)
(* an error, though others keep resetting its connections.                 *)
ConnectsOrTold ==
  \A w \in Watchers :
    stage[w] = "queued"
      ~> w \in connected \cup told \/ crash # None \/ \E v \in Watchers : isCancelled[v]

(* A cancelled subscription's request does not keep the others waiting.    *)
CancelReleasesQueue == \A w \in Watchers : requesting = w /\ isCancelled[w] ~> requesting # w

(* The handler of a cancelled subscription is not called with a message.   *)
SilentAfterCancel == crash # "nil subscription"

(* Nothing is subscribed on a client that was disconnected.                *)
NoUseAfterDisconnect == crash # "subscribe after disconnect"

(* A reset does not interrupt a topic: as long as the network holds, a     *)
(* topic that is heard and still wanted goes on being heard.               *)
HeardTopics == {t \in Topics : \E c \in DOMAIN status : MayHear(c, t)}
NoInterruption ==
  [][drops' = drops =>
       \A t \in HeardTopics : t \notin HeardTopics' => SubscribersOf(t)' = {}]_vars
=============================================================================
