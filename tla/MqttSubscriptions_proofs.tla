---------------------- MODULE MqttSubscriptions_proofs ----------------------
(***************************************************************************)
(* MqttSubscriptions for any number of subscriptions, topics, connections  *)
(* and resets: type correctness, unused connections are released           *)
(* (UnusedReleased), wanted topics keep a connection (ServedUnlessSkipped) *)
(* and no handler gets a message twice (HeardOnce).                        *)
(***************************************************************************)
EXTENDS MqttSubscriptions, FiniteSetTheorems, SequenceTheorems, TLAPS

-----------------------------------------------------------------------------
(* The order in which a reset opens connections has each of them once.     *)
LEMMA OrderOf ==
  ASSUME NEW S, IsFiniteSet(S)
  PROVE  /\ SetToSeq(S) \in Seq(S)
         /\ \A n, m \in DOMAIN SetToSeq(S) : SetToSeq(S)[n] = SetToSeq(S)[m] => n = m
         /\ \A x \in S : \E n \in DOMAIN SetToSeq(S) : SetToSeq(S)[n] = x
<1> DEFINE k == Cardinality(S)
           f == SetToSeq(S)
<1>1. k \in Nat /\ ExistsBijection(1..k, S)
  BY FS_CardinalityType
<1>2. \E g : g \in [1..k -> S] /\ IsInjective(g)
  BY <1>1 DEF ExistsBijection, Bijection, Injection
<1>3. f \in [1..k -> S] /\ IsInjective(f)
  BY <1>2 DEF SetToSeq
<1> DEFINE R == {f[n] : n \in 1..k}
<1>4. f \in Bijection(1..k, R)
  BY <1>3 DEF Bijection, Injection, Surjection, IsInjective
<1>5. Cardinality(R) = k
  BY <1>1, <1>4, FS_CountingElements DEF ExistsBijection
<1>6. R = S
  <2>1. R \in SUBSET S
    BY <1>3
  <2> QED
    BY <1>5, <2>1, FS_Subset
<1>7. f \in Seq(S)
  BY <1>1, <1>3
<1>8. \A n, m \in DOMAIN f : f[n] = f[m] => n = m
  BY <1>3 DEF IsInjective
<1>9. \A x \in S : \E n \in DOMAIN f : f[n] = x
  BY <1>3, <1>6
<1> QED
  BY <1>7, <1>8, <1>9

-----------------------------------------------------------------------------
(* Types, with those TypeOK leaves out.                                    *)
Statuses == {"connecting", "connected", "error", "disconnected"}
Cancelled == {w \in Watchers : isCancelled[w]}

RequestTypes ==
  /\ stage \in [Watchers -> Stages] /\ isCancelled \in [Watchers -> BOOLEAN]
  /\ subscriptionsQueue \in Seq(Watchers) /\ requesting \in Watchers \cup {None}
  /\ issued \subseteq Topics
  /\ timer # None => timer.topics \subseteq Topics /\ timer.identifier \in Watchers

SubscriberTypes ==
  /\ DOMAIN topicSubscribers \subseteq Topics
  /\ \A t \in DOMAIN topicSubscribers : topicSubscribers[t] \subseteq Watchers

ClientTypes ==
  /\ status \in Seq(Statuses) /\ Len(status) =< MaxClients
  /\ subscribed \in Seq(SUBSET Topics) /\ Len(subscribed) = Len(status)
  /\ mqttClients = {c \in DOMAIN status : status[c] # "disconnected"}
  /\ \A c \in mqttClients : mqttClientsWithTopics[c] \subseteq Topics

NoticeTypes ==
  /\ DOMAIN notices \subseteq DOMAIN status
  /\ \A b \in DOMAIN reports \cup DOMAIN handling : b.client \in DOMAIN status
  /\ \A h \in DOMAIN handling : h.topics \subseteq Topics
  /\ revived \subseteq (DOMAIN status) \X Topics

CountTypes ==
  /\ cleanups \in Nat /\ cleanups =< Cardinality(Cancelled)
  /\ published \in 0..MaxMessages /\ drops \in 0..MaxDrops

Typed == RequestTypes /\ SubscriberTypes /\ ClientTypes /\ NoticeTypes /\ CountTypes

LEMMA BagDomains ==
  ASSUME NEW B, NEW x
  PROVE  /\ DOMAIN (B (+) SetToBag({x})) = DOMAIN B \cup {x}
         /\ DOMAIN (B (-) SetToBag({x})) \subseteq DOMAIN B
BY DEF (+), (-), SetToBag

LEMMA Glued ==
  ASSUME NEW S, NEW s \in Seq(S), NEW t \in Seq(S), NEW b, NEW n, Len(s) = b, Len(t) = n
  PROVE  /\ s \o t \in Seq(S) /\ Len(s \o t) = b + n
         /\ \A c \in 1..b : (s \o t)[c] = s[c]
         /\ \A c \in b + 1 .. b + n : c - b \in 1..n /\ (s \o t)[c] = t[c - b]
<1>1. b \in Nat /\ n \in Nat
  BY LenProperties
<1>2. /\ s \o t \in Seq(S) /\ Len(s \o t) = b + n
      /\ \A c \in 1..b + n : (s \o t)[c] = IF c <= b THEN s[c] ELSE t[c - b]
  BY ConcatProperties
<1> QED
  BY <1>1, <1>2

(* A reset: the old clients are disconnected, and n new ones have the      *)
(* topics the backend gave their connection.                               *)
ResetTopics == IF isCancelled[timer.identifier] THEN {} ELSE Interested(timer)

OldAndNew(n, order) ==
  /\ n \in Nat /\ order \in [1..n -> Connections] /\ Len(status) + n =< MaxClients
  /\ \A i, j \in 1..n : order[i] = order[j] => i = j
  /\ \A t \in ResetTopics : \E i \in 1..n : order[i] = ConnectionOf[t]
  /\ \A i \in 1..n : \E t \in ResetTopics : ConnectionOf[t] = order[i]
  /\ mqttClients' = Len(status) + 1 .. Len(status) + n
  /\ \A i \in 1..n : mqttClientsWithTopics'[Len(status) + i] = {t \in ResetTopics : ConnectionOf[t] = order[i]}
  /\ status' \in Seq(Statuses) /\ Len(status') = Len(status) + n
  /\ \A c \in 1..Len(status) : status'[c] = "disconnected" /\ subscribed'[c] = subscribed[c]
  /\ \A c \in Len(status) + 1 .. Len(status) + n : status'[c] = "connecting" /\ subscribed'[c] = {}
  /\ subscribed' \in Seq(SUBSET Topics) /\ Len(subscribed') = Len(status) + n
  /\ DOMAIN notices' = DOMAIN notices \cup (Len(status) + 1 .. Len(status) + n)

LEMMA ResetEffect ==
  ASSUME Typed, resetAndStartSubscriptions
  PROVE  \E n, order : OldAndNew(n, order)
<1> DEFINE opened == {x \in Connections : \E t \in ResetTopics : ConnectionOf[t] = x}
           order == SetToSeq(opened)
           n == Len(order)
           base == Len(status)
           fresh == [i \in DOMAIN order |-> "connecting"]
           none == [i \in DOMAIN order |-> {}]
<1>1. /\ base + n =< MaxClients
      /\ status' = Disconnected(mqttClients) \o fresh
      /\ subscribed' = subscribed \o none
      /\ mqttClientsWithTopics' =
           [c \in base + 1 .. base + n |-> {t \in ResetTopics : ConnectionOf[t] = order[c - base]}]
      /\ DOMAIN notices' = DOMAIN notices \cup (base + 1 .. base + n)
  BY DEF resetAndStartSubscriptions, ResetTopics
<1>2. /\ order \in Seq(opened)
      /\ \A i, j \in DOMAIN order : order[i] = order[j] => i = j
      /\ \A x \in opened : \E i \in DOMAIN order : order[i] = x
  <2>1. IsFiniteSet(opened)
    BY FiniteAssumption, FS_Subset
  <2> HIDE DEF opened
  <2> QED
    BY <2>1, OrderOf
<1> HIDE DEF order
<1>3. n \in Nat /\ DOMAIN order = 1..n /\ order \in [1..n -> opened]
  BY <1>2
<1>4. ResetTopics \subseteq Topics
  BY DEF ResetTopics, Interested, Typed, SubscriberTypes
<1>5. \A t \in ResetTopics : ConnectionOf[t] \in opened
  BY <1>4, TopicsAssumption
<1>6. status \in Seq(Statuses) /\ base \in Nat /\ DOMAIN status = 1..base
      /\ subscribed \in Seq(SUBSET Topics) /\ Len(subscribed) = base
      /\ mqttClients = {c \in DOMAIN status : status[c] # "disconnected"}
  BY DEF Typed, ClientTypes
<1>7. /\ status' \in Seq(Statuses) /\ Len(status') = base + n
      /\ \A c \in 1..base : status'[c] = "disconnected"
      /\ \A c \in base + 1 .. base + n : status'[c] = "connecting"
  <2> DEFINE d == Disconnected(mqttClients)
  <2>1. d \in Seq(Statuses) /\ Len(d) = base /\ \A c \in 1..base : d[c] = "disconnected"
    <3>1. d = [c \in 1..base |-> IF c \in mqttClients THEN "disconnected" ELSE status[c]]
      BY <1>6 DEF Disconnected
    <3>2. \A c \in 1..base : d[c] = "disconnected"
      BY <1>6, <3>1
    <3>3. d \in [1..base -> Statuses]
      BY <3>1, <3>2 DEF Statuses
    <3> HIDE DEF d
    <3> QED
      BY <1>6, <3>2, <3>3
  <2>2. fresh \in Seq(Statuses) /\ Len(fresh) = n /\ \A i \in 1..n : fresh[i] = "connecting"
    BY <1>3 DEF Statuses
  <2> HIDE DEF d, fresh
  <2>3. status' = d \o fresh
    BY <1>1 DEF d
  <2>4. /\ d \o fresh \in Seq(Statuses) /\ Len(d \o fresh) = base + n
        /\ \A c \in 1..base : (d \o fresh)[c] = d[c]
        /\ \A c \in base + 1 .. base + n : c - base \in 1..n /\ (d \o fresh)[c] = fresh[c - base]
    <3> HIDE DEF n, base
    <3> QED
      BY <2>1, <2>2, Glued
  <2> QED
    BY <2>1, <2>2, <2>3, <2>4
<1>8. /\ subscribed' \in Seq(SUBSET Topics) /\ Len(subscribed') = base + n
      /\ \A c \in 1..base : subscribed'[c] = subscribed[c]
      /\ \A c \in base + 1 .. base + n : subscribed'[c] = {}
  <2>1. none \in Seq(SUBSET Topics) /\ Len(none) = n /\ \A i \in 1..n : none[i] = {}
    BY <1>3
  <2>2. subscribed' = subscribed \o none
    BY <1>1
  <2> HIDE DEF none
  <2>3. /\ subscribed \o none \in Seq(SUBSET Topics) /\ Len(subscribed \o none) = base + n
        /\ \A c \in 1..base : (subscribed \o none)[c] = subscribed[c]
        /\ \A c \in base + 1 .. base + n : c - base \in 1..n /\ (subscribed \o none)[c] = none[c - base]
    <3> HIDE DEF n, base
    <3> QED
      BY <1>6, <2>1, Glued
  <2> QED
    BY <2>1, <2>2, <2>3
<1>9. /\ mqttClients' = base + 1 .. base + n
      /\ \A i \in 1..n : mqttClientsWithTopics'[base + i] = {t \in ResetTopics : ConnectionOf[t] = order[i]}
  <2>1. mqttClients' = base + 1 .. base + n
    BY <1>1 DEF mqttClients
  <2>2. \A i \in 1..n : base + i \in base + 1 .. base + n /\ (base + i) - base = i
    BY <1>3, <1>6
  <2> QED
    BY <1>1, <2>1, <2>2
<1>10. /\ order \in [1..n -> Connections]
       /\ \A t \in ResetTopics : \E i \in 1..n : order[i] = ConnectionOf[t]
       /\ \A i \in 1..n : \E t \in ResetTopics : ConnectionOf[t] = order[i]
  BY <1>2, <1>3, <1>5
<1> HIDE DEF n
<1> QED
  <2>1. OldAndNew(n, order)
    BY <1>1, <1>2, <1>3, <1>7, <1>8, <1>9, <1>10 DEF OldAndNew
  <2> QED
    BY <2>1

(* Cleaning up: unused topics go, and the clients they leave without any.  *)
Unused == {t \in DOMAIN topicSubscribers : topicSubscribers[t] = {}}

Cleaned ==
  /\ DOMAIN topicSubscribers' = DOMAIN topicSubscribers \ Unused
  /\ \A t \in DOMAIN topicSubscribers' : topicSubscribers'[t] = topicSubscribers[t]
  /\ mqttClients' \subseteq mqttClients
  /\ \A c \in mqttClients' :
       mqttClientsWithTopics'[c] = mqttClientsWithTopics[c] \ Unused /\ mqttClientsWithTopics'[c] # {}
  /\ \A c \in mqttClients \ mqttClients' : mqttClientsWithTopics[c] \subseteq Unused
  /\ status' \in Seq(Statuses) /\ Len(status') = Len(status)
  /\ \A c \in DOMAIN status :
       status'[c] = IF c \in mqttClients \ mqttClients' THEN "disconnected" ELSE status[c]
  /\ subscribed' \in Seq(SUBSET Topics) /\ Len(subscribed') = Len(subscribed)
  /\ \A c \in DOMAIN subscribed : subscribed'[c] \subseteq subscribed[c]
  /\ \A c \in mqttClients' : subscribed'[c] = subscribed[c] \ (Unused \cap mqttClientsWithTopics[c])

LEMMA CleanUpEffect ==
  ASSUME Typed, CleanUp
  PROVE  Cleaned
<1> DEFINE rest == [c \in mqttClients |-> mqttClientsWithTopics[c] \ Unused]
<1>1. /\ topicSubscribers' = [t \in DOMAIN topicSubscribers \ Unused |-> topicSubscribers[t]]
      /\ mqttClientsWithTopics' = [c \in mqttClients \ Empty(rest) |-> rest[c]]
      /\ status' = Disconnected(Empty(rest))
      /\ subscribed' = [c \in DOMAIN subscribed |->
                          subscribed[c] \ (IF c \in mqttClients THEN Unused \cap mqttClientsWithTopics[c] ELSE {})]
  BY DEF CleanUp, Unused, Unsubscribed
<1>2. mqttClients' = mqttClients \ Empty(rest)
  BY <1>1 DEF mqttClients
<1>3. Empty(rest) = {c \in mqttClients : mqttClientsWithTopics[c] \ Unused = {}}
  BY DEF Empty
<1>4. status \in Seq(Statuses) /\ subscribed \in Seq(SUBSET Topics) /\ Len(subscribed) = Len(status)
  BY DEF Typed, ClientTypes
<1>5. \A c \in mqttClients' :
        mqttClientsWithTopics'[c] = mqttClientsWithTopics[c] \ Unused /\ mqttClientsWithTopics'[c] # {}
  BY <1>1, <1>2, <1>3
<1>6. \A c \in mqttClients \ mqttClients' : mqttClientsWithTopics[c] \subseteq Unused
  BY <1>2, <1>3
<1>7. mqttClients \ mqttClients' = Empty(rest)
  BY <1>2, <1>3
<1>8. /\ status' \in Seq(Statuses) /\ Len(status') = Len(status)
      /\ \A c \in DOMAIN status :
           status'[c] = IF c \in mqttClients \ mqttClients' THEN "disconnected" ELSE status[c]
  <2>1. status' = [c \in 1..Len(status) |-> IF c \in Empty(rest) THEN "disconnected" ELSE status[c]]
    BY <1>1, <1>4 DEF Disconnected
  <2>2. status' \in [1..Len(status) -> Statuses]
    BY <1>4, <2>1 DEF Statuses
  <2>3. status' \in Seq(Statuses) /\ Len(status') = Len(status)
    BY <1>4, <2>2
  <2> QED
    BY <1>4, <1>7, <2>1, <2>3
<1>9. /\ subscribed' \in Seq(SUBSET Topics) /\ Len(subscribed') = Len(subscribed)
      /\ \A c \in DOMAIN subscribed : subscribed'[c] \subseteq subscribed[c]
      /\ \A c \in mqttClients' : subscribed'[c] = subscribed[c] \ (Unused \cap mqttClientsWithTopics[c])
  <2>1. subscribed' \in [1..Len(subscribed) -> SUBSET Topics]
    BY <1>1, <1>4
  <2>2. subscribed' \in Seq(SUBSET Topics) /\ Len(subscribed') = Len(subscribed)
    BY <1>4, <2>1
  <2>3. mqttClients' \subseteq mqttClients /\ mqttClients \subseteq DOMAIN subscribed
    BY <1>2, <1>4 DEF Typed, ClientTypes
  <2> QED
    BY <1>1, <2>2, <2>3
<1> QED
  BY <1>1, <1>2, <1>5, <1>6, <1>8, <1>9 DEF Cleaned

-----------------------------------------------------------------------------
(* Type correctness.                                                       *)

LEMMA TypedIsTypeOK == Typed => TypeOK
<1> SUFFICES ASSUME Typed PROVE TypeOK
  OBVIOUS
<1>1. Cardinality(Cancelled) =< Cardinality(Watchers) /\ Cardinality(Watchers) \in Nat
      /\ Cardinality(Cancelled) \in Nat
  BY FiniteAssumption, FS_Subset, FS_CardinalityType DEF Cancelled
<1>2. cleanups \in 0..Cardinality(Watchers)
  BY <1>1 DEF Typed, CountTypes
<1>3. subscribed \in [DOMAIN status -> SUBSET Topics]
  BY DEF Typed, ClientTypes
<1>4. /\ DOMAIN notices \subseteq DOMAIN status
      /\ \A b \in DOMAIN reports \cup DOMAIN handling : b.client \in DOMAIN status
      /\ revived \subseteq (DOMAIN status) \X Topics
  BY DEF Typed, NoticeTypes
<1>5. status \in Seq({"connecting", "connected", "error", "disconnected"}) /\ Len(status) =< MaxClients
      /\ mqttClients = {c \in DOMAIN status : status[c] # "disconnected"}
      /\ \A c \in mqttClients : mqttClientsWithTopics[c] \in SUBSET Topics
  BY DEF Typed, ClientTypes, Statuses
<1> QED
  BY <1>2, <1>3, <1>4, <1>5 DEF Typed, RequestTypes, SubscriberTypes, CountTypes, TypeOK

LEMMA TypedInit == Init => Typed
<1> SUFFICES ASSUME Init PROVE Typed
  OBVIOUS
<1>1. RequestTypes /\ SubscriberTypes
  BY DEF Init, RequestTypes, SubscriberTypes, Stages
<1>2. ClientTypes
  BY BoundsAssumption DEF Init, ClientTypes, mqttClients
<1>3. NoticeTypes
  <2>1. DOMAIN EmptyBag = {}
    BY DEF EmptyBag, SetToBag
  <2>2. DOMAIN notices = {} /\ DOMAIN reports = {} /\ DOMAIN handling = {} /\ revived = {}
    BY <2>1 DEF Init
  <2> QED
    BY <2>2 DEF NoticeTypes
<1>4. CountTypes
  <2>1. Cardinality(Cancelled) \in Nat
    BY FiniteAssumption, FS_Subset, FS_CardinalityType DEF Cancelled
  <2> QED
    BY <2>1, BoundsAssumption DEF Init, CountTypes
<1> QED
  BY <1>1, <1>2, <1>3, <1>4 DEF Typed

(* The requests: what they leave alone, and what they do.                  *)
LEMMA TypedRequests ==
  ASSUME Typed, (\E w \in Watchers : Subscribe(w)) \/ StartSubscription \/ Answer
  PROVE  Typed'
<1>1. UNCHANGED <<isCancelled, mqttClientsWithTopics, status, subscribed, notices, reports, handling,
                  revived, cleanups, published, drops>>
  BY DEF Subscribe, StartSubscription, Answer, Unheard, Answered, mqtt, blocks, history
<1>2. ClientTypes' /\ NoticeTypes' /\ CountTypes'
  BY <1>1 DEF Typed, ClientTypes, NoticeTypes, CountTypes, mqttClients, Cancelled
<1>3. CASE (\E w \in Watchers : Subscribe(w)) \/ StartSubscription \/ Unheard
  <2>1. SubscriberTypes'
    BY <1>3 DEF Subscribe, StartSubscription, Unheard, Typed, SubscriberTypes
  <2>3. CASE StartSubscription
    <3>1. Head(subscriptionsQueue) \in Watchers /\ subscriptionsQueue' \in Seq(Watchers)
      BY <2>3 DEF StartSubscription, Typed, RequestTypes
    <3>2. stage' \in [Watchers -> Stages] /\ requesting' \in Watchers \cup {None}
      BY <2>3, <3>1 DEF StartSubscription, Typed, RequestTypes, Stages
    <3> QED
      BY <1>1, <1>2, <2>1, <2>3, <3>1, <3>2 DEF StartSubscription, Typed, RequestTypes
  <2>4. CASE Unheard
    BY <1>1, <1>2, <2>1, <2>4 DEF Unheard, Typed, RequestTypes, Stages
  <2>2. CASE \E w \in Watchers : Subscribe(w)
    BY <1>1, <1>2, <2>1, <2>2 DEF Subscribe, Typed, RequestTypes, Stages
  <2> QED
    BY <1>3, <2>2, <2>3, <2>4
<1>4. CASE \E outcome \in Outcomes : Answered(outcome)
  <2>1. PICK outcome \in Outcomes : Answered(outcome)
    BY <1>4
  <2>2. requesting \in Watchers /\ requesting' = None /\ stage' = [stage EXCEPT ![requesting] = outcome]
        /\ subscriptionsQueue' = subscriptionsQueue
    BY <2>1 DEF Answered, Typed, RequestTypes
  <2>3. outcome \in Stages
    BY FlagsAssumption DEF Stages
  <2>4. CASE outcome = "ok"
    <3>1. /\ issued' = issued \cup TopicsOf[requesting] /\ timer' = [topics |-> issued', identifier |-> requesting]
          /\ addWatcher(requesting)
      BY <2>1, <2>4 DEF Answered
    <3>2. TopicsOf[requesting] \subseteq Topics
      BY <2>2, TopicsAssumption
    <3>3. SubscriberTypes'
      BY <2>2, <3>1, <3>2 DEF addWatcher, SubscribersOf, Typed, SubscriberTypes
    <3> QED
      BY <1>1, <1>2, <2>2, <2>3, <3>1, <3>2, <3>3 DEF Typed, RequestTypes
  <2>5. CASE outcome # "ok"
    <3>1. UNCHANGED <<issued, topicSubscribers, timer>>
      BY <2>1, <2>5 DEF Answered
    <3> QED
      BY <1>1, <1>2, <2>2, <2>3, <3>1 DEF Typed, RequestTypes, SubscriberTypes
  <2> QED
    BY <2>4, <2>5
<1> QED
  BY <1>3, <1>4 DEF Answer

LEMMA TypedReset ==
  ASSUME Typed, resetAndStartSubscriptions
  PROVE  Typed'
<1>1. PICK n, order : OldAndNew(n, order)
  BY ResetEffect
<1>2. /\ UNCHANGED <<requests, topicSubscribers, reports, handling, revived, cleanups, published, drops>>
      /\ timer' = None
  BY DEF resetAndStartSubscriptions
<1>3. ResetTopics \subseteq Topics
  BY DEF ResetTopics, Interested, Typed, SubscriberTypes
<1>4. Len(status) \in Nat /\ DOMAIN status = 1..Len(status)
  BY DEF Typed, ClientTypes
<1>5. ClientTypes'
  <2>1. DOMAIN status' = 1..(Len(status) + n)
    BY <1>1 DEF OldAndNew
  <2>2. mqttClients' = {c \in DOMAIN status' : status'[c] # "disconnected"}
    <3>1. mqttClients' = Len(status) + 1 .. Len(status) + n /\ n \in Nat
      BY <1>1 DEF OldAndNew
    <3>2. \A c \in 1..Len(status) : status'[c] = "disconnected"
      BY <1>1 DEF OldAndNew
    <3>3. \A c \in Len(status) + 1 .. Len(status) + n : status'[c] # "disconnected"
      BY <1>1 DEF OldAndNew
    <3> QED
      BY <1>4, <2>1, <3>1, <3>2, <3>3
  <2>3. \A c \in mqttClients' : mqttClientsWithTopics'[c] \subseteq Topics
    <3> SUFFICES ASSUME NEW c \in mqttClients' PROVE mqttClientsWithTopics'[c] \subseteq Topics
      OBVIOUS
    <3>1. mqttClients' = Len(status) + 1 .. Len(status) + n /\ n \in Nat
      BY <1>1 DEF OldAndNew
    <3>2. c - Len(status) \in 1..n /\ c = Len(status) + (c - Len(status))
      BY <1>4, <3>1
    <3> QED
      BY <1>1, <1>3, <3>2 DEF OldAndNew
  <2> QED
    BY <1>1, <2>2, <2>3 DEF OldAndNew, ClientTypes
<1>6. NoticeTypes'
  BY <1>1, <1>2, <1>4 DEF OldAndNew, Typed, NoticeTypes
<1> QED
  BY <1>2, <1>5, <1>6 DEF Typed, RequestTypes, SubscriberTypes, CountTypes, Cancelled, requests

LEMMA TypedCleanUp ==
  ASSUME Typed, CleanUp
  PROVE  Typed'
<1>1. Cleaned
  BY CleanUpEffect
<1>2. /\ UNCHANGED <<requests, timer, notices, reports, handling, revived, published, drops>>
      /\ cleanups > 0 /\ cleanups' = cleanups - 1
  BY DEF CleanUp, history
<1>3. SubscriberTypes'
  BY <1>1 DEF Cleaned, Typed, SubscriberTypes
<1>4. DOMAIN status' = DOMAIN status /\ DOMAIN status = 1..Len(status)
  BY <1>1 DEF Cleaned, Typed, ClientTypes
<1>5. ClientTypes'
  <2>1. mqttClients' = {c \in DOMAIN status' : status'[c] # "disconnected"}
    BY <1>1, <1>4 DEF Cleaned, Typed, ClientTypes
  <2>2. \A c \in mqttClients' : mqttClientsWithTopics'[c] \subseteq Topics
    BY <1>1 DEF Cleaned, Typed, ClientTypes
  <2> QED
    BY <1>1, <2>1, <2>2 DEF Cleaned, Typed, ClientTypes
<1>6. NoticeTypes'
  BY <1>2, <1>4 DEF Typed, NoticeTypes
<1>7. CountTypes'
  <2>1. Cardinality(Cancelled) \in Nat
    BY FiniteAssumption, FS_Subset, FS_CardinalityType DEF Cancelled
  <2> QED
    BY <1>2, <2>1 DEF Typed, CountTypes, Cancelled, requests
<1> QED
  BY <1>2, <1>3, <1>5, <1>6, <1>7 DEF Typed, RequestTypes, requests

LEMMA TypedCancel ==
  ASSUME Typed, NEW w \in Watchers, Cancel(w)
  PROVE  Typed'
<1>1. /\ ~isCancelled[w] /\ isCancelled' = [isCancelled EXCEPT ![w] = TRUE]
      /\ topicSubscribers' = [t \in DOMAIN topicSubscribers |-> topicSubscribers[t] \ {w}]
      /\ cleanups' = cleanups + 1
      /\ UNCHANGED <<stage, subscriptionsQueue, requesting, issued, timer, mqtt, notices, reports,
                     handling, revived, published, drops>>
  BY DEF Cancel, history
<1>2. isCancelled \in [Watchers -> BOOLEAN]
  BY DEF Typed, RequestTypes
<1>3. isCancelled' \in [Watchers -> BOOLEAN] /\ Cancelled' = Cancelled \cup {w} /\ w \notin Cancelled
  BY <1>1, <1>2 DEF Cancelled
<1>4. Cardinality(Cancelled') = Cardinality(Cancelled) + 1 /\ Cardinality(Cancelled) \in Nat
  <2>1. IsFiniteSet(Cancelled)
    BY FiniteAssumption, FS_Subset DEF Cancelled
  <2> QED
    BY <1>3, <2>1, FS_AddElement, FS_CardinalityType
<1>5. CountTypes'
  BY <1>1, <1>4 DEF Typed, CountTypes
<1>6. RequestTypes'
  BY <1>1, <1>3 DEF Typed, RequestTypes
<1>7. SubscriberTypes'
  BY <1>1 DEF Typed, SubscriberTypes
<1> QED
  BY <1>1, <1>5, <1>6, <1>7 DEF Typed, ClientTypes, NoticeTypes, mqtt, mqttClients

LEMMA TypedConnections ==
  ASSUME Typed, Opens \/ Retries \/ (\E c \in DOMAIN status : Drop(c))
  PROVE  Typed'
<1>1. PICK c \in DOMAIN status, x \in {"connecting", "connected", "error"} :
        /\ changeStatus(c, x) /\ status[c] # "disconnected"
        /\ drops' = drops \/ (drops < MaxDrops /\ drops' = drops + 1)
  BY DEF Opens, Open, Retries, Retry, Drop
<1>2. /\ status' = [status EXCEPT ![c] = x] /\ notices' = notices (+) SetToBag({c})
      /\ UNCHANGED <<requests, topicSubscribers, timer, mqttClientsWithTopics, subscribed, reports,
                     handling, cleanups, published, revived>>
  BY <1>1 DEF changeStatus, history
<1>3. status \in Seq(Statuses) /\ x \in Statuses /\ x # "disconnected"
  BY DEF Typed, ClientTypes, Statuses
<1>4. status' \in Seq(Statuses) /\ Len(status') = Len(status) /\ DOMAIN status' = DOMAIN status
      /\ \A d \in DOMAIN status : status'[d] = IF d = c THEN x ELSE status[d]
  BY <1>2, <1>3
<1>5. RequestTypes' /\ SubscriberTypes'
  BY <1>2 DEF Typed, RequestTypes, SubscriberTypes, requests
<1>6. ClientTypes'
  BY <1>1, <1>2, <1>3, <1>4 DEF Typed, ClientTypes, mqttClients
<1>7. NoticeTypes'
  <2>1. DOMAIN notices' = DOMAIN notices \cup {c}
    BY <1>2, BagDomains
  <2> QED
    BY <1>2, <1>4, <2>1 DEF Typed, NoticeTypes
<1>8. CountTypes'
  BY <1>1, <1>2, BoundsAssumption DEF Typed, CountTypes, Cancelled, requests
<1> QED
  BY <1>5, <1>6, <1>7, <1>8 DEF Typed

LEMMA TypedBlocks ==
  ASSUME Typed, Reports \/ Notices \/ Handles
  PROVE  Typed'
<1>1. UNCHANGED <<requests, topicSubscribers, timer, mqttClientsWithTopics, status, cleanups, published, drops>>
  BY DEF Reports, Report, Notices, Notice, Handles, Handle, mqtt, history
<1>2. RequestTypes' /\ SubscriberTypes' /\ CountTypes'
  BY <1>1 DEF Typed, RequestTypes, SubscriberTypes, CountTypes, Cancelled, requests
<1>3. CASE Reports
  <2>1. PICK c \in DOMAIN notices :
          /\ notices' = notices (-) SetToBag({c}) /\ UNCHANGED <<subscribed, handling, revived>>
          /\ reports' = reports \/ reports' = reports (+) SetToBag({[client |-> c, status |-> status[c]]})
    BY <1>3 DEF Reports, Report, mqtt, history
  <2>2. /\ DOMAIN notices' \subseteq DOMAIN notices
        /\ DOMAIN reports' \subseteq DOMAIN reports \cup {[client |-> c, status |-> status[c]]}
    BY <2>1, BagDomains
  <2>3. \A b \in DOMAIN reports' : b.client \in DOMAIN status
    BY <2>2 DEF Typed, NoticeTypes
  <2>4. NoticeTypes'
    BY <1>1, <2>1, <2>2, <2>3 DEF Typed, NoticeTypes
  <2> QED
    BY <1>1, <1>2, <2>1, <2>4 DEF Typed, ClientTypes, mqttClients
<1>4. CASE Notices
  <2>1. PICK r \in DOMAIN reports :
          /\ reports' = reports (-) SetToBag({r}) /\ UNCHANGED <<subscribed, notices, revived>>
          /\ \/ handling' = handling
             \/ /\ r.client \in mqttClients
                /\ handling' = handling (+) SetToBag(
                     {[client |-> r.client, status |-> r.status, topics |-> mqttClientsWithTopics[r.client]]})
    BY <1>4 DEF Notices, Notice, mqtt, history
  <2>2. DOMAIN reports' \subseteq DOMAIN reports
    BY <2>1, BagDomains
  <2>3. ASSUME NEW h \in DOMAIN handling', h \notin DOMAIN handling
        PROVE  h.client \in DOMAIN status /\ h.topics \subseteq Topics
    <3> DEFINE new == [client |-> r.client, status |-> r.status, topics |-> mqttClientsWithTopics[r.client]]
    <3>1. r.client \in mqttClients /\ handling' = handling (+) SetToBag({new})
      BY <2>1, <2>3
    <3>2. new.client = r.client /\ new.topics = mqttClientsWithTopics[r.client]
      OBVIOUS
    <3> HIDE DEF new
    <3>3. h = new
      <4>1. DOMAIN handling' = DOMAIN handling \cup {new}
        BY <3>1, BagDomains
      <4> QED
        BY <2>3, <4>1
    <3> QED
      BY <3>1, <3>2, <3>3 DEF Typed, ClientTypes
  <2>4. NoticeTypes'
    BY <1>1, <2>1, <2>2, <2>3 DEF Typed, NoticeTypes
  <2> QED
    BY <1>1, <1>2, <2>1, <2>4 DEF Typed, ClientTypes, mqttClients
<1>5. CASE Handles
  <2>1. PICK h \in DOMAIN handling : Handle(h)
    BY <1>5 DEF Handles
  <2>2. h.topics \in SUBSET Topics /\ h.client \in DOMAIN status
        /\ subscribed \in Seq(SUBSET Topics) /\ Len(subscribed) = Len(status)
    BY DEF Typed, NoticeTypes, ClientTypes
  <2>3. /\ handling' = handling (-) SetToBag({h}) /\ UNCHANGED <<notices, reports>>
        /\ \/ UNCHANGED <<subscribed, revived>>
           \/ /\ subscribed' = [subscribed EXCEPT ![h.client] = @ \cup h.topics]
              /\ revived' \subseteq revived \cup {<<h.client, t>> : t \in h.topics}
    <3>1. \/ UNCHANGED <<subscribed, revived>>
          \/ /\ subscribed' = [subscribed EXCEPT ![h.client] = @ \cup h.topics]
             /\ revived' = revived \cup
                  {<<h.client, t>> : t \in IF h.client \in mqttClients
                                          THEN h.topics \ mqttClientsWithTopics[h.client]
                                          ELSE {}}
      BY <2>1 DEF Handle
    <3> QED
      BY <2>1, <3>1 DEF Handle
  <2>4. DOMAIN handling' \subseteq DOMAIN handling
    BY <2>3, BagDomains
  <2>5. NoticeTypes'
    <3>1. revived' \subseteq (DOMAIN status) \X Topics
      BY <2>2, <2>3 DEF Typed, NoticeTypes
    <3> QED
      BY <1>1, <2>3, <2>4, <3>1 DEF Typed, NoticeTypes
  <2>6. h.client \in DOMAIN subscribed
    BY <2>2 DEF Typed, ClientTypes
  <2>7. subscribed' \in Seq(SUBSET Topics) /\ Len(subscribed') = Len(subscribed)
    BY <2>2, <2>3, <2>6
  <2> QED
    BY <1>1, <1>2, <2>5, <2>7 DEF Typed, ClientTypes, mqttClients
<1> QED
  BY <1>3, <1>4, <1>5

LEMMA TypedMessages ==
  ASSUME Typed, (\E t \in Topics : Publish(t)) \/ (\E m \in messages : LookUp(m) \/ Callback(m))
                \/ UNCHANGED vars
  PROVE  Typed'
<1>1. /\ UNCHANGED <<requests, topicSubscribers, timer, mqtt, notices, reports, handling, revived,
                     cleanups, drops>>
      /\ published' = published \/ (published < MaxMessages /\ published' = published + 1)
  BY DEF Publish, LookUp, Callback, history, vars, blocks
<1>2. RequestTypes' /\ SubscriberTypes'
  BY <1>1 DEF Typed, RequestTypes, SubscriberTypes, requests
<1>3. ClientTypes' /\ NoticeTypes'
  BY <1>1 DEF Typed, ClientTypes, NoticeTypes, mqttClients, mqtt
<1>4. CountTypes'
  BY <1>1, BoundsAssumption DEF Typed, CountTypes, Cancelled, requests
<1> QED
  BY <1>2, <1>3, <1>4 DEF Typed

LEMMA TypedNext == Typed /\ [Next]_vars => Typed'
BY TypedRequests, TypedReset, TypedCleanUp, TypedCancel, TypedConnections, TypedBlocks, TypedMessages
DEF Next

LEMMA TypedInvariant == Spec => []Typed
BY TypedInit, TypedNext, PTL DEF Spec

(* The variables have their types in every reachable state.                *)
THEOREM TypeCorrect == Spec => []TypeOK
BY TypedInvariant, TypedIsTypeOK, PTL

-----------------------------------------------------------------------------
(* Unused connections.                                                     *)

(* An unused topic is there only while a block of stopSubscription waits,  *)
(* and a client has only topics of topicSubscribers.                       *)
UsedOrWaiting ==
  /\ cleanups = 0 => Unused = {}
  /\ \A c \in mqttClients : mqttClientsWithTopics[c] # {} /\ mqttClientsWithTopics[c] \subseteq DOMAIN topicSubscribers

LEMMA UsedNext ==
  ASSUME Typed, UsedOrWaiting, [Next]_vars
  PROVE  UsedOrWaiting'
<1>1. CASE resetAndStartSubscriptions
  <2>1. PICK n, order : OldAndNew(n, order)
    BY <1>1, ResetEffect
  <2>2. UNCHANGED <<topicSubscribers, cleanups>>
    BY <1>1 DEF resetAndStartSubscriptions, blocks
  <2>3. ResetTopics \subseteq DOMAIN topicSubscribers
    BY DEF ResetTopics, Interested
  <2>4. Len(status) \in Nat
    BY DEF Typed, ClientTypes
  <2>5. ASSUME NEW c \in mqttClients'
        PROVE  mqttClientsWithTopics'[c] # {} /\ mqttClientsWithTopics'[c] \subseteq DOMAIN topicSubscribers
    <3>1. c - Len(status) \in 1..n /\ c = Len(status) + (c - Len(status))
      BY <2>1, <2>4 DEF OldAndNew
    <3> DEFINE i == c - Len(status)
    <3>2. i \in 1..n /\ c = Len(status) + i
      BY <3>1
    <3> HIDE DEF i
    <3>3. mqttClientsWithTopics'[c] = {t \in ResetTopics : ConnectionOf[t] = order[i]}
      BY <2>1, <3>2 DEF OldAndNew
    <3>4. \E t \in ResetTopics : ConnectionOf[t] = order[i]
      BY <2>1, <3>2 DEF OldAndNew
    <3> QED
      BY <2>3, <3>3, <3>4
  <2> QED
    BY <2>2, <2>5 DEF UsedOrWaiting, Unused
<1>2. CASE CleanUp
  <2>1. Cleaned
    BY <1>2, CleanUpEffect
  <2>2. Unused' = {}
    BY <2>1 DEF Cleaned, Unused
  <2> QED
    BY <2>1, <2>2 DEF Cleaned, UsedOrWaiting
<1>3. CASE \E w \in Watchers : Cancel(w)
  <2>1. cleanups' = cleanups + 1 /\ DOMAIN topicSubscribers' = DOMAIN topicSubscribers
        /\ UNCHANGED mqttClientsWithTopics
    BY <1>3 DEF Cancel, mqtt
  <2> QED
    BY <2>1 DEF UsedOrWaiting, mqttClients, Typed, CountTypes
<1>4. CASE Answer
  <2>1. UNCHANGED <<mqttClientsWithTopics, cleanups>>
    BY <1>4 DEF Answer, Unheard, Answered, mqtt, blocks
  <2>2. CASE topicSubscribers' = topicSubscribers
    BY <2>1, <2>2 DEF UsedOrWaiting, Unused, mqttClients
  <2>3. CASE topicSubscribers' # topicSubscribers
    <3>1. PICK w : addWatcher(w)
      BY <1>4, <2>3 DEF Answer, Unheard, Answered
    <3>2. DOMAIN topicSubscribers \subseteq DOMAIN topicSubscribers' /\ Unused' \subseteq Unused
      BY <3>1 DEF addWatcher, SubscribersOf, Unused
    <3> QED
      BY <2>1, <3>2 DEF UsedOrWaiting, mqttClients
  <2> QED
    BY <2>2, <2>3
<1>5. CASE ~(resetAndStartSubscriptions \/ CleanUp \/ (\E w \in Watchers : Cancel(w)) \/ Answer)
  <2>1. UNCHANGED <<mqttClientsWithTopics, cleanups, topicSubscribers>>
    BY <1>5 DEF Next, Subscribe, StartSubscription, Opens, Open, Retries, Retry, Drop, changeStatus,
                Reports, Report, Notices, Notice, Handles, Handle, Publish, LookUp, Callback, mqtt, blocks, vars
  <2> QED
    BY <2>1 DEF UsedOrWaiting, Unused, mqttClients
<1> QED
  BY <1>1, <1>2, <1>3, <1>4, <1>5

(* A client is subscribed to topics it has, or to one that was taken from  *)
(* it before the block that had looked it up went on.                      *)
HasOrRevived ==
  \A c \in mqttClients : \A t \in subscribed[c] : t \in mqttClientsWithTopics[c] \/ <<c, t>> \in revived

LEMMA RevivedNext ==
  ASSUME Typed, HasOrRevived, [Next]_vars
  PROVE  HasOrRevived'
<1>0. mqttClients \subseteq DOMAIN subscribed
  BY DEF Typed, ClientTypes
<1>1. CASE resetAndStartSubscriptions
  <2>1. PICK n, order : OldAndNew(n, order)
    BY <1>1, ResetEffect
  <2>2. \A c \in mqttClients' : subscribed'[c] = {}
    BY <2>1 DEF OldAndNew
  <2> QED
    BY <2>2 DEF HasOrRevived
<1>2. CASE CleanUp
  <2>1. Cleaned /\ revived' = revived
    BY <1>2, CleanUpEffect DEF CleanUp, history
  <2> SUFFICES ASSUME NEW c \in mqttClients', NEW t \in subscribed'[c], <<c, t>> \notin revived
               PROVE  t \in mqttClientsWithTopics'[c]
    BY <2>1 DEF HasOrRevived
  <2>2. /\ mqttClientsWithTopics'[c] = mqttClientsWithTopics[c] \ Unused /\ c \in mqttClients
        /\ subscribed'[c] = subscribed[c] \ (Unused \cap mqttClientsWithTopics[c])
    BY <2>1 DEF Cleaned
  <2>3. t \in mqttClientsWithTopics[c]
    BY <2>2 DEF HasOrRevived
  <2> QED
    BY <2>2, <2>3
<1>3. CASE Handles
  <2>1. PICK h \in DOMAIN handling : Handle(h)
    BY <1>3 DEF Handles
  <2>2. mqttClientsWithTopics' = mqttClientsWithTopics
    BY <2>1 DEF Handle
  <2>3. CASE UNCHANGED <<subscribed, revived>>
    BY <2>2, <2>3 DEF HasOrRevived, mqttClients
  <2>4. CASE ~UNCHANGED <<subscribed, revived>>
    <3>1. /\ subscribed' = [subscribed EXCEPT ![h.client] = @ \cup h.topics]
          /\ revived' = revived \cup
               {<<h.client, t>> : t \in IF h.client \in mqttClients
                                       THEN h.topics \ mqttClientsWithTopics[h.client]
                                       ELSE {}}
      BY <2>1, <2>4 DEF Handle
    <3> SUFFICES ASSUME NEW c \in mqttClients, NEW t \in subscribed'[c], t \notin mqttClientsWithTopics[c]
                 PROVE  <<c, t>> \in revived'
      BY <2>2 DEF HasOrRevived, mqttClients
    <3>2. CASE t \in subscribed[c]
      BY <3>1, <3>2 DEF HasOrRevived
    <3>3. CASE t \notin subscribed[c]
      <4>1. c = h.client /\ t \in h.topics
        BY <1>0, <3>1, <3>3
      <4> QED
        BY <3>1, <4>1
    <3> QED
      BY <3>2, <3>3
  <2> QED
    BY <2>3, <2>4
<1>4. CASE ~(resetAndStartSubscriptions \/ CleanUp \/ Handles)
  <2>1. UNCHANGED <<mqttClientsWithTopics, subscribed, revived>>
    BY <1>4 DEF Next, Subscribe, Cancel, StartSubscription, Answer, Unheard, Answered, Opens, Open,
                Retries, Retry, Drop, changeStatus, Reports, Report, Notices, Notice, Publish, LookUp,
                Callback, mqtt, history, vars
  <2> QED
    BY <2>1 DEF HasOrRevived, mqttClients
<1> QED
  BY <1>1, <1>2, <1>3, <1>4

(* Once its blocks have run, cancelling leaves no connection open that     *)
(* nobody needs, and no topic - neither in mqttClientsWithTopics nor       *)
(* subscribed at the broker - that nobody is subscribed to, but for one a  *)
(* status block had looked up before and subscribed to after the clean-up  *)
(* (stopSubscription, unsubscribeTopic, connectionStatusChanged).          *)
THEOREM NothingLeftOpen == Spec => []UnusedReleased
<1>1. Init => UsedOrWaiting /\ HasOrRevived
  BY DEF Init, UsedOrWaiting, HasOrRevived, Unused, mqttClients
<1>2. UsedOrWaiting /\ HasOrRevived => UnusedReleased
  <2> SUFFICES ASSUME UsedOrWaiting, HasOrRevived, cleanups = 0, NEW c \in mqttClients
               PROVE  /\ mqttClientsWithTopics[c] # {}
                      /\ \A t \in mqttClientsWithTopics[c] \cup subscribed[c] :
                           SubscribersOf(t) # {} \/ <<c, t>> \in revived
    BY DEF UnusedReleased
  <2>1. \A t \in mqttClientsWithTopics[c] : SubscribersOf(t) # {}
    BY DEF UsedOrWaiting, Unused, SubscribersOf
  <2> QED
    BY <2>1 DEF UsedOrWaiting, HasOrRevived
<1> QED
  BY <1>1, <1>2, UsedNext, RevivedNext, TypedInvariant, PTL DEF Spec

-----------------------------------------------------------------------------
(* Wanted topics.                                                          *)

(* The timer holds all the topics of this device, those of every wanted    *)
(* subscription among them.                                                *)
Asked ==
  /\ \A w \in Wanted : TopicsOf[w] \subseteq issued /\ \A t \in TopicsOf[w] : w \in SubscribersOf(t)
  /\ timer # None => timer.topics = issued

LEMMA AskedNext ==
  ASSUME Typed, Asked, [Next]_vars
  PROVE  Asked'
<1>1. CASE CleanUp
  <2>1. Cleaned /\ UNCHANGED <<stage, isCancelled, issued, timer>>
    BY <1>1, CleanUpEffect DEF CleanUp, requests
  <2>2. \A t : SubscribersOf(t)' = SubscribersOf(t)
    BY <2>1 DEF Cleaned, SubscribersOf, Unused
  <2> QED
    BY <2>1, <2>2 DEF Asked, Wanted
<1>2. CASE \E w \in Watchers : Cancel(w)
  <2>1. PICK w \in Watchers : Cancel(w)
    BY <1>2
  <2>2. isCancelled' = [isCancelled EXCEPT ![w] = TRUE] /\ UNCHANGED <<stage, issued, timer>>
        /\ topicSubscribers' = [t \in DOMAIN topicSubscribers |-> topicSubscribers[t] \ {w}]
    BY <2>1 DEF Cancel
  <2>3. Wanted' \subseteq Wanted \ {w}
    BY <2>2 DEF Wanted, Typed, RequestTypes
  <2>4. \A t : SubscribersOf(t)' = SubscribersOf(t) \ {w}
    BY <2>2 DEF SubscribersOf
  <2> QED
    BY <2>2, <2>3, <2>4 DEF Asked
<1>3. CASE \E outcome \in Outcomes : Answered(outcome)
  <2>1. PICK outcome \in Outcomes : Answered(outcome)
    BY <1>3
  <2>2. requesting \in Watchers /\ stage' = [stage EXCEPT ![requesting] = outcome] /\ UNCHANGED isCancelled
    BY <2>1 DEF Answered, Typed, RequestTypes
  <2>3. CASE outcome = "ok"
    <3>1. issued' = issued \cup TopicsOf[requesting] /\ addWatcher(requesting)
          /\ timer' = [topics |-> issued', identifier |-> requesting]
      BY <2>1, <2>3 DEF Answered
    <3>2. Wanted' \subseteq Wanted \cup {requesting}
      BY <2>2 DEF Wanted, Typed, RequestTypes
    <3>3. \A t : SubscribersOf(t) \subseteq SubscribersOf(t)'
          /\ (t \in TopicsOf[requesting] => requesting \in SubscribersOf(t)')
      BY <3>1 DEF addWatcher, SubscribersOf
    <3> QED
      BY <3>1, <3>2, <3>3 DEF Asked
  <2>4. CASE outcome # "ok"
    <3>1. UNCHANGED <<issued, topicSubscribers, timer>>
      BY <2>1, <2>4 DEF Answered
    <3>2. Wanted' \subseteq Wanted
      BY <2>2, <2>4 DEF Wanted, Typed, RequestTypes
    <3> QED
      BY <3>1, <3>2 DEF Asked, SubscribersOf
  <2> QED
    BY <2>3, <2>4
<1>4. CASE (\E w \in Watchers : Subscribe(w)) \/ StartSubscription \/ Unheard
  <2>1. Wanted' \subseteq Wanted
    <3>1. StartSubscription => Head(subscriptionsQueue) \in Watchers
      BY DEF StartSubscription, Typed, RequestTypes
    <3> QED
      BY <1>4, <3>1 DEF Subscribe, StartSubscription, Unheard, Wanted, Typed, RequestTypes
  <2>2. UNCHANGED <<issued, topicSubscribers, timer>>
    BY <1>4 DEF Subscribe, StartSubscription, Unheard
  <2> QED
    BY <2>1, <2>2 DEF Asked, SubscribersOf
<1>5. CASE ~((\E w \in Watchers : Subscribe(w) \/ Cancel(w)) \/ StartSubscription \/ Answer \/ CleanUp)
  <2>1. UNCHANGED <<stage, isCancelled, issued, topicSubscribers>> /\ (timer' = timer \/ timer' = None)
    BY <1>5 DEF Next, resetAndStartSubscriptions, Opens, Open, Retries, Retry, Drop, changeStatus,
                Reports, Report, Notices, Notice, Handles, Handle, Publish, LookUp, Callback, requests, vars
  <2> QED
    BY <2>1 DEF Asked, Wanted, SubscribersOf
<1> QED
  BY <1>1, <1>2, <1>3, <1>4, <1>5 DEF Answer, Next

(* While nothing is to be reset, every wanted subscription has its topics  *)
(* on a connection.                                                        *)
LEMMA ServedNext ==
  ASSUME Typed, Asked, ServedUnlessSkipped, [Next]_vars
  PROVE  ServedUnlessSkipped'
<1>1. CASE resetAndStartSubscriptions
  <2>1. PICK n, order : OldAndNew(n, order)
    BY <1>1, ResetEffect
  <2>2. timer # None /\ skipped' = isCancelled[timer.identifier]
        /\ UNCHANGED <<stage, isCancelled, topicSubscribers>>
    BY <1>1 DEF resetAndStartSubscriptions, requests
  <2> SUFFICES ASSUME ~isCancelled[timer.identifier], NEW w \in Wanted, NEW t \in TopicsOf[w]
               PROVE  \E c \in mqttClients' : t \in mqttClientsWithTopics'[c]
    BY <2>2 DEF ServedUnlessSkipped, Wanted, Served
  <2>3. t \in ResetTopics
    BY <2>2 DEF Asked, ResetTopics, Interested, SubscribersOf
  <2>4. PICK i \in 1..n : order[i] = ConnectionOf[t]
    BY <2>1, <2>3 DEF OldAndNew
  <2>5. t \in mqttClientsWithTopics'[Len(status) + i]
    BY <2>1, <2>3, <2>4 DEF OldAndNew
  <2>6. Len(status) + i \in mqttClients'
    BY <2>1 DEF OldAndNew, Typed, ClientTypes
  <2> QED
    BY <2>5, <2>6
<1>2. CASE CleanUp
  <2>1. Cleaned /\ UNCHANGED <<stage, isCancelled, timer, skipped>>
    BY <1>2, CleanUpEffect DEF CleanUp, requests, history
  <2>2. ASSUME NEW w \in Wanted, Served(w)
        PROVE  Served(w)'
    <3> SUFFICES ASSUME NEW t \in TopicsOf[w]
                 PROVE  \E c \in mqttClients' : t \in mqttClientsWithTopics'[c]
      BY DEF Served
    <3>1. PICK c \in mqttClients : t \in mqttClientsWithTopics[c]
      BY <2>2 DEF Served
    <3>2. t \notin Unused
      BY DEF Asked, Unused, SubscribersOf
    <3> QED
      BY <2>1, <3>1, <3>2 DEF Cleaned
  <2> QED
    BY <2>1, <2>2 DEF ServedUnlessSkipped, Wanted
<1>3. CASE \E outcome \in Outcomes : Answered(outcome)
  <2>1. PICK outcome \in Outcomes : Answered(outcome)
    BY <1>3
  <2>2. requesting \in Watchers /\ stage' = [stage EXCEPT ![requesting] = outcome]
        /\ UNCHANGED <<isCancelled, mqttClientsWithTopics, skipped>>
    BY <2>1 DEF Answered, mqtt, Typed, RequestTypes
  <2>3. CASE outcome = "ok"
    <3>1. timer' = [topics |-> issued', identifier |-> requesting] /\ issued' = issued \cup TopicsOf[requesting]
      BY <2>1, <2>3 DEF Answered
    <3>2. issued' \in SUBSET Topics
      BY <2>2, <3>1, TopicsAssumption DEF Typed, RequestTypes
    <3>3. timer' # None
      BY <2>2, <3>1, <3>2, NoneAssumption
    <3> QED
      BY <3>3 DEF ServedUnlessSkipped
  <2>4. CASE outcome # "ok"
    <3>1. timer' = timer
      BY <2>1, <2>4 DEF Answered
    <3>2. Wanted' \subseteq Wanted
      BY <2>2, <2>4 DEF Wanted, Typed, RequestTypes
    <3> QED
      BY <2>2, <3>1, <3>2 DEF ServedUnlessSkipped, Served, mqttClients
  <2> QED
    BY <2>3, <2>4
<1>4. CASE ~(resetAndStartSubscriptions \/ CleanUp \/ \E outcome \in Outcomes : Answered(outcome))
  <2>1. UNCHANGED <<mqttClientsWithTopics, timer, skipped>>
    BY <1>4 DEF Next, Subscribe, Cancel, StartSubscription, Answer, Unheard, Opens, Open, Retries,
                Retry, Drop, changeStatus, Reports, Report, Notices,
                Notice, Handles, Handle, Publish, LookUp, Callback, mqtt, history, vars
  <2>2. Wanted' \subseteq Wanted
    <3>1. CASE \E w \in Watchers : Subscribe(w) \/ Cancel(w)
      BY <3>1 DEF Subscribe, Cancel, Wanted, Typed, RequestTypes
    <3>2. CASE StartSubscription
      <4>1. Head(subscriptionsQueue) \in Watchers
        BY <3>2 DEF StartSubscription, Typed, RequestTypes
      <4> QED
        BY <3>2, <4>1 DEF StartSubscription, Wanted, Typed, RequestTypes
    <3>3. CASE Unheard
      BY <3>3 DEF Unheard, Wanted, Typed, RequestTypes
    <3>4. CASE ~((\E w \in Watchers : Subscribe(w) \/ Cancel(w)) \/ StartSubscription \/ Unheard)
      <4>1. UNCHANGED <<stage, isCancelled>>
        BY <1>4, <3>4 DEF Next, Answer, Opens, Open, Retries, Retry, Drop, changeStatus,
                    Reports, Report, Notices, Notice, Handles, Handle, Publish, LookUp, Callback, requests, vars
      <4> QED
        BY <4>1 DEF Wanted
    <3> QED
      BY <3>1, <3>2, <3>3, <3>4
  <2> QED
    BY <2>1, <2>2 DEF ServedUnlessSkipped, Served, mqttClients
<1> QED
  BY <1>1, <1>2, <1>3, <1>4

(* A subscription that was answered and not cancelled has its topics on a  *)
(* connection, or will when the timer fires, through all the resets others *)
(* cause, unless a reset was skipped (resetAndStartSubscriptions).         *)
THEOREM WantedIsServed == Spec => []ServedUnlessSkipped
<1>1. Init => Asked /\ ServedUnlessSkipped
  BY DEF Init, Asked, ServedUnlessSkipped, Wanted
<1> QED
  BY <1>1, AskedNext, ServedNext, TypedInvariant, PTL DEF Spec

-----------------------------------------------------------------------------
(* No message twice.                                                       *)

(* The topics a client is subscribed to, has, or is about to be subscribed *)
(* to by a block that looked them up.  No two open clients share one.      *)
Uses(c, t) ==
  \/ c \in DOMAIN subscribed /\ t \in subscribed[c]
  \/ c \in mqttClients /\ t \in mqttClientsWithTopics[c]
  \/ \E h \in DOMAIN handling : h.client = c /\ t \in h.topics

Apart == \A c, d \in mqttClients : \A t : Uses(c, t) /\ Uses(d, t) => c = d

LEMMA ApartReset ==
  ASSUME Typed, resetAndStartSubscriptions
  PROVE  Apart'
<1>1. PICK n, order : OldAndNew(n, order)
  BY ResetEffect
<1>2. handling' = handling
  BY DEF resetAndStartSubscriptions
<1>3. Len(status) \in Nat /\ DOMAIN status = 1..Len(status) /\ Len(subscribed) = Len(status)
  BY DEF Typed, ClientTypes
<1>4. ASSUME NEW c \in mqttClients', NEW t, Uses(c, t)'
      PROVE  \E i \in 1..n : c = Len(status) + i /\ ConnectionOf[t] = order[i]
  <2> DEFINE i == c - Len(status)
  <2>1. c \in Len(status) + 1 .. Len(status) + n /\ i \in 1..n /\ c = Len(status) + i
    BY <1>1, <1>3 DEF OldAndNew
  <2>2. subscribed'[c] = {}
    BY <1>1, <2>1 DEF OldAndNew
  <2>3. \A h \in DOMAIN handling : h.client # c
    BY <1>3, <2>1 DEF Typed, NoticeTypes
  <2>4. t \in mqttClientsWithTopics'[c]
    BY <1>2, <1>4, <2>2, <2>3 DEF Uses
  <2> HIDE DEF i
  <2>5. mqttClientsWithTopics'[c] = {u \in ResetTopics : ConnectionOf[u] = order[i]}
    BY <1>1, <2>1 DEF OldAndNew
  <2> QED
    BY <2>1, <2>4, <2>5
<1> SUFFICES ASSUME NEW c \in mqttClients', NEW d \in mqttClients', NEW t, Uses(c, t)', Uses(d, t)'
             PROVE  c = d
  BY DEF Apart
<1>5. PICK i \in 1..n : c = Len(status) + i /\ ConnectionOf[t] = order[i]
  BY <1>4
<1>6. PICK j \in 1..n : d = Len(status) + j /\ ConnectionOf[t] = order[j]
  BY <1>4
<1>7. \A k, l \in 1..n : order[k] = order[l] => k = l
  BY <1>1 DEF OldAndNew
<1>8. i = j
  BY <1>5, <1>6, <1>7
<1> QED
  BY <1>5, <1>6, <1>8

LEMMA ApartNext ==
  ASSUME Typed, Apart, [Next]_vars
  PROVE  Apart'
<1>1. CASE resetAndStartSubscriptions
  BY <1>1, ApartReset
<1>2. CASE ~resetAndStartSubscriptions
  <2> SUFFICES mqttClients' \subseteq mqttClients /\ \A c \in mqttClients' : \A t : Uses(c, t)' => Uses(c, t)
    BY DEF Apart
  <2>1. CASE CleanUp
    <3>1. Cleaned /\ handling' = handling
      BY <2>1, CleanUpEffect DEF CleanUp
    <3>2. DOMAIN subscribed' = DOMAIN subscribed
      BY <3>1 DEF Cleaned, Typed, ClientTypes
    <3> QED
      BY <3>1, <3>2 DEF Cleaned, Uses
  <2>2. CASE Notices
    <3>1. PICK r \in DOMAIN reports :
            /\ UNCHANGED <<subscribed, mqttClientsWithTopics>>
            /\ \/ handling' = handling
               \/ /\ r.client \in mqttClients
                  /\ handling' = handling (+) SetToBag(
                     {[client |-> r.client, status |-> r.status, topics |-> mqttClientsWithTopics[r.client]]})
      BY <2>2 DEF Notices, Notice, mqtt
    <3>2. \A h \in DOMAIN handling' :
            h \in DOMAIN handling \/ (h.client \in mqttClients /\ h.topics = mqttClientsWithTopics[h.client])
      <4> DEFINE new == [client |-> r.client, status |-> r.status, topics |-> mqttClientsWithTopics[r.client]]
      <4>1. new.client = r.client /\ new.topics = mqttClientsWithTopics[r.client]
        OBVIOUS
      <4>2. handling' = handling \/ (r.client \in mqttClients /\ handling' = handling (+) SetToBag({new}))
        BY <3>1
      <4> HIDE DEF new
      <4>3. handling' = handling \/ (r.client \in mqttClients /\ DOMAIN handling' = DOMAIN handling \cup {new})
        BY <4>2, BagDomains
      <4> QED
        BY <4>1, <4>3
    <3> QED
      BY <3>1, <3>2 DEF Uses, mqttClients
  <2>3. CASE Handles
    <3>1. PICK h \in DOMAIN handling :
            /\ DOMAIN handling' \subseteq DOMAIN handling /\ UNCHANGED mqttClientsWithTopics
            /\ \/ UNCHANGED subscribed
               \/ subscribed' = [subscribed EXCEPT ![h.client] = @ \cup h.topics]
      BY <2>3, BagDomains DEF Handles, Handle
    <3>2. DOMAIN subscribed' = DOMAIN subscribed
          /\ \A c \in DOMAIN subscribed :
               subscribed'[c] \subseteq subscribed[c] \cup (IF c = h.client THEN h.topics ELSE {})
      BY <3>1
    <3> QED
      BY <3>1, <3>2 DEF Uses, mqttClients
  <2>4. CASE ~(CleanUp \/ Notices \/ Handles)
    <3>1. UNCHANGED <<subscribed, mqttClientsWithTopics, handling>>
      BY <1>2, <2>4 DEF Next, Subscribe, Cancel, StartSubscription, Answer, Unheard, Answered, Opens, Open,
                        Retries, Retry, Drop, changeStatus, Reports, Report, Publish, LookUp, Callback, mqtt, blocks, vars
    <3> QED
      BY <3>1 DEF Uses, mqttClients
  <2> QED
    BY <2>1, <2>2, <2>3, <2>4
<1> QED
  BY <1>1, <1>2

(* A message is one block, and no longer has the watchers that heard it.   *)
MessageTypes == [client : Int, topic : Topics, number : Nat, to : (SUBSET Watchers) \cup {None}]

Single ==
  /\ published \in Nat
  /\ messages \subseteq MessageTypes /\ heard \in [Watchers -> Seq(Nat)]
  /\ \A m \in messages : m.number =< published
  /\ \A m, l \in messages : m.number = l.number => m = l

Heard ==
  \A w \in Watchers : \A i \in DOMAIN heard[w] :
    /\ heard[w][i] =< published
    /\ \A m \in messages : m.number = heard[w][i] => m.to # None /\ w \notin m.to

LEMMA HeardPublish ==
  ASSUME Typed, Apart, Single, Heard, NEW t \in Topics, Publish(t)
  PROVE  Single' /\ Heard'
<1>0. PICK hearers \in SUBSET {d \in DOMAIN status : MayHear(d, t)} :
        messages' = messages \cup {[client |-> c, topic |-> t, number |-> published + 1, to |-> None] :
                                     c \in hearers}
  BY DEF Publish
<1> DEFINE new == {[client |-> c, topic |-> t, number |-> published + 1, to |-> None] : c \in hearers}
<1>1. published' = published + 1 /\ messages' = messages \cup new /\ heard' = heard
  BY <1>0 DEF Publish
<1>2. \A c, d \in DOMAIN status : MayHear(c, t) /\ MayHear(d, t) => c = d
  <2>1. \A c \in DOMAIN status : MayHear(c, t) => c \in mqttClients /\ Uses(c, t)
    BY DEF MayHear, Uses, Typed, ClientTypes
  <2> QED
    BY <2>1 DEF Apart
<1>3. DOMAIN status \subseteq Int
  BY DEF Typed, ClientTypes
<1>4. /\ new \subseteq MessageTypes
      /\ \A m \in new : m.number = published + 1
      /\ \A m, l \in new : m = l
  <2>1. published + 1 \in Nat
    BY DEF Single
  <2>2. \A m \in new : \E c \in DOMAIN status :
          MayHear(c, t) /\ m = [client |-> c, topic |-> t, number |-> published + 1, to |-> None]
    OBVIOUS
  <2>3. \A c \in Int : [client |-> c, topic |-> t, number |-> published + 1, to |-> None] \in MessageTypes
    <3> DEFINE k == published + 1
               Tos == (SUBSET Watchers) \cup {None}
    <3>1. k \in Nat /\ None \in Tos
      BY <2>1
    <3> HIDE DEF k, Tos
    <3>2. \A c \in Int : [client |-> c, topic |-> t, number |-> k, to |-> None]
                           \in [client : Int, topic : Topics, number : Nat, to : Tos]
      BY <3>1
    <3> QED
      BY <3>2 DEF k, Tos, MessageTypes
  <2> HIDE DEF new
  <2> QED
    BY <1>2, <1>3, <2>2, <2>3
<1> HIDE DEF new
<1>5. published \in Nat
  BY DEF Single
<1>6. \A m \in messages : m.number \in Nat /\ m.number =< published
  BY DEF Single, MessageTypes
<1>7. \A m \in messages, l \in new : m.number # l.number
  BY <1>4, <1>5, <1>6
<1>8. Single'
  <2>1. messages' \subseteq MessageTypes /\ published' \in Nat /\ heard' \in [Watchers -> Seq(Nat)]
    BY <1>1, <1>4 DEF Single
  <2>2. \A m \in messages' : m.number =< published'
    BY <1>1, <1>4, <1>5, <1>6
  <2>3. \A m, l \in messages' : m.number = l.number => m = l
    BY <1>1, <1>4, <1>7 DEF Single
  <2> QED
    BY <2>1, <2>2, <2>3 DEF Single
<1>9. Heard'
  <2> SUFFICES ASSUME NEW w \in Watchers, NEW i \in DOMAIN heard[w]
               PROVE  /\ heard[w][i] =< published'
                      /\ \A m \in messages' : m.number = heard[w][i] => m.to # None /\ w \notin m.to
    BY <1>1 DEF Heard
  <2>1. heard[w][i] \in Nat /\ heard[w][i] =< published
    BY DEF Single, Heard
  <2>2. \A m \in new : m.number # heard[w][i]
    BY <1>4, <1>5, <2>1
  <2> QED
    BY <1>1, <1>5, <2>1, <2>2 DEF Heard
<1> QED
  BY <1>8, <1>9

(* A message changes its watchers, or goes.                                *)
LEMMA HeardChange ==
  ASSUME Single, Heard, NEW m \in messages, NEW to \in (SUBSET Watchers) \cup {None},
         UNCHANGED <<published, heard>>,
         \/ messages' = messages \ {m}
         \/ /\ messages' = (messages \ {m}) \cup {[m EXCEPT !.to = to]}
            /\ to # None
            /\ \A w \in Watchers : \A i \in DOMAIN heard[w] : heard[w][i] = m.number => w \notin to
  PROVE  Single' /\ Heard'
<1> DEFINE l == [m EXCEPT !.to = to]
<1>1. l \in MessageTypes /\ l.number = m.number /\ l.to = to
  BY DEF Single, MessageTypes
<1> HIDE DEF l
<1>2. CASE messages' = messages \ {m}
  BY <1>2 DEF Single, Heard
<1>3. CASE messages' = (messages \ {m}) \cup {l} /\ to # None
           /\ \A w \in Watchers : \A i \in DOMAIN heard[w] : heard[w][i] = m.number => w \notin to
  <2>1. Single'
    BY <1>1, <1>3 DEF Single
  <2>2. Heard'
    BY <1>1, <1>3 DEF Heard
  <2> QED
    BY <2>1, <2>2
<1> QED
  BY <1>2, <1>3 DEF l

LEMMA HeardLookUp ==
  ASSUME Typed, Single, Heard, NEW m \in messages, LookUp(m)
  PROVE  Single' /\ Heard'
<1>1. m.to = None /\ UNCHANGED <<published, heard>>
  BY DEF LookUp, history
<1>2. CASE messages' = messages \ {m}
  BY <1>1, <1>2, HeardChange
<1>3. CASE m.topic \in DOMAIN topicSubscribers
           /\ messages' = (messages \ {m}) \cup {[m EXCEPT !.to = topicSubscribers[m.topic]]}
  <2>1. topicSubscribers[m.topic] \in SUBSET Watchers /\ topicSubscribers[m.topic] # None
    BY <1>3, NoneAssumption DEF Typed, SubscriberTypes
  <2>2. \A w \in Watchers : \A i \in DOMAIN heard[w] : heard[w][i] # m.number
    BY <1>1 DEF Heard
  <2> DEFINE to == topicSubscribers[m.topic]
  <2>3. /\ messages' = (messages \ {m}) \cup {[m EXCEPT !.to = to]} /\ to # None
        /\ to \in (SUBSET Watchers) \cup {None}
        /\ \A w \in Watchers : \A i \in DOMAIN heard[w] : heard[w][i] = m.number => w \notin to
    BY <1>3, <2>1, <2>2
  <2> HIDE DEF to
  <2> QED
    BY <1>1, <2>3, HeardChange
<1> QED
  BY <1>2, <1>3 DEF LookUp

LEMMA HeardCallback ==
  ASSUME Typed, Single, Heard, HeardOnce, NEW m \in messages, Callback(m)
  PROVE  Single' /\ Heard' /\ HeardOnce'
<1>1. m.to # None /\ published' = published /\ m.to \in SUBSET Watchers /\ m \in MessageTypes
  <2>1. m \in MessageTypes
    BY DEF Single
  <2>2. m.to \in (SUBSET Watchers) \cup {None}
    BY <2>1 DEF MessageTypes
  <2>3. m.to # None /\ published' = published
    BY DEF Callback
  <2>4. m.to \in SUBSET Watchers
    BY <2>2, <2>3, Zenon
  <2> QED
    BY <2>1, <2>3, <2>4
<1>2. CASE heard' = heard
  <2>1. PICK to \in SUBSET Watchers :
          to \subseteq m.to
          /\ (messages' = messages \ {m} \/ messages' = (messages \ {m}) \cup {[m EXCEPT !.to = to]})
    <3>1. CASE m.to = {}
      BY <1>1, <3>1 DEF Callback
    <3>2. CASE m.to # {}
      <4>1. PICK w \in m.to : messages' = (messages \ {m}) \cup {[m EXCEPT !.to = @ \ {w}]}
        BY <3>2 DEF Callback
      <4>2. [m EXCEPT !.to = @ \ {w}] = [m EXCEPT !.to = m.to \ {w}]
        OBVIOUS
      <4> QED
        BY <1>1, <4>1, <4>2
    <3> QED
      BY <3>1, <3>2
  <2>2. to # None
    BY NoneAssumption
  <2>3. \A w \in Watchers : \A i \in DOMAIN heard[w] : heard[w][i] = m.number => w \notin to
    BY <2>1 DEF Heard
  <2>4. Single' /\ Heard'
    BY <1>1, <1>2, <2>1, <2>2, <2>3, HeardChange
  <2> QED
    BY <1>2, <2>4 DEF HeardOnce
<1>3. CASE heard' # heard
  <2>1. PICK w \in m.to :
          /\ messages' = (messages \ {m}) \cup {[m EXCEPT !.to = m.to \ {w}]}
          /\ heard' = [heard EXCEPT ![w] = Append(@, m.number)]
    BY <1>3 DEF Callback
  <2> DEFINE l == [m EXCEPT !.to = m.to \ {w}]
  <2>2. w \in Watchers
    BY <1>1
  <2>3. l \in MessageTypes /\ l.number = m.number /\ l.to = m.to \ {w} /\ l.to # None
    BY <1>1, NoneAssumption DEF MessageTypes
  <2> HIDE DEF l
  <2>4. messages' = (messages \ {m}) \cup {l}
    BY <2>1 DEF l
  <2>5. heard \in [Watchers -> Seq(Nat)] /\ m.number \in Nat /\ m.number =< published
    BY <1>1 DEF Single, MessageTypes
  <2>6. /\ heard' \in [Watchers -> Seq(Nat)]
        /\ \A v \in Watchers \ {w} : heard'[v] = heard[v]
        /\ heard'[w] = Append(heard[w], m.number)
    BY <2>1, <2>2, <2>5
  <2>7. /\ DOMAIN heard[w] = 1..Len(heard[w]) /\ Len(heard[w]) \in Nat
        /\ DOMAIN heard'[w] = 1..(Len(heard[w]) + 1)
        /\ \A i \in 1..Len(heard[w]) : heard'[w][i] = heard[w][i]
        /\ heard'[w][Len(heard[w]) + 1] = m.number
    BY <2>2, <2>5, <2>6
  <2>8. \A i \in DOMAIN heard[w] : heard[w][i] # m.number
    BY <2>2 DEF Heard
  <2>9. Single'
    BY <1>1, <2>3, <2>4, <2>6 DEF Single
  <2>10. HeardOnce'
    <3> SUFFICES ASSUME NEW v \in Watchers, NEW i \in DOMAIN heard'[v], NEW j \in DOMAIN heard'[v],
                        heard'[v][i] = heard'[v][j]
                 PROVE  i = j
      BY DEF HeardOnce
    <3>1. CASE v # w
      BY <2>6, <3>1 DEF HeardOnce
    <3>2. CASE v = w
      <4>1. \A k \in DOMAIN heard'[w] : k \in DOMAIN heard[w] \/ k = Len(heard[w]) + 1
        BY <2>7
      <4> QED
        BY <2>2, <2>7, <2>8, <3>2, <4>1 DEF HeardOnce
    <3> QED
      BY <3>1, <3>2
  <2>11. Heard'
    <3> SUFFICES ASSUME NEW v \in Watchers, NEW i \in DOMAIN heard'[v]
                 PROVE  /\ heard'[v][i] =< published
                        /\ \A k \in messages' : k.number = heard'[v][i] => k.to # None /\ v \notin k.to
      BY <1>1 DEF Heard
    <3>1. CASE v # w \/ i \in DOMAIN heard[w]
      <4>1. i \in DOMAIN heard[v] /\ heard'[v][i] = heard[v][i]
        BY <2>6, <2>7, <3>1
      <4> QED
        BY <2>3, <2>4, <4>1 DEF Heard
    <3>2. CASE v = w /\ i \notin DOMAIN heard[w]
      <4>1. heard'[w][i] = m.number
        BY <2>7, <3>2
      <4>2. \A k \in messages \ {m} : k.number # m.number
        BY DEF Single
      <4> QED
        BY <2>3, <2>4, <2>5, <3>2, <4>1, <4>2
    <3> QED
      BY <3>1, <3>2
  <2> QED
    BY <2>9, <2>10, <2>11
<1> QED
  BY <1>2, <1>3

LEMMA HeardNext ==
  ASSUME Typed, Apart, Single, Heard, HeardOnce, [Next]_vars
  PROVE  Single' /\ Heard' /\ HeardOnce'
<1>1. CASE \E t \in Topics : Publish(t)
  <2>1. heard' = heard
    BY <1>1 DEF Publish
  <2> QED
    BY <1>1, <2>1, HeardPublish DEF HeardOnce
<1>2. CASE \E m \in messages : LookUp(m)
  <2>1. heard' = heard
    BY <1>2 DEF LookUp, history
  <2> QED
    BY <1>2, <2>1, HeardLookUp DEF HeardOnce
<1>3. CASE \E m \in messages : Callback(m)
  BY <1>3, HeardCallback
<1>4. CASE ~((\E t \in Topics : Publish(t)) \/ \E m \in messages : LookUp(m) \/ Callback(m))
  <2>1. UNCHANGED <<messages, heard, published>>
    BY <1>4 DEF Next, Subscribe, Cancel, StartSubscription, Answer, Unheard, Answered,
                resetAndStartSubscriptions, Opens, Open, Retries, Retry, Drop, changeStatus,
                Reports, Report, Notices, Notice, Handles, Handle, CleanUp,
                blocks, history, vars
  <2> QED
    BY <2>1 DEF Single, Heard, HeardOnce
<1> QED
  BY <1>1, <1>2, <1>3, <1>4

(* No handler gets a message twice, although connections are replaced and  *)
(* several subscriptions share topics (resetAndStartSubscriptions,         *)
(* receivedMessageData).                                                   *)
THEOREM NoneTwice == Spec => []HeardOnce
<1>1. Init => Apart /\ Single /\ Heard /\ HeardOnce
  <2> SUFFICES ASSUME Init PROVE Apart /\ Single /\ Heard /\ HeardOnce
    OBVIOUS
  <2>1. heard = [w \in Watchers |-> <<>>] /\ messages = {} /\ published = 0 /\ mqttClients = {}
    BY DEF Init, mqttClients
  <2>2. \A w \in Watchers : DOMAIN heard[w] = {} /\ heard[w] \in Seq(Nat)
    BY <2>1
  <2> QED
    BY <2>1, <2>2 DEF Apart, Single, Heard, HeardOnce
<1> QED
  BY <1>1, ApartNext, HeardNext, TypedInvariant, PTL DEF Spec
=============================================================================
