------------------ MODULE SubscriptionSyncCoverage_proofs ------------------
(***************************************************************************)
(* What a sync covers, for any items, clock, changes and bounds: the types *)
(* of the variables (WellTyped), and, where queries do not fail, that no   *)
(* change from before the saved time is skipped (NoneSkipped) and that     *)
(* none but those of the window before the broker takes a subscription is  *)
(* missed (NoneMissed), both up to answers without data.                   *)
(***************************************************************************)
EXTENDS SubscriptionSync_proofs, WellFoundedInduction

-----------------------------------------------------------------------------
(* The inductive type invariant.                                           *)

(* The versions of an item there have been so far.                         *)
Past(i) == {0} \cup ChangesOf(i)
Real == {v \in Partial : \A i \in DOMAIN v : v[i] \in Past(i)}
Whole == {v \in Versions : \A i \in Items : v[i] \in Past(i)}
SoFar == {None} \cup (-Slack)..(now - Slack)

HeldMessage == [change : DOMAIN log, date : 0..now, live : BOOLEAN]
MessageBlock == [kind : {"message"}, change : DOMAIN log]
StoreBlock ==
  MessageBlock \cup [kind : {"held", "unheard"}]
  \cup [kind : {"show", "publish"}, versions : Real]
HandlerBlock ==
  MessageBlock \cup [kind : {"rejected"}] \cup [kind : {"show", "base"}, versions : Real]
Answers == {<<>>} \cup {<<v>> : v \in Real}
Question ==
  [method : {"base", "delta"}, since : SoFar, sentAt : 0..now, answer : Answers,
   evaluatedAt : 0..now]

(* The log is in the order of its times.                                   *)
World ==
  /\ now \in 0..MaxTime
  /\ log \in Seq([item : Items, time : 0..now]) /\ Len(log) =< MaxChanges
  /\ \A k, l \in DOMAIN log : k =< l => log[k].time =< log[l].time

(* What is on the wire is not older than a message may travel.             *)
Lines ==
  /\ wire \in Seq(DOMAIN log)
  /\ \A n \in DOMAIN wire : now =< log[wire[n]].time + MaxTravel

Switches == {watching, replacing, subscribing, listening, registered, cancelled, isDelivering} \subseteq BOOLEAN

Control ==
  /\ pc \in {"idle", "subscribing", "choosing", "querying", "answered"}
  /\ ops \in Seq({"initial", "sync"})
  /\ timer = None \/ timer \in [kind : {"base", "retry"}, due : Nat]

Clocks == lastSyncTime \in SoFar /\ savedSyncTime \in SoFar /\ syncStart \in 0..now

(* An answer is not older than it may travel; a delta query has a time to  *)
(* ask from.                                                               *)
Asking ==
  IF pc \in {"querying", "answered"}
  THEN /\ query \in Question
       /\ query.sentAt =< query.evaluatedAt
       /\ query.answer # <<>> /\ (pc = "querying" \/ Prompt)
          => now =< query.evaluatedAt + MaxTravel
       /\ query.method = "delta" => query.since # None
       /\ pc = "answered" => query.method = "base" /\ query.answer # <<>>
  ELSE query = None

Queued ==
  /\ messages \in Seq(HeldMessage) /\ deliveries \in Seq(HeldMessage)
  /\ storeQueue \in Seq(StoreBlock) /\ handlerQueue \in Seq(HandlerBlock)

(* One base result, with data or without, waits for the handler, while the *)
(* sync is "answered".                                                     *)
Ends == {"base", "rejected"}
Bases(q) == {n \in DOMAIN q : q[n].kind \in Ends}
OneBase ==
  /\ \A n, m \in Bases(handlerQueue) : n = m
  /\ pc = "answered" <=> Bases(handlerQueue) # {}

(* What waits for the store is a message that was held back.               *)
HeadWaits == Held(storeQueue) # {} => deliveries # <<>> /\ ~Head(deliveries).live
NotLive == \A n \in DOMAIN messages : ~messages[n].live

Caches == {store, shown, seen} \subseteq Whole

App ==
  /\ Switches /\ Control /\ Clocks /\ Asking
  /\ Queued /\ OneBase /\ HeadWaits /\ NotLive /\ Caches

(* The marks in the log.                                                   *)
Marks == {unanswered, sentFrom, heardFrom} \subseteq 0..Len(log)

TypeInv == World /\ Lines /\ Marks /\ App

-----------------------------------------------------------------------------
(* Sequences.                                                              *)

LEMMA SeqWiden ==
  ASSUME NEW S, NEW T, NEW q \in Seq(S), S \subseteq T
  PROVE  q \in Seq(T)
<1>1. \A n \in 1..Len(q) : q[n] \in T
  OBVIOUS
<1> QED
  BY <1>1

LEMMA SeqAt ==
  ASSUME NEW S, NEW q \in Seq(S), NEW n \in DOMAIN q
  PROVE  q[n] \in S
OBVIOUS

(* A sequence of what a sequence holds.                                    *)
From(r, q) == IsSeq(r) /\ \A n \in DOMAIN r : \E m \in DOMAIN q : r[n] = q[m]

LEMMA SeqFrom ==
  ASSUME NEW S, NEW q \in Seq(S), NEW r, From(r, q)
  PROVE  r \in Seq(S)
<1>1. PICK T : r \in Seq(T)
  BY DEF From, IsSeq
<1>2. \A n \in 1..Len(r) : r[n] \in S
  BY <1>1, SeqAt DEF From
<1> QED
  BY <1>1, <1>2

LEMMA SeqCut ==
  ASSUME NEW q, IsSeq(q), NEW n \in 0..Len(q)
  PROVE  From(SubSeq(q, 1, n), q)
<1>1. PICK S : q \in Seq(S)
  BY DEF IsSeq
<1>2. SubSeq(q, 1, n) \in Seq(S) /\ DOMAIN SubSeq(q, 1, n) = 1..n
      /\ \A m \in 1..n : SubSeq(q, 1, n)[m] = q[m] /\ m \in DOMAIN q
  BY <1>1
<1> QED
  BY <1>2 DEF From, IsSeq

(* RemoveAt takes one place out and no other.                              *)
LEMMA SeqRemove ==
  ASSUME NEW q, IsSeq(q), NEW n \in DOMAIN q
  PROVE  /\ From(RemoveAt(q, n), q)
         /\ \A m \in DOMAIN q : m # n => \E l \in DOMAIN RemoveAt(q, n) : RemoveAt(q, n)[l] = q[m]
<1>1. PICK S : q \in Seq(S)
  BY DEF IsSeq
<1> DEFINE N == Len(q)
           r == SubSeq(q, 1, n - 1)
           t == SubSeq(q, n + 1, N)
<1>2. N \in Nat /\ DOMAIN q = 1..N /\ n \in 1..N
  BY <1>1
<1>3. /\ r \in Seq(S) /\ Len(r) = n - 1 /\ \A m \in 1..(n - 1) : r[m] = q[m]
      /\ t \in Seq(S) /\ Len(t) = N - n /\ \A m \in 1..(N - n) : t[m] = q[n + m]
  <2>1. r \in Seq(S) /\ Len(r) = n - 1 /\ \A m \in 1..(n - 1) : r[m] = q[m]
    BY <1>1, <1>2
  <2>2. t \in Seq(S) /\ Len(t) = N - n /\ \A m \in 1..(N - n) : t[m] = q[n + m]
    BY <1>1, <1>2
  <2> QED
    BY <2>1, <2>2
<1> HIDE DEF r, t, N
<1>4. /\ r \o t \in Seq(S) /\ DOMAIN (r \o t) = 1..(N - 1)
      /\ \A l \in 1..(N - 1) : (r \o t)[l] = IF l =< n - 1 THEN q[l] ELSE q[l + 1]
  <2>1. r \o t \in Seq(S) /\ Len(r \o t) = N - 1
        /\ \A l \in 1..(N - 1) : (r \o t)[l] = IF l =< n - 1 THEN r[l] ELSE t[l - (n - 1)]
    <3>1. Len(r) + Len(t) = N - 1
      BY <1>2, <1>3
    <3>2. /\ r \o t \in Seq(S) /\ Len(r \o t) = Len(r) + Len(t)
          /\ \A l \in 1..(Len(r) + Len(t)) : (r \o t)[l] = IF l =< Len(r) THEN r[l] ELSE t[l - Len(r)]
      BY <1>3, ConcatProperties
    <3> QED
      BY <1>3, <3>1, <3>2
  <2>2. \A l \in 1..(N - 1) : l =< n - 1 => r[l] = q[l]
    BY <1>2, <1>3
  <2>3. \A l \in 1..(N - 1) : ~(l =< n - 1) => l - (n - 1) \in 1..(N - n) /\ n + (l - (n - 1)) = l + 1
    BY <1>2
  <2> QED
    <3>1. \A l \in 1..(N - 1) : ~(l =< n - 1) => t[l - (n - 1)] = q[l + 1]
      BY <1>3, <2>3
    <3>2. DOMAIN (r \o t) = 1..(N - 1)
      BY <2>1
    <3> QED
      BY <2>1, <2>2, <3>1, <3>2
<1>5. RemoveAt(q, n) = r \o t
  BY DEF RemoveAt, r, t, N
<1>6. From(r \o t, q)
  <2>1. \A l \in 1..(N - 1) : \E m \in 1..N : (r \o t)[l] = q[m]
    <3> TAKE l \in 1..(N - 1)
    <3>1. l \in 1..N /\ l + 1 \in 1..N
      BY <1>2
    <3> QED
      BY <1>4, <3>1
  <2> QED
    BY <1>2, <1>4, <2>1 DEF From, IsSeq
<1>7. ASSUME NEW m \in 1..N, m # n PROVE \E l \in 1..(N - 1) : (r \o t)[l] = q[m]
  <2>1. CASE m < n
    <3>1. m \in 1..(N - 1) /\ m =< n - 1
      BY <1>2, <2>1
    <3> QED
      BY <1>4, <3>1
  <2>2. CASE m > n
    <3>1. m - 1 \in 1..(N - 1) /\ ~(m - 1 =< n - 1) /\ (m - 1) + 1 = m
      BY <1>2, <2>2
    <3> QED
      BY <1>4, <3>1
  <2>3. m < n \/ m > n
    BY <1>2, <1>7
  <2> QED
    BY <2>1, <2>2, <2>3
<1> QED
  BY <1>2, <1>4, <1>5, <1>6, <1>7

LEMMA SeqAdd ==
  ASSUME NEW S, NEW q \in Seq(S), NEW x \in S
  PROVE  /\ Append(q, x) \in Seq(S) /\ Len(Append(q, x)) = Len(q) + 1
         /\ DOMAIN q = 1..Len(q) /\ DOMAIN Append(q, x) = 1..(Len(q) + 1) /\ Len(q) \in Nat
         /\ Append(q, x)[Len(q) + 1] = x
         /\ \A n \in 1..Len(q) : Append(q, x)[n] = q[n] /\ q[n] \in S
OBVIOUS

-----------------------------------------------------------------------------
(* Time and the log only grow.                                             *)

Grown ==
  /\ now =< now'
  /\ DOMAIN log \subseteq DOMAIN log'
  /\ \A k \in DOMAIN log : log'[k] = log[k]

LEMMA WorldGrows ==
  ASSUME World, [Next]_vars
  PROVE  World' /\ Grown
<1>1. now \in Nat /\ log \in Seq([item : Items, time : 0..now]) /\ MaxTime \in Nat /\ MaxChanges \in Nat
  BY NumbersAssumption DEF World
<1>2. CASE Tick
  <2>1. now' = now + 1 /\ now < MaxTime /\ log' = log
    BY <1>2 DEF Tick
  <2>2. log' \in Seq([item : Items, time : 0..now'])
    <3> DEFINE S == [item : Items, time : 0..now]
               T == [item : Items, time : 0..now']
    <3>1. S \subseteq T /\ log \in Seq(S)
      BY <1>1, <2>1
    <3> HIDE DEF S, T
    <3>2. log' \in Seq(T)
      BY <2>1, <3>1, SeqWiden
    <3> QED
      BY <3>2 DEF T
  <2> QED
    BY <1>1, <2>1, <2>2 DEF World, Grown
<1>3. CASE \E i \in Items : Change(i)
  <2>1. PICK i \in Items : log' = Append(log, [item |-> i, time |-> now])
    BY <1>3 DEF Change
  <2>2. now' = now /\ Len(log) < MaxChanges
    BY <1>3 DEF Change
  <2> DEFINE x == [item |-> i, time |-> now]
  <2>3. x \in [item : Items, time : 0..now] /\ x.time = now
    BY <1>1
  <2>4. /\ log' \in Seq([item : Items, time : 0..now]) /\ Len(log') = Len(log) + 1
        /\ DOMAIN log = 1..Len(log) /\ DOMAIN log' = 1..(Len(log) + 1) /\ Len(log) \in Nat
        /\ log'[Len(log) + 1] = x
        /\ \A k \in 1..Len(log) : log'[k] = log[k] /\ log[k] \in [item : Items, time : 0..now]
    <3> DEFINE S == [item : Items, time : 0..now]
    <3>1. x \in S /\ log \in Seq(S) /\ log' = Append(log, x)
      BY <1>1, <2>1, <2>3
    <3> HIDE DEF x, S
    <3>2. /\ log' \in Seq(S) /\ Len(log') = Len(log) + 1
          /\ DOMAIN log = 1..Len(log) /\ DOMAIN log' = 1..(Len(log) + 1) /\ Len(log) \in Nat
          /\ log'[Len(log) + 1] = x
          /\ \A k \in 1..Len(log) : log'[k] = log[k] /\ log[k] \in S
      BY <3>1, SeqAdd
    <3> QED
      BY <3>2 DEF S
  <2> HIDE DEF x
  <2>5. \A k \in 1..Len(log) : log[k].time \in 0..now
    BY <2>4
  <2>6. \A k, l \in 1..Len(log) : k =< l => log[k].time =< log[l].time
    BY <2>4 DEF World
  <2>7. \A k, l \in DOMAIN log' : k =< l => log'[k].time =< log'[l].time
    <3> SUFFICES ASSUME NEW k \in 1..(Len(log) + 1), NEW l \in 1..(Len(log) + 1), k =< l
                 PROVE  log'[k].time =< log'[l].time
      BY <2>4
    <3>1. CASE l = Len(log) + 1
      <4>1. log'[l].time = now /\ (k = l \/ k \in 1..Len(log))
        BY <2>3, <2>4, <3>1
      <4>2. k \in 1..Len(log) => log'[k].time = log[k].time /\ log[k].time =< now
        BY <1>1, <2>4, <2>5
      <4> QED
        BY <1>1, <4>1, <4>2
    <3>2. CASE l # Len(log) + 1
      <4>1. k \in 1..Len(log) /\ l \in 1..Len(log)
        BY <2>4, <3>2
      <4> QED
        BY <2>4, <2>6, <4>1
    <3> QED
      BY <3>1, <3>2
  <2>8. Len(log') =< MaxChanges
    BY <1>1, <2>2, <2>4
  <2>9. World'
    BY <2>2, <2>4, <2>7, <2>8 DEF World
  <2> QED
    BY <1>1, <2>2, <2>4, <2>9 DEF Grown
<1>4. CASE ~Tick /\ ~(\E i \in Items : Change(i))
  <2>1. UNCHANGED <<now, log>>
    BY <1>4 DEF Next, vars, backend, Drop, Reconnect, CloseOld, Connected, SubscribeFails, Arrive,
       Deliver, RunStore, RunHandler, BeginSync, RunQuery, SkipQuery, TimerFires, Evaluate,
       BaseAnswered, DeltaAnswered, BaseRejected, DeltaRejected, QueryFails, SyncNotice, Cancel,
       Restart, Subscribed
  <2> QED
    BY <1>1, <2>1 DEF World, Grown
<1> QED
  BY <1>2, <1>3, <1>4

(* What belonged to a type belongs to it still.                            *)
LEMMA TypesGrow ==
  ASSUME World, World', Grown
  PROVE  /\ \A i : Past(i) \subseteq Past(i)'
         /\ Real \subseteq Real' /\ Whole \subseteq Whole' /\ SoFar \subseteq SoFar'
         /\ HeldMessage \subseteq HeldMessage' /\ MessageBlock \subseteq MessageBlock'
         /\ StoreBlock \subseteq StoreBlock' /\ HandlerBlock \subseteq HandlerBlock'
         /\ Question \subseteq Question'
<1>1. now \in Nat /\ now' \in Nat /\ now =< now' /\ Slack \in Nat /\ DOMAIN log \subseteq DOMAIN log'
  BY NumbersAssumption DEF World, Grown
<1>2. \A i : Past(i) \subseteq Past(i)'
  BY DEF Past, ChangesOf, Grown
<1>3. Real \subseteq Real' /\ Whole \subseteq Whole'
  BY <1>2 DEF Real, Whole
<1>4. SoFar \subseteq SoFar'
  BY <1>1 DEF SoFar
<1>5. 0..now \subseteq 0..now'
  BY <1>1
<1>6. HeldMessage \subseteq HeldMessage' /\ MessageBlock \subseteq MessageBlock'
  BY <1>1, <1>5 DEF HeldMessage, MessageBlock
<1>7. [kind : {"show", "publish"}, versions : Real] \subseteq [kind : {"show", "publish"}, versions : Real']
      /\ [kind : {"show", "base"}, versions : Real] \subseteq [kind : {"show", "base"}, versions : Real']
  BY <1>3
<1>8. StoreBlock \subseteq StoreBlock' /\ HandlerBlock \subseteq HandlerBlock'
  BY <1>6, <1>7, Zenon DEF StoreBlock, HandlerBlock
<1>9. Answers \subseteq Answers'
  BY <1>3, Zenon DEF Answers
<1>10. Question \subseteq Question'
  BY <1>4, <1>5, <1>9 DEF Question
<1> QED
  BY <1>2, <1>3, <1>4, <1>6, <1>8, <1>10

(* Every variable, left alone, keeps its type.                             *)
LEMMA LeftAlone ==
  ASSUME TypeInv, World', Grown
  PROVE  /\ wire \in Seq(DOMAIN log')
         /\ {lastSyncTime, savedSyncTime} \subseteq SoFar' /\ syncStart \in 0..now'
         /\ pc \in {"querying", "answered"} => query \in Question'
         /\ messages \in Seq(HeldMessage') /\ deliveries \in Seq(HeldMessage')
         /\ storeQueue \in Seq(StoreBlock') /\ handlerQueue \in Seq(HandlerBlock')
         /\ {store, shown, seen} \subseteq Whole'
<1>1. World
  BY DEF TypeInv
<1>3. messages \in Seq(HeldMessage') /\ deliveries \in Seq(HeldMessage')
  BY <1>1, SeqWiden, TypesGrow DEF TypeInv, App, Queued
<1>4. storeQueue \in Seq(StoreBlock') /\ handlerQueue \in Seq(HandlerBlock')
  BY <1>1, SeqWiden, TypesGrow DEF TypeInv, App, Queued
<1>5. wire \in Seq(DOMAIN log')
  BY SeqWiden DEF TypeInv, Lines, Grown
<1>6. syncStart \in 0..now'
  BY <1>1 DEF TypeInv, App, World, Grown, Clocks
<1>7. {lastSyncTime, savedSyncTime} \subseteq SoFar'
  BY <1>1, TypesGrow DEF TypeInv, App, Clocks
<1>8. pc \in {"querying", "answered"} => query \in Question'
  BY <1>1, TypesGrow DEF TypeInv, App, Asking
<1>9. {store, shown, seen} \subseteq Whole'
  BY <1>1, TypesGrow DEF TypeInv, App, Caches
<1> QED
  BY <1>3, <1>4, <1>5, <1>6, <1>7, <1>8, <1>9

-----------------------------------------------------------------------------
(* Versions.                                                               *)

IsMax(m, S) == m \in S /\ \A l \in S : l =< m

LEMMA HasMax ==
  ASSUME NEW n \in Nat, NEW S \in SUBSET (1..n), S # {}
  PROVE  \E m \in S : IsMax(m, S)
<1> DEFINE W == {n - l : l \in S}
           R == {p \in Nat \X Nat : p[1] < p[2]}
<1>1. W \subseteq Nat /\ W # {}
  <2>1. \A l \in S : n - l \in Nat
    OBVIOUS
  <2> QED
    BY <2>1
<1>2. IsWellFoundedOn(R, Nat)
  BY NatLessThanWellFounded, Zenon DEF OpToRel
<1> HIDE DEF R
<1>3. PICK w \in W : \A v \in W : <<v, w>> \notin R
  <2> HIDE DEF W
  <2> QED
    BY <1>1, <1>2, WFMin
<1>4. PICK m \in S : w = n - m
  OBVIOUS
<1>5. ASSUME NEW l \in S, ~(l =< m) PROVE FALSE
  <2>1. n - l \in W /\ n - l \in Nat /\ w \in Nat /\ n - l < w
    BY <1>4, <1>5
  <2> QED
    BY <1>3, <2>1 DEF R
<1> QED
  BY <1>4, <1>5 DEF IsMax

LEMMA LatestIsMax ==
  ASSUME World, NEW i
  PROVE  /\ Len(log) \in Nat /\ DOMAIN log = 1..Len(log)
         /\ IF ChangesOf(i) = {} THEN Latest(i) = 0 ELSE IsMax(Latest(i), ChangesOf(i))
<1>1. Len(log) \in Nat /\ DOMAIN log = 1..Len(log)
  BY DEF World
<1>2. ChangesOf(i) \in SUBSET (1..Len(log))
  BY <1>1 DEF ChangesOf
<1>3. CASE ChangesOf(i) # {}
  <2>1. \E m \in ChangesOf(i) : IsMax(m, ChangesOf(i))
    BY <1>1, <1>2, <1>3, HasMax
  <2> QED
    BY <1>1, <1>3, <2>1 DEF Latest, IsMax
<1>4. CASE ChangesOf(i) = {}
  BY <1>1, <1>4 DEF Latest
<1> QED
  BY <1>3, <1>4

LEMMA PastIsBounded ==
  ASSUME World, NEW i
  PROVE  Past(i) \subseteq 0..MaxChanges /\ Latest(i) \in Past(i) /\ \A k \in Past(i) : k =< Latest(i)
<1>1. Len(log) \in Nat /\ DOMAIN log = 1..Len(log) /\ Len(log) =< MaxChanges /\ MaxChanges \in Nat
  BY NumbersAssumption DEF World
<1>2. ChangesOf(i) \subseteq 1..Len(log)
  BY <1>1 DEF ChangesOf
<1>3. IF ChangesOf(i) = {} THEN Latest(i) = 0 ELSE IsMax(Latest(i), ChangesOf(i))
  BY LatestIsMax
<1> QED
  BY <1>1, <1>2, <1>3 DEF Past, IsMax

(* What the blocks and answers are built from.                             *)
LEMMA OneVersion ==
  ASSUME World, NEW k \in DOMAIN log
  PROVE  /\ log[k].item \in Items /\ k \in ChangesOf(log[k].item)
         /\ Version(k) \in Real
         /\ DOMAIN Version(k) = {log[k].item} /\ Version(k)[log[k].item] = k
<1> DEFINE i == log[k].item
<1>1. i \in Items
  <2>1. log[k] \in [item : Items, time : 0..now]
    BY SeqAt DEF World
  <2> QED
    BY <2>1
<1>2. k \in ChangesOf(i) /\ k \in Past(i)
  BY DEF ChangesOf, Past
<1>3. k \in 0..MaxChanges
  BY <1>2, PastIsBounded
<1>4. Version(k) = [x \in {i} |-> k]
  BY DEF Version
<1>5. Version(k) \in Partial
  <2>1. Version(k) \in [{i} -> 0..MaxChanges] /\ {i} \in SUBSET Items
    BY <1>1, <1>3, <1>4
  <2> QED
    BY <2>1 DEF Partial
<1> QED
  BY <1>1, <1>2, <1>4, <1>5 DEF Real

LEMMA TheLatest ==
  ASSUME World, NEW S \in SUBSET Items
  PROVE  [i \in S |-> Latest(i)] \in Real
<1>1. \A i \in S : Latest(i) \in Past(i) /\ Latest(i) \in 0..MaxChanges
  BY PastIsBounded
<1>2. [i \in S |-> Latest(i)] \in [S -> 0..MaxChanges]
  BY <1>1
<1>3. [i \in S |-> Latest(i)] \in Partial
  BY <1>2 DEF Partial
<1> QED
  BY <1>1, <1>3 DEF Real

LEMMA RealVersions ==
  ASSUME NEW v \in Real
  PROVE  DOMAIN v \subseteq Items /\ \A i \in DOMAIN v : v[i] \in Past(i) /\ v[i] \in 0..MaxChanges
BY DEF Real, Partial

LEMMA OverIsWhole ==
  ASSUME NEW w \in Whole, NEW v \in Real
  PROVE  Over(w, v) \in Whole
<1>1. \A i \in Items : w[i] \in Past(i) /\ w[i] \in 0..MaxChanges
  BY DEF Whole, Versions
<1>2. \A i \in DOMAIN v : v[i] \in Past(i) /\ v[i] \in 0..MaxChanges
  BY RealVersions
<1> QED
  BY <1>1, <1>2 DEF Over, Whole, Versions

LEMMA WholeIsReal == Whole \subseteq Real
BY DEF Whole, Real, Versions, Partial

(* The handlers give versions to the app.                                  *)
LEMMA Displayed ==
  ASSUME shown \in Whole, seen \in Whole, NEW v \in Real, Display(v)
  PROVE  /\ shown' \in Whole /\ seen' \in Whole
         /\ \A i \in Items : seen'[i] >= seen[i]
         /\ \A i \in DOMAIN v : seen'[i] >= v[i]
<1>1. \A i \in Items : seen[i] \in Past(i) /\ seen[i] \in 0..MaxChanges
  BY DEF Whole, Versions
<1>2. DOMAIN v \subseteq Items /\ \A i \in DOMAIN v : v[i] \in Past(i) /\ v[i] \in 0..MaxChanges
  BY RealVersions
<1>3. seen' = [i \in Items |-> IF i \in DOMAIN v /\ v[i] > seen[i] THEN v[i] ELSE seen[i]]
  BY DEF Display
<1>4. seen' \in Whole
  BY <1>1, <1>2, <1>3 DEF Whole, Versions
<1>5. shown' \in Whole
  BY OverIsWhole DEF Display
<1>6. MaxChanges \in Nat
  BY NumbersAssumption
<1> QED
  BY <1>1, <1>2, <1>3, <1>4, <1>5, <1>6

-----------------------------------------------------------------------------
(* Blocks.                                                                 *)

LEMMA NewBlocks ==
  /\ \A k \in DOMAIN log : Message(k) \in StoreBlock /\ Message(k) \in HandlerBlock
  /\ \A v \in Real : Show(v) \in StoreBlock /\ Show(v) \in HandlerBlock /\ Publish(v) \in StoreBlock
  /\ \A v \in Real : [kind |-> "base", versions |-> v] \in HandlerBlock
  /\ [kind |-> "rejected"] \in HandlerBlock
  /\ Nothing \in Real
  /\ [kind |-> "held"] \in StoreBlock /\ [kind |-> "unheard"] \in StoreBlock
<1>1. \A k \in DOMAIN log : Message(k) \in MessageBlock
  BY DEF Message, MessageBlock
<1>2. Nothing \in Real
  <2>1. DOMAIN Nothing = {} /\ Nothing \in [{} -> 0..MaxChanges]
    BY DEF Nothing
  <2>2. Nothing \in Partial
    BY <2>1 DEF Partial
  <2> QED
    BY <2>1, <2>2 DEF Real
<1> QED
  BY <1>1, <1>2 DEF StoreBlock, HandlerBlock, Show, Publish

LEMMA StoreBlockIs ==
  ASSUME NEW b \in StoreBlock
  PROVE  /\ b.kind \in {"message", "held", "unheard", "show", "publish"}
         /\ b.kind = "message" => b.change \in DOMAIN log
         /\ b.kind \in {"show", "publish"} => b.versions \in Real
         /\ b.kind \in {"message", "show"} => b \in HandlerBlock
BY DEF StoreBlock, HandlerBlock, MessageBlock

LEMMA HandlerBlockIs ==
  ASSUME NEW b \in HandlerBlock
  PROVE  /\ b.kind \in {"message", "show", "base", "rejected"}
         /\ b.kind = "message" => b.change \in DOMAIN log
         /\ b.kind \in {"show", "base"} => b.versions \in Real
BY DEF HandlerBlock, MessageBlock

-----------------------------------------------------------------------------
(* The wire.                                                               *)

LEMMA LinesStep ==
  ASSUME TypeInv, [Next]_vars
  PROVE  Lines'
<1>1. World /\ World' /\ Grown /\ Lines
  BY WorldGrows DEF TypeInv
<1>2. /\ wire \in Seq(DOMAIN log) /\ wire \in Seq(DOMAIN log')
      /\ \A n \in DOMAIN wire : wire[n] \in DOMAIN log /\ log'[wire[n]] = log[wire[n]]
  BY <1>1, LeftAlone, SeqAt DEF Lines, Grown
<1>3. now \in Nat /\ now' \in Nat /\ MaxTravel \in Nat /\ IsSeq(wire)
  BY <1>1, <1>2, NumbersAssumption DEF World, IsSeq
<1>4. ASSUME From(wire', wire), now' = now PROVE Lines'
  <2>1. wire' \in Seq(DOMAIN log')
    BY <1>2, <1>4, SeqFrom
  <2>2. \A n \in DOMAIN wire' : now' =< log'[wire'[n]].time + MaxTravel
    BY <1>1, <1>2, <1>4 DEF From, Lines
  <2> QED
    BY <2>1, <2>2 DEF Lines
<1>5. CASE Tick
  <2>1. wire' = wire /\ now' = now + 1 /\ \A n \in DOMAIN wire : now < log[wire[n]].time + MaxTravel
    BY <1>5 DEF Tick, link, ToSet
  <2>2. \A n \in DOMAIN wire : log[wire[n]].time \in Nat
    <3> TAKE n \in DOMAIN wire
    <3>1. wire[n] \in DOMAIN log
      BY <1>2
    <3>2. log[wire[n]] \in [item : Items, time : 0..now]
      BY <1>1, <3>1, SeqAt DEF World
    <3> QED
      BY <1>3, <3>2
  <2>3. \A n \in DOMAIN wire : now' =< log'[wire[n]].time + MaxTravel
    BY <1>2, <1>3, <2>1, <2>2
  <2> QED
    BY <1>2, <2>1, <2>3 DEF Lines
<1>6. CASE \E i \in Items : Change(i)
  <2>1. PICK i \in Items : log' = Append(log, [item |-> i, time |-> now])
    BY <1>6 DEF Change
  <2>2. now' = now /\ (wire' = wire \/ wire' = Append(wire, Len(log) + 1))
    BY <1>6 DEF Change
  <2> DEFINE k == Len(log) + 1
  <2>3. k \in DOMAIN log' /\ log'[k].time = now
    <3> DEFINE x == [item |-> i, time |-> now]
    <3>1. x.time = now
      OBVIOUS
    <3>2. PICK S : log \in Seq(S)
      BY <1>1 DEF World
    <3>3. log \in Seq(S \cup {x})
      BY <3>2, SeqWiden
    <3> HIDE DEF x
    <3>4. Len(log) + 1 \in DOMAIN Append(log, x) /\ Append(log, x)[Len(log) + 1] = x
      BY <3>3
    <3> QED
      BY <2>1, <3>1, <3>4 DEF x
  <2> HIDE DEF k
  <2>4. CASE wire' = Append(wire, k)
    <3>1. /\ Append(wire, k) \in Seq(DOMAIN log')
          /\ DOMAIN wire = 1..Len(wire) /\ DOMAIN Append(wire, k) = 1..(Len(wire) + 1)
          /\ Append(wire, k)[Len(wire) + 1] = k
          /\ \A n \in 1..Len(wire) : Append(wire, k)[n] = wire[n]
      BY <1>2, <2>3, SeqAdd
    <3>2. \A n \in 1..Len(wire) : now =< log'[wire[n]].time + MaxTravel
      BY <1>1, <1>2, <3>1 DEF Lines
    <3>3. now =< log'[k].time + MaxTravel
      BY <1>3, <2>3
    <3>4. \A n \in 1..(Len(wire) + 1) : n \in 1..Len(wire) \/ n = Len(wire) + 1
      BY <1>2
    <3>5. \A n \in DOMAIN wire' : now' =< log'[wire'[n]].time + MaxTravel
      BY <2>2, <2>4, <3>1, <3>2, <3>3, <3>4
    <3> QED
      BY <2>4, <3>1, <3>5 DEF Lines
  <2>5. CASE wire' = wire
    BY <1>4, <1>3, <2>2, <2>5 DEF From
  <2> QED
    BY <2>2, <2>4, <2>5 DEF k
<1>7. CASE Drop \/ CloseOld
  <2>1. PICK n \in 0..Len(wire) : wire' = SubSeq(wire, 1, n)
    BY <1>7 DEF Drop, CloseOld, Disconnect, LoseTheRest
  <2>2. now' = now
    BY <1>7 DEF Drop, CloseOld, backend
  <2> QED
    BY <1>3, <1>4, <2>1, <2>2, SeqCut
<1>8. CASE Arrive
  <2>1. PICK n \in DOMAIN wire : wire' = RemoveAt(wire, n)
    BY <1>8 DEF Arrive
  <2>2. now' = now
    BY <1>8 DEF Arrive, backend
  <2> QED
    BY <1>3, <1>4, <2>1, <2>2, SeqRemove
<1>9. CASE Cancel \/ Restart
  <2>1. wire' \in {wire, <<>>} /\ now' = now
    BY <1>9 DEF Cancel, Restart, backend
  <2>2. From(<<>>, wire) /\ From(wire, wire)
    BY <1>3, SeqEmpty DEF From
  <2> QED
    BY <1>4, <2>1, <2>2
<1>10. CASE ~(Tick \/ (\E i \in Items : Change(i)) \/ Drop \/ CloseOld \/ Arrive \/ Cancel \/ Restart)
  <2>1. UNCHANGED <<now, wire>>
    BY <1>10 DEF Next, vars, backend, link, Reconnect, Connected, SubscribeFails, Subscribed,
       Deliver, RunStore, RunHandler, BeginSync, RunQuery, SkipQuery, TimerFires, Evaluate,
       BaseAnswered, DeltaAnswered, BaseRejected, DeltaRejected, QueryFails, SyncNotice
  <2> QED
    BY <1>3, <1>4, <2>1 DEF From
<1> QED
  BY <1>5, <1>6, <1>7, <1>8, <1>9, <1>10

(* What the marks become.                                                  *)
LEMMA MarksMove ==
  ASSUME TypeInv, [Next]_vars
  PROVE  /\ unanswered' \in {unanswered, 0, Len(log)}
         /\ sentFrom' \in {sentFrom, 0, Len(log)}
         /\ heardFrom' \in {heardFrom, 0, Len(log)}
<1>1. CASE RunHandler
  <2>1. Head(handlerQueue).kind \in {"message", "show", "base", "rejected"}
    <3>1. handlerQueue \in Seq(HandlerBlock) /\ handlerQueue # <<>>
      BY <1>1 DEF RunHandler, TypeInv, App, Queued
    <3>2. Head(handlerQueue) \in HandlerBlock
      BY <3>1
    <3> QED
      BY <3>2, HandlerBlockIs
  <2> QED
    BY <1>1, <2>1 DEF RunHandler
<1>2. CASE ~RunHandler
  BY <1>2 DEF Next, vars, history, Tick, Drop, Reconnect, CloseOld, Connected, SubscribeFails,
     Subscribed, Arrive, Deliver, RunStore, BeginSync, RunQuery, SkipQuery, TimerFires, Evaluate,
     BaseAnswered, DeltaAnswered, BaseRejected, DeltaRejected, QueryFails, SyncNotice, Cancel,
     Restart, Change
<1> QED
  BY <1>1, <1>2

LEMMA MarksStep ==
  ASSUME TypeInv, [Next]_vars
  PROVE  Marks'
<1>1. World /\ World' /\ Grown /\ Marks
  BY WorldGrows DEF TypeInv
<1>2. /\ Len(log) \in Nat /\ DOMAIN log = 1..Len(log)
      /\ Len(log') \in Nat /\ DOMAIN log' = 1..Len(log')
  BY <1>1 DEF World
<1>3. Len(log) =< Len(log')
  BY <1>1, <1>2 DEF Grown
<1>4. {unanswered, sentFrom, heardFrom, 0, Len(log)} \subseteq 0..Len(log')
  BY <1>1, <1>2, <1>3 DEF Marks
<1> QED
  BY <1>4, MarksMove DEF Marks

-----------------------------------------------------------------------------
(* The app's own state.                                                    *)

(* What a step leaves alone.                                               *)
LEMMA Rest ==
  ASSUME TypeInv, World', Grown
  PROVE  /\ UNCHANGED <<watching, replacing, subscribing, listening, registered, cancelled, isDelivering>>
            => Switches'
         /\ UNCHANGED <<pc, ops, timer>> => Control'
         /\ UNCHANGED <<lastSyncTime, savedSyncTime, syncStart>> => Clocks'
         /\ UNCHANGED <<now, pc, query>> => Asking'
         /\ UNCHANGED <<messages, deliveries, storeQueue, handlerQueue>> => Queued'
         /\ UNCHANGED <<pc, handlerQueue>> => OneBase'
         /\ UNCHANGED <<storeQueue, deliveries>> => HeadWaits'
         /\ UNCHANGED messages => NotLive'
         /\ UNCHANGED <<store, shown, seen>> => Caches'
<1>1. App
  BY DEF TypeInv
<1>2. UNCHANGED <<watching, replacing, subscribing, listening, registered, cancelled, isDelivering>> => Switches'
  BY <1>1, Zenon DEF App, Switches
<1>3. UNCHANGED <<pc, ops, timer>> => Control'
  BY <1>1 DEF App, Control
<1>4. UNCHANGED <<lastSyncTime, savedSyncTime, syncStart>> => Clocks'
  BY LeftAlone DEF Clocks
<1>5. UNCHANGED <<now, pc, query>> => Asking'
  BY <1>1, LeftAlone DEF App, Asking
<1>6. UNCHANGED <<messages, deliveries, storeQueue, handlerQueue>> => Queued'
  BY LeftAlone DEF Queued
<1>7. UNCHANGED <<pc, handlerQueue>> => OneBase'
  BY <1>1 DEF App, OneBase, Bases
<1>8. UNCHANGED <<storeQueue, deliveries>> => HeadWaits'
  BY <1>1 DEF App, HeadWaits, Held
<1>9. UNCHANGED messages => NotLive'
  BY <1>1 DEF App, NotLive
<1>10. UNCHANGED <<store, shown, seen>> => Caches'
  BY LeftAlone DEF Caches
<1> QED
  BY <1>2, <1>3, <1>4, <1>5, <1>6, <1>7, <1>8, <1>9, <1>10

LEMMA TickKeepsApp ==
  ASSUME TypeInv, World', Grown, Tick
  PROVE  App'
<1>1. /\ UNCHANGED <<watching, replacing, subscribing, listening, registered, cancelled, isDelivering>>
      /\ UNCHANGED <<pc, ops, timer>> /\ UNCHANGED <<lastSyncTime, savedSyncTime, syncStart>>
      /\ UNCHANGED <<messages, deliveries, storeQueue, handlerQueue>>
      /\ UNCHANGED <<store, shown, seen>> /\ query' = query /\ now' = now + 1
  BY DEF Tick, link, sync, times, queue, queues, caches, history
<1>2. Asking'
  <2>1. CASE pc \in {"querying", "answered"}
    <3>1. query \in Question /\ query \in Question' /\ Asking
      BY <2>1, LeftAlone DEF TypeInv, App, Asking
    <3>2. pc = "querying" /\ query.answer # <<>> => now < query.evaluatedAt + MaxTravel
      BY DEF Tick
    <3>3. ~(pc = "answered" /\ Prompt)
      <4> SUFFICES ASSUME pc = "answered", Prompt PROVE FALSE
        OBVIOUS
      <4>1. handlerQueue = <<>>
        BY DEF Tick, Drained
      <4>2. Bases(handlerQueue) # {}
        BY DEF TypeInv, App, OneBase
      <4> QED
        BY <4>1, <4>2 DEF Bases
    <3>4. now \in Nat /\ MaxTravel \in Nat /\ query.evaluatedAt \in Nat
      BY <3>1, NumbersAssumption DEF Question, TypeInv, World
    <3>5. query.answer # <<>> /\ (pc = "querying" \/ Prompt) => now' =< query.evaluatedAt + MaxTravel
      BY <1>1, <3>2, <3>3, <3>4, <2>1
    <3> QED
      BY <1>1, <2>1, <3>1, <3>5 DEF Asking
  <2>2. CASE pc \notin {"querying", "answered"}
    BY <1>1, <2>2 DEF TypeInv, App, Asking
  <2> QED
    BY <2>1, <2>2
<1> QED
  BY <1>1, <1>2, Rest DEF App

LEMMA WorldKeepsApp ==
  ASSUME TypeInv, World', Grown,
         Drop \/ Reconnect \/ CloseOld \/ Subscribed \/ (\E i \in Items : Change(i))
         \/ UNCHANGED vars
  PROVE  App'
<1>1. /\ UNCHANGED <<watching, replacing, registered, cancelled, isDelivering>>
      /\ listening' \in {listening, TRUE, FALSE} /\ subscribing' \in {subscribing, TRUE, FALSE}
      /\ UNCHANGED <<pc, ops, timer>> /\ UNCHANGED <<lastSyncTime, savedSyncTime, syncStart>>
      /\ UNCHANGED <<messages, deliveries, storeQueue, handlerQueue>>
      /\ UNCHANGED <<store, shown, seen>> /\ UNCHANGED <<now, pc, query>>
  BY DEF Drop, Reconnect, CloseOld, Disconnect, Subscribed, Change, vars, backend, link, sync,
     times, queue, queues, caches, history
<1>2. Switches'
  BY <1>1 DEF TypeInv, App, Switches
<1> QED
  BY <1>1, <1>2, Rest DEF App

LEMMA NoticesKeepApp ==
  ASSUME TypeInv, World', Grown, TimerFires \/ SyncNotice \/ SubscribeFails
  PROVE  App'
<1>1. /\ UNCHANGED <<watching, replacing, subscribing, listening, registered, cancelled, isDelivering>>
      /\ UNCHANGED <<lastSyncTime, savedSyncTime, syncStart>>
      /\ UNCHANGED <<messages, deliveries, storeQueue, handlerQueue>>
      /\ UNCHANGED <<store, shown, seen>> /\ UNCHANGED <<now, query>>
      /\ (pc' = pc \/ (pc = "subscribing" /\ pc' = "idle"))
      /\ (timer' = timer \/ timer' = None)
      /\ (ops' = ops \/ ops' = Append(ops, "sync"))
  BY DEF TimerFires, SyncNotice, SubscribeFails, backend, link, sync, times, queue, queues, caches, history
<1>2. Control'
  BY <1>1 DEF TypeInv, App, Control
<1>3. Asking'
  BY <1>1, Rest DEF TypeInv, App, Asking
<1>4. OneBase'
  BY <1>1 DEF TypeInv, App, OneBase, Bases
<1> QED
  BY <1>1, <1>2, <1>3, <1>4, Rest DEF App

LEMMA BeginKeepsApp ==
  ASSUME TypeInv, World', Grown, BeginSync
  PROVE  App'
<1>1. /\ UNCHANGED <<subscribing, listening, cancelled>> /\ isDelivering' = FALSE
      /\ registered' \in {registered, TRUE} /\ watching' \in {watching, TRUE}
      /\ replacing' \in {replacing, watching \/ replacing}
      /\ lastSyncTime' \in {lastSyncTime, savedSyncTime} /\ savedSyncTime' = savedSyncTime
      /\ syncStart' = now /\ now' = now /\ log' = log
      /\ UNCHANGED <<messages, deliveries, storeQueue, handlerQueue>>
      /\ store' = store /\ query' = query /\ timer' = timer
      /\ pc = "idle" /\ pc' \in {"subscribing", "choosing"} /\ ops # <<>> /\ ops' = Tail(ops)
  BY DEF BeginSync, stopDelivery, backend, queues
<1>2. Display(store) \/ UNCHANGED <<shown, seen>>
  BY DEF BeginSync
<1>3. Switches'
  BY <1>1 DEF TypeInv, App, Switches
<1>4. Control'
  <2>1. Tail(ops) \in Seq({"initial", "sync"})
    BY <1>1 DEF TypeInv, App, Control
  <2> QED
    BY <1>1, <2>1 DEF TypeInv, App, Control
<1>5. Clocks'
  BY <1>1, LeftAlone DEF Clocks, World
<1>6. Asking'
  BY <1>1 DEF TypeInv, App, Asking
<1>7. OneBase'
  BY <1>1 DEF TypeInv, App, OneBase, Bases
<1>8. Caches'
  <2>1. {store, shown, seen} \subseteq Whole
    BY DEF TypeInv, App, Caches
  <2>2. Display(store) => shown' \in Whole /\ seen' \in Whole
    BY <2>1, Displayed, WholeIsReal
  <2>3. {store', shown', seen'} \subseteq Whole
    BY <1>1, <1>2, <2>1, <2>2
  <2> QED
    BY <2>3, TypesGrow DEF Caches, TypeInv
<1> QED
  BY <1>1, <1>3, <1>4, <1>5, <1>6, <1>7, <1>8, Rest DEF App

LEMMA MutedIsTyped ==
  ASSUME TypeInv
  PROVE  Muted \in Seq(StoreBlock) /\ Held(Muted) = Held(storeQueue)
<1>1. storeQueue \in Seq(StoreBlock)
  BY DEF TypeInv, App, Queued
<1>2. Len(storeQueue) \in Nat /\ DOMAIN storeQueue = 1..Len(storeQueue)
      /\ \A n \in 1..Len(storeQueue) : storeQueue[n] \in StoreBlock
  BY <1>1, SeqAt
<1>3. [kind |-> "unheard"] \in StoreBlock
  BY NewBlocks
<1>4. Muted \in [1..Len(storeQueue) -> StoreBlock]
  BY <1>2, <1>3 DEF Muted
<1>5. Muted \in Seq(StoreBlock)
  BY <1>2, <1>4
<1>6. Kinds(storeQueue, StoreKinds)
  BY <1>2, StoreBlockIs DEF Kinds, StoreKinds
<1> QED
  BY <1>1, <1>5, <1>6, MutedSame DEF IsSeq

LEMMA MutingKeepsApp ==
  ASSUME TypeInv, World', Grown, Connected \/ Cancel
  PROVE  App'
<1>1. /\ UNCHANGED <<now, log, isDelivering, ops, query, handlerQueue, messages, deliveries>>
      /\ UNCHANGED <<lastSyncTime, savedSyncTime, syncStart>> /\ UNCHANGED <<store, shown, seen>>
      /\ watching' \in {watching, FALSE} /\ replacing' \in {replacing, FALSE}
      /\ listening' \in {listening, FALSE} /\ subscribing' \in {subscribing, TRUE, FALSE}
      /\ registered' \in {registered, FALSE}
      /\ cancelled' \in {cancelled, TRUE} /\ timer' \in {timer, None}
      /\ storeQueue' \in {storeQueue, Muted}
      /\ (pc' = pc \/ (pc = "subscribing" /\ pc' = "choosing"))
  BY DEF Connected, Cancel, backend, link, times, queue, caches, history
<1>2. Switches'
  BY <1>1 DEF TypeInv, App, Switches
<1>3. Control'
  BY <1>1 DEF TypeInv, App, Control
<1>4. Asking'
  BY <1>1, Rest DEF TypeInv, App, Asking
<1>5. storeQueue' \in Seq(StoreBlock) /\ Held(storeQueue') = Held(storeQueue)
  BY <1>1, MutedIsTyped DEF TypeInv, App, Queued
<1>6. Queued'
  <2>1. storeQueue' \in Seq(StoreBlock')
    BY <1>5, SeqWiden, TypesGrow DEF TypeInv
  <2> QED
    BY <1>1, <2>1, LeftAlone DEF Queued
<1>7. OneBase'
  BY <1>1 DEF TypeInv, App, OneBase, Bases
<1>8. HeadWaits'
  BY <1>1, <1>5 DEF TypeInv, App, HeadWaits
<1> QED
  BY <1>1, <1>2, <1>3, <1>4, <1>6, <1>7, <1>8, Rest DEF App

(* The log is left alone, and so are the types.                            *)
LEMMA SameTypes ==
  ASSUME UNCHANGED <<now, log>>
  PROVE  /\ HeldMessage' = HeldMessage /\ StoreBlock' = StoreBlock /\ HandlerBlock' = HandlerBlock
         /\ Question' = Question /\ SoFar' = SoFar /\ Whole' = Whole
BY DEF HeldMessage, StoreBlock, HandlerBlock, MessageBlock, Question, Answers, SoFar, Whole,
       Real, Past, ChangesOf

(* The defer of performSync.                                               *)
LEMMA FinishIsTyped ==
  ASSUME TypeInv, NEW successful, FinishSync(successful), UNCHANGED <<now, log>>
  PROVE  /\ pc' = "idle" /\ query' = None /\ isDelivering' = TRUE
         /\ UNCHANGED <<ops, syncStart, registered, cancelled>>
         /\ messages' \in Seq(HeldMessage) /\ deliveries' \in Seq(HeldMessage)
         /\ Control' /\ Asking' /\ NotLive'
         /\ deliveries # <<>> => deliveries' # <<>> /\ Head(deliveries') = Head(deliveries)
         /\ \A n \in DOMAIN deliveries' : deliveries'[n].live
               => \E m \in DOMAIN deliveries : deliveries'[n] = deliveries[m]
<1>1. /\ pc' = "idle" /\ query' = None /\ isDelivering' = TRUE
      /\ UNCHANGED <<ops, syncStart, registered, cancelled>>
      /\ deliveries' = deliveries \o messages /\ messages' = <<>>
      /\ timer' = IF successful THEN [kind |-> "base", due |-> syncStart + BaseInterval]
                  ELSE [kind |-> "retry", due |-> now]
  BY DEF FinishSync, startDelivery
<1>2. /\ messages \in Seq(HeldMessage) /\ deliveries \in Seq(HeldMessage) /\ NotLive
      /\ syncStart \in Nat /\ now \in Nat /\ BaseInterval \in Nat
  BY NumbersAssumption DEF TypeInv, App, Queued, World, Clocks
<1>3. syncStart + BaseInterval \in Nat
  BY <1>2
<1>4. timer' \in [kind : {"base", "retry"}, due : Nat]
  BY <1>1, <1>2, <1>3
<1>5. Control'
  BY <1>1, <1>4 DEF TypeInv, App, Control
<1>6. Asking'
  BY <1>1 DEF Asking
<1>7. messages' \in Seq(HeldMessage)
  BY <1>1
<1>8. NotLive'
  <2>1. DOMAIN <<>> = {}
    OBVIOUS
  <2> QED
    BY <1>1, <2>1 DEF NotLive
<1>9. /\ deliveries' \in Seq(HeldMessage)
      /\ Len(deliveries) \in Nat /\ Len(messages) \in Nat
      /\ DOMAIN deliveries = 1..Len(deliveries) /\ DOMAIN messages = 1..Len(messages)
      /\ DOMAIN deliveries' = 1..(Len(deliveries) + Len(messages))
      /\ \A n \in 1..(Len(deliveries) + Len(messages)) :
           deliveries'[n] = IF n =< Len(deliveries) THEN deliveries[n] ELSE messages[n - Len(deliveries)]
  <2> DEFINE S == HeldMessage
  <2>1. messages \in Seq(S) /\ deliveries \in Seq(S)
    BY <1>2
  <2> HIDE DEF S
  <2>2. /\ deliveries \o messages \in Seq(S)
        /\ Len(deliveries) \in Nat /\ Len(messages) \in Nat
        /\ DOMAIN deliveries = 1..Len(deliveries) /\ DOMAIN messages = 1..Len(messages)
        /\ DOMAIN (deliveries \o messages) = 1..(Len(deliveries) + Len(messages))
        /\ \A n \in 1..(Len(deliveries) + Len(messages)) :
             (deliveries \o messages)[n]
                = IF n =< Len(deliveries) THEN deliveries[n] ELSE messages[n - Len(deliveries)]
    BY <2>1
  <2> QED
    BY <1>1, <2>2 DEF S
<1>10. ASSUME deliveries # <<>> PROVE deliveries' # <<>> /\ Head(deliveries') = Head(deliveries)
  <2>1. Len(deliveries) > 0
    BY <1>2, <1>10, EmptySeq
  <2>2. 1 \in DOMAIN deliveries' /\ deliveries'[1] = deliveries[1]
    BY <1>9, <2>1
  <2> QED
    BY <1>2, <1>9, <2>1, <2>2
<1>11. ASSUME NEW n \in DOMAIN deliveries', deliveries'[n].live
       PROVE  \E m \in DOMAIN deliveries : deliveries'[n] = deliveries[m]
  <2>1. CASE n =< Len(deliveries)
    BY <1>9, <1>11, <2>1
  <2>2. CASE ~(n =< Len(deliveries))
    <3>1. n - Len(deliveries) \in DOMAIN messages /\ deliveries'[n] = messages[n - Len(deliveries)]
      BY <1>9, <2>2
    <3> QED
      BY <1>2, <1>11, <3>1 DEF NotLive
  <2> QED
    BY <2>1, <2>2
<1> QED
  BY <1>1, <1>5, <1>6, <1>7, <1>8, <1>9, <1>10, <1>11

(* Blocks are put at the end of a queue.                                   *)
LEMMA SeqJoin ==
  ASSUME NEW S, NEW q \in Seq(S), NEW r \in Seq(S)
  PROVE  /\ q \o r \in Seq(S)
         /\ Len(q) \in Nat /\ Len(r) \in Nat
         /\ DOMAIN q = 1..Len(q) /\ DOMAIN r = 1..Len(r)
         /\ DOMAIN (q \o r) = 1..(Len(q) + Len(r))
         /\ \A n \in 1..(Len(q) + Len(r)) :
              (q \o r)[n] = IF n =< Len(q) THEN q[n] ELSE r[n - Len(q)]
OBVIOUS

LEMMA BlocksJoin ==
  ASSUME NEW q \in Seq(StoreBlock), NEW r \in Seq(StoreBlock), Held(r) = {}
  PROVE  q \o r \in Seq(StoreBlock) /\ Held(q \o r) = Held(q)
<1>1. q \o r \in Seq(StoreBlock)
  BY SeqJoin
<1>2. IsSeq(q) /\ IsSeq(r)
  BY DEF IsSeq
<1> QED
  BY <1>1, <1>2, SeqConcat

LEMMA TwoBlocks ==
  ASSUME NEW b \in StoreBlock, NEW c \in StoreBlock, b.kind # "held", c.kind # "held"
  PROVE  <<b, c>> \in Seq(StoreBlock) /\ Held(<<b, c>>) = {}
<1>1. <<b, c>> \in Seq(StoreBlock)
  OBVIOUS
<1>2. DOMAIN <<b, c>> = {1, 2} /\ <<b, c>>[1] = b /\ <<b, c>>[2] = c
  OBVIOUS
<1> QED
  BY <1>1, <1>2 DEF Held

(* What the answer of a query is.                                          *)
LEMMA AnswerIs ==
  ASSUME TypeInv, pc \in {"querying", "answered"}, query.answer # <<>>
  PROVE  query.answer = <<query.answer[1]>> /\ query.answer[1] \in Real
<1>1. query.answer \in Answers
  BY DEF TypeInv, App, Asking, Question
<1>2. PICK v \in Real : query.answer = <<v>>
  BY <1>1 DEF Answers
<1> QED
  BY <1>2

LEMMA FinishingKeepsApp ==
  ASSUME TypeInv, World', Grown, SkipQuery \/ QueryFails \/ DeltaAnswered \/ DeltaRejected
  PROVE  App'
<1>1. /\ \E successful : FinishSync(successful)
      /\ UNCHANGED <<now, log, watching, replacing, subscribing, listening>> /\ UNCHANGED <<store, shown, seen>>
      /\ handlerQueue' = handlerQueue /\ pc \in {"choosing", "querying"}
      /\ (UNCHANGED times \/ setLastSyncTime(now))
  <2>1. CASE SkipQuery
    BY <2>1 DEF SkipQuery, backend, link, queues, caches, history
  <2>2. CASE QueryFails
    BY <2>2 DEF QueryFails, backend, link, queues, caches, history
  <2>3. CASE DeltaAnswered
    <3>1. FinishSync(TRUE) /\ pc = "querying" /\ setLastSyncTime(now)
      BY <2>3, Zenon DEF DeltaAnswered
    <3>2. UNCHANGED <<backend, link, handlerQueue, caches, history, bounds>>
      BY <2>3, Zenon DEF DeltaAnswered
    <3> QED
      BY <3>1, <3>2 DEF backend, link, caches, history
  <2>4. CASE DeltaRejected
    BY <2>4 DEF DeltaRejected, backend, link, caches
  <2> QED
    BY <2>1, <2>2, <2>3, <2>4
<1>2. /\ pc' = "idle" /\ isDelivering' = TRUE
      /\ UNCHANGED <<syncStart, registered, cancelled>>
      /\ messages' \in Seq(HeldMessage) /\ deliveries' \in Seq(HeldMessage)
      /\ Control' /\ Asking' /\ NotLive'
      /\ deliveries # <<>> => deliveries' # <<>> /\ Head(deliveries') = Head(deliveries)
  BY <1>1, FinishIsTyped
<1>3. storeQueue' \in Seq(StoreBlock) /\ Held(storeQueue') = Held(storeQueue)
  <2>1. storeQueue \in Seq(StoreBlock)
    BY DEF TypeInv, App, Queued
  <2>2. CASE DeltaAnswered
    <3> DEFINE v == query.answer[1]
    <3>1. v \in Real
      BY <2>2, AnswerIs DEF DeltaAnswered
    <3>2. Show(v) \in StoreBlock /\ Publish(v) \in StoreBlock
          /\ Show(v).kind # "held" /\ Publish(v).kind # "held"
      BY <3>1, NewBlocks, BlockKinds
    <3>3. storeQueue' = storeQueue \o <<Show(v), Publish(v)>>
      BY <2>2 DEF DeltaAnswered
    <3> DEFINE r == <<Show(v), Publish(v)>>
    <3>4. r \in Seq(StoreBlock) /\ Held(r) = {}
      BY <3>2, TwoBlocks
    <3> HIDE DEF r
    <3> QED
      BY <2>1, <3>3, <3>4, BlocksJoin DEF r
  <2>3. CASE SkipQuery \/ QueryFails
    BY <2>1, <2>3 DEF SkipQuery, QueryFails, queues
  <2>4. CASE DeltaRejected
    <3> DEFINE b == Show(Nothing)
    <3>1. b \in StoreBlock /\ b.kind # "held" /\ IsSeq(storeQueue)
      BY <2>1, NewBlocks, BlockKinds DEF IsSeq
    <3>2. storeQueue' = Append(storeQueue, b)
      BY <2>4 DEF DeltaRejected
    <3> HIDE DEF b
    <3>3. Append(storeQueue, b) \in Seq(StoreBlock)
      BY <2>1, <3>1, SeqAdd
    <3>4. Held(Append(storeQueue, b)) = Held(storeQueue) \cup {}
      BY <3>1, SeqAppend
    <3> QED
      BY <3>2, <3>3, <3>4
  <2> QED
    BY <1>1, <2>2, <2>3, <2>4
<1>4. Queued'
  BY <1>1, <1>2, <1>3, SameTypes DEF Queued, TypeInv, App
<1>5. OneBase'
  BY <1>1, <1>2 DEF TypeInv, App, OneBase, Bases
<1>6. HeadWaits'
  BY <1>2, <1>3 DEF TypeInv, App, HeadWaits
<1>7. Clocks'
  BY <1>1, <1>2, NumbersAssumption DEF TypeInv, App, Clocks, SoFar, World, times, setLastSyncTime
<1>8. Switches'
  BY <1>1, <1>2 DEF TypeInv, App, Switches
<1> QED
  BY <1>1, <1>2, <1>4, <1>5, <1>6, <1>7, <1>8, Rest DEF App

LEMMA AskingKeepsApp ==
  ASSUME TypeInv, World', Grown, RunQuery \/ Evaluate
  PROVE  App'
<1>1. /\ UNCHANGED <<now, log, watching, replacing, subscribing, listening, registered, cancelled, isDelivering>>
      /\ UNCHANGED <<lastSyncTime, savedSyncTime, syncStart>> /\ UNCHANGED <<ops, timer>>
      /\ UNCHANGED <<messages, deliveries, storeQueue, handlerQueue>>
      /\ UNCHANGED <<store, shown, seen>>
      /\ pc \in {"choosing", "querying"} /\ pc' = "querying"
  <2>1. CASE RunQuery
    <3>1. pc = "choosing" /\ pc' = "querying"
          /\ UNCHANGED <<backend, link, ops, timer, syncStart, registered, cancelled,
                         times, queue, queues, caches, history, bounds>>
      BY <2>1, Zenon DEF RunQuery
    <3> QED
      BY <3>1 DEF backend, link, times, queue, queues, caches, history
  <2>2. CASE Evaluate
    <3>1. pc = "querying"
          /\ UNCHANGED <<backend, link, pc, ops, timer, syncStart, registered, cancelled,
                         times, queue, queues, caches, history, bounds>>
      BY <2>2, Zenon DEF Evaluate
    <3> QED
      BY <3>1 DEF backend, link, times, queue, queues, caches, history
  <2> QED
    BY <2>1, <2>2
<1>2. Control'
  BY <1>1 DEF TypeInv, App, Control
<1>3. OneBase'
  BY <1>1 DEF TypeInv, App, OneBase, Bases
<1>4. now \in Nat /\ MaxTravel \in Nat /\ lastSyncTime \in SoFar
  BY NumbersAssumption DEF TypeInv, World, App, Clocks
<1>5. CASE RunQuery
  <2>1. /\ query' = [method |-> methodToUseForSync, since |-> lastSyncTime, sentAt |-> now,
                     answer |-> <<>>, evaluatedAt |-> now]
    BY <1>5 DEF RunQuery
  <2>2. methodToUseForSync \in {"base", "delta"}
        /\ (methodToUseForSync = "delta" => lastSyncTime # None)
    BY DEF methodToUseForSync
  <2>3. query' \in Question
    BY <1>4, <2>1, <2>2 DEF Question, Answers
  <2>4. Asking'
    BY <1>1, <1>4, <2>1, <2>2, <2>3, SameTypes DEF Asking
  <2> QED
    BY <1>1, <1>2, <1>3, <2>4, Rest DEF App
<1>6. CASE Evaluate
  <2> DEFINE asked == IF query.method = "base" THEN Items
                      ELSE {i \in Items : ChangedSince(i, query.since)}
             v == [i \in asked |-> Latest(i)]
  <2>1. query' = [query EXCEPT !.answer = <<v>>, !.evaluatedAt = now] /\ pc = "querying"
    BY <1>6 DEF Evaluate
  <2>2. v \in Real
    <3>1. asked \in SUBSET Items
      OBVIOUS
    <3> HIDE DEF asked
    <3> QED
      BY <3>1, TheLatest DEF TypeInv
  <2> HIDE DEF v
  <2>3. query \in Question /\ Asking
    BY <2>1 DEF TypeInv, App, Asking
  <2>4. <<v>> \in Answers /\ <<v>> # <<>>
    BY <2>2 DEF Answers
  <2>5. /\ query' \in Question
        /\ query'.method = query.method /\ query'.since = query.since
        /\ query'.sentAt = query.sentAt /\ query'.evaluatedAt = now /\ query.sentAt \in 0..now
    <3>1. /\ query.method \in {"base", "delta"} /\ query.since \in SoFar /\ query.sentAt \in 0..now
          /\ query = [method |-> query.method, since |-> query.since, sentAt |-> query.sentAt,
                      answer |-> query.answer, evaluatedAt |-> query.evaluatedAt]
      BY <2>3 DEF Question
    <3>2. query' = [method |-> query.method, since |-> query.since, sentAt |-> query.sentAt,
                    answer |-> <<v>>, evaluatedAt |-> now]
      BY <2>1, <3>1
    <3>3. query' \in Question
      BY <1>4, <2>4, <3>1, <3>2 DEF Question
    <3> QED
      BY <3>1, <3>2, <3>3
  <2>6. Asking'
    BY <1>1, <1>4, <2>1, <2>3, <2>5, SameTypes DEF Asking
  <2> QED
    BY <1>1, <1>2, <1>3, <2>6, Rest DEF App
<1> QED
  BY <1>5, <1>6

(* A base result waits for the handler.                                    *)
LEMMA EndWaits ==
  ASSUME TypeInv, NEW b \in HandlerBlock, b.kind \in Ends,
         handlerQueue' = Append(handlerQueue, b), pc = "querying", pc' = "answered"
  PROVE  handlerQueue' \in Seq(HandlerBlock) /\ OneBase'
<1>1. handlerQueue \in Seq(HandlerBlock)
  BY DEF TypeInv, App, Queued
<1>2. /\ handlerQueue' \in Seq(HandlerBlock)
      /\ DOMAIN handlerQueue = 1..Len(handlerQueue) /\ Len(handlerQueue) \in Nat
      /\ DOMAIN handlerQueue' = 1..(Len(handlerQueue) + 1)
      /\ handlerQueue'[Len(handlerQueue) + 1] = b
      /\ \A n \in 1..Len(handlerQueue) : handlerQueue'[n] = handlerQueue[n]
  BY <1>1, SeqAdd
<1>3. Bases(handlerQueue) = {}
  BY DEF TypeInv, App, OneBase
<1>4. Bases(handlerQueue') = {Len(handlerQueue) + 1}
  BY <1>2, <1>3 DEF Bases
<1>5. OneBase'
  BY <1>4 DEF OneBase, Bases
<1> QED
  BY <1>2, <1>5

LEMMA BaseRejectedKeepsApp ==
  ASSUME TypeInv, World', Grown, BaseRejected
  PROVE  App'
<1> DEFINE b == [kind |-> "rejected"]
<1>1. /\ UNCHANGED <<now, log, watching, replacing, subscribing, listening, registered, cancelled,
                     isDelivering>>
      /\ UNCHANGED <<lastSyncTime, savedSyncTime, syncStart>> /\ UNCHANGED <<ops, timer>>
      /\ UNCHANGED <<messages, deliveries, query, storeQueue>> /\ UNCHANGED <<store, shown, seen>>
      /\ handlerQueue' = Append(handlerQueue, b)
      /\ pc = "querying" /\ pc' = "answered" /\ query.method = "base" /\ query.answer # <<>>
  BY DEF BaseRejected, backend, link, times, queue, caches, history
<1>2. b \in HandlerBlock /\ b.kind \in Ends
  BY NewBlocks DEF Ends
<1> HIDE DEF b
<1>3. handlerQueue' \in Seq(HandlerBlock) /\ OneBase'
  BY <1>1, <1>2, EndWaits
<1>4. Asking'
  BY <1>1, SameTypes DEF TypeInv, App, Asking
<1>5. Control'
  BY <1>1 DEF TypeInv, App, Control
<1>6. Queued'
  BY <1>1, <1>3, SameTypes DEF TypeInv, App, Queued
<1> QED
  BY <1>1, <1>3, <1>4, <1>5, <1>6, Rest DEF App

LEMMA BaseAnsweredKeepsApp ==
  ASSUME TypeInv, World', Grown, BaseAnswered
  PROVE  App'
<1> DEFINE v == query.answer[1]
           b == [kind |-> "base", versions |-> v]
           p == Publish(v)
<1>1. /\ UNCHANGED <<now, log, watching, replacing, subscribing, listening, registered, cancelled, isDelivering>>
      /\ UNCHANGED <<lastSyncTime, savedSyncTime, syncStart>> /\ UNCHANGED <<ops, timer>>
      /\ UNCHANGED <<messages, deliveries, query>> /\ UNCHANGED <<store, shown, seen>>
      /\ handlerQueue' = Append(handlerQueue, b) /\ storeQueue' = Append(storeQueue, p)
      /\ pc = "querying" /\ pc' = "answered" /\ query.method = "base" /\ query.answer # <<>>
  <2>1. /\ handlerQueue' = Append(handlerQueue, b) /\ storeQueue' = Append(storeQueue, p)
        /\ pc = "querying" /\ pc' = "answered" /\ query.method = "base" /\ query.answer # <<>>
        /\ UNCHANGED <<backend, link, ops, query, timer, syncStart, registered, cancelled,
                       times, queue, caches, history, bounds>>
    BY Zenon DEF BaseAnswered
  <2> HIDE DEF b, p
  <2> QED
    BY <2>1 DEF backend, link, times, queue, caches, history
<1>2. v \in Real
  BY <1>1, AnswerIs
<1>3. b \in HandlerBlock /\ p \in StoreBlock /\ b.kind \in Ends /\ p.kind # "held"
  BY <1>2, NewBlocks, BlockKinds DEF Ends
<1> HIDE DEF b, p
<1>4. /\ storeQueue \in Seq(StoreBlock) /\ handlerQueue \in Seq(HandlerBlock)
      /\ messages \in Seq(HeldMessage) /\ deliveries \in Seq(HeldMessage)
  BY DEF TypeInv, App, Queued
<1>5. storeQueue' \in Seq(StoreBlock) /\ Held(storeQueue') = Held(storeQueue)
  <2>1. storeQueue' \in Seq(StoreBlock)
    BY <1>1, <1>3, <1>4, SeqAdd
  <2>2. IsSeq(storeQueue)
    BY <1>4 DEF IsSeq
  <2>3. Held(Append(storeQueue, p)) = Held(storeQueue) \cup {}
    BY <1>3, <2>2, SeqAppend
  <2> QED
    BY <1>1, <2>1, <2>3
<1>6. handlerQueue' \in Seq(HandlerBlock) /\ OneBase'
  BY <1>1, <1>3, EndWaits
<1>7. Asking'
  BY <1>1, SameTypes DEF TypeInv, App, Asking
<1>8. Control'
  BY <1>1 DEF TypeInv, App, Control
<1>9. Queued'
  BY <1>1, <1>4, <1>5, <1>6, SameTypes DEF Queued
<1>10. HeadWaits'
  BY <1>1, <1>5 DEF TypeInv, App, HeadWaits
<1> QED
  BY <1>1, <1>6, <1>7, <1>8, <1>9, <1>10, Rest DEF App

LEMMA ArriveKeepsApp ==
  ASSUME TypeInv, World', Grown, Arrive
  PROVE  App'
<1>1. /\ UNCHANGED <<now, log, watching, replacing, subscribing, listening, registered, cancelled, isDelivering>>
      /\ UNCHANGED <<lastSyncTime, savedSyncTime, syncStart>> /\ UNCHANGED <<pc, query, ops, timer>>
      /\ UNCHANGED <<messages, deliveries, handlerQueue>> /\ UNCHANGED <<store, shown, seen>>
  BY DEF Arrive, backend, sync, times, queue, caches, history
<1>2. PICK n \in DOMAIN wire, copies \in 1..2 :
        LET k == wire[n]
            once == <<Message(k), Publish(Version(k))>>
        IN  storeQueue' = storeQueue \o (IF copies = 1 THEN once ELSE once \o once)
  BY DEF Arrive
<1> DEFINE k == wire[n]
           once == <<Message(k), Publish(Version(k))>>
           r == IF copies = 1 THEN once ELSE once \o once
<1>3. storeQueue' = storeQueue \o r
  BY <1>2
<1>4. k \in DOMAIN log
  BY SeqAt DEF TypeInv, Lines
<1>5. once \in Seq(StoreBlock) /\ Held(once) = {}
  <2>1. Message(k) \in StoreBlock /\ Publish(Version(k)) \in StoreBlock
    BY <1>4, OneVersion, NewBlocks DEF TypeInv
  <2>2. Message(k).kind # "held" /\ Publish(Version(k)).kind # "held"
    BY BlockKinds
  <2> QED
    BY <2>1, <2>2, TwoBlocks
<1> HIDE DEF once
<1>6. r \in Seq(StoreBlock) /\ Held(r) = {}
  BY <1>5, BlocksJoin
<1> HIDE DEF r
<1>7. storeQueue' \in Seq(StoreBlock) /\ Held(storeQueue') = Held(storeQueue)
  BY <1>3, <1>6, BlocksJoin DEF TypeInv, App, Queued
<1>8. Queued'
  BY <1>1, <1>7, SameTypes DEF TypeInv, App, Queued
<1>9. HeadWaits'
  BY <1>1, <1>7 DEF TypeInv, App, HeadWaits
<1> QED
  BY <1>1, <1>8, <1>9, Rest DEF App

(* A block that is no base result is put at the end of the handlers' queue.*)
LEMMA HandlerGets ==
  ASSUME TypeInv, NEW b \in HandlerBlock, b.kind \notin Ends,
         handlerQueue' = Append(handlerQueue, b),
         pc' = pc
  PROVE  handlerQueue' \in Seq(HandlerBlock) /\ OneBase'
<1>1. handlerQueue \in Seq(HandlerBlock)
  BY DEF TypeInv, App, Queued
<1>2. /\ handlerQueue' \in Seq(HandlerBlock)
      /\ DOMAIN handlerQueue = 1..Len(handlerQueue) /\ Len(handlerQueue) \in Nat
      /\ DOMAIN handlerQueue' = 1..(Len(handlerQueue) + 1)
      /\ handlerQueue'[Len(handlerQueue) + 1] = b
      /\ \A n \in 1..Len(handlerQueue) : handlerQueue'[n] = handlerQueue[n]
  BY <1>1, SeqAdd
<1>3. Bases(handlerQueue') = Bases(handlerQueue)
  BY <1>2 DEF Bases
<1>4. OneBase'
  BY <1>3 DEF TypeInv, App, OneBase, Bases
<1> QED
  BY <1>2, <1>4

LEMMA FirstAndRest ==
  ASSUME NEW S, NEW q \in Seq(S), q # <<>>
  PROVE  /\ Head(q) \in S /\ Head(q) = q[1] /\ 1 \in DOMAIN q
         /\ Tail(q) \in Seq(S) /\ Len(q) \in Nat \ {0}
         /\ DOMAIN q = 1..Len(q) /\ DOMAIN Tail(q) = 1..(Len(q) - 1)
         /\ \A n \in 1..(Len(q) - 1) : Tail(q)[n] = q[n + 1]
OBVIOUS

LEMMA TailIsFrom ==
  ASSUME NEW S, NEW q \in Seq(S), q # <<>>
  PROVE  \A n \in DOMAIN Tail(q) : \E m \in DOMAIN q : Tail(q)[n] = q[m]
<1> TAKE n \in DOMAIN Tail(q)
<1>1. n + 1 \in DOMAIN q /\ Tail(q)[n] = q[n + 1]
  BY FirstAndRest
<1> QED
  BY <1>1

LEMMA DeliverKeepsApp ==
  ASSUME TypeInv, World', Grown, Deliver
  PROVE  App'
<1> DEFINE m == Head(deliveries)
           s == Show(Version(m.change))
           h == [kind |-> "held"]
<1>1. /\ UNCHANGED <<now, log, watching, replacing, subscribing, listening, registered, cancelled, isDelivering>>
      /\ UNCHANGED <<lastSyncTime, savedSyncTime, syncStart>> /\ UNCHANGED <<pc, query, ops, timer>>
      /\ messages' = messages /\ UNCHANGED <<store, shown, seen>>
      /\ deliveries # <<>> /\ Held(storeQueue) = {}
  BY DEF Deliver, backend, link, sync, times, caches, Held
<1>2. /\ storeQueue \in Seq(StoreBlock) /\ handlerQueue \in Seq(HandlerBlock)
      /\ messages \in Seq(HeldMessage) /\ deliveries \in Seq(HeldMessage)
  BY DEF TypeInv, App, Queued
<1>3. m \in HeldMessage /\ Tail(deliveries) \in Seq(HeldMessage)
  BY <1>1, <1>2, FirstAndRest
<1>4. CASE m.live
  <2>1. /\ handlerQueue' = Append(handlerQueue, s) /\ storeQueue' = storeQueue
        /\ deliveries' = Tail(deliveries)
    BY <1>4 DEF Deliver
  <2>2. s \in HandlerBlock /\ s.kind \notin Ends
    <3>1. m.change \in DOMAIN log
      BY <1>3 DEF HeldMessage
    <3>2. Version(m.change) \in Real
      BY <3>1, OneVersion DEF TypeInv
    <3> QED
      BY <3>2, NewBlocks, BlockKinds DEF Ends
  <2> HIDE DEF s
  <2>3. handlerQueue' \in Seq(HandlerBlock) /\ OneBase'
    BY <1>1, <2>1, <2>2, HandlerGets
  <2>4. Queued'
    BY <1>1, <1>2, <1>3, <2>1, <2>3, SameTypes DEF Queued
  <2>5. HeadWaits'
    BY <1>1, <2>1 DEF HeadWaits
  <2> QED
    BY <1>1, <2>3, <2>4, <2>5, Rest DEF App
<1>5. CASE ~m.live
  <2>1. storeQueue' = Append(storeQueue, h) /\ UNCHANGED <<handlerQueue, deliveries>>
    BY <1>5 DEF Deliver
  <2>2. h \in StoreBlock
    BY NewBlocks
  <2> HIDE DEF h
  <2>3. storeQueue' \in Seq(StoreBlock)
    BY <1>2, <2>1, <2>2, SeqAdd
  <2>4. Queued'
    BY <1>1, <1>2, <2>1, <2>3, SameTypes DEF Queued
  <2>5. HeadWaits'
    BY <1>1, <1>5, <2>1 DEF HeadWaits
  <2> QED
    BY <1>1, <2>1, <2>4, <2>5, Rest DEF App
<1> QED
  BY <1>4, <1>5

LEMMA RunStoreKeepsApp ==
  ASSUME TypeInv, IInv, World', Grown, RunStore
  PROVE  App'
<1> DEFINE b == Head(storeQueue)
           m == Head(deliveries)
           s == Show(Version(m.change))
<1>1. /\ UNCHANGED <<now, log, watching, replacing, subscribing, listening, registered, cancelled, isDelivering>>
      /\ syncStart' = syncStart /\ UNCHANGED <<pc, query, ops, timer>>
      /\ messages' = messages /\ UNCHANGED <<shown, seen>>
      /\ storeQueue # <<>> /\ storeQueue' = Tail(storeQueue)
  BY DEF RunStore, backend, link, sync
<1>2. /\ storeQueue \in Seq(StoreBlock) /\ handlerQueue \in Seq(HandlerBlock)
      /\ messages \in Seq(HeldMessage) /\ deliveries \in Seq(HeldMessage)
  BY DEF TypeInv, App, Queued
<1>3. b \in StoreBlock /\ storeQueue' \in Seq(StoreBlock)
  BY <1>1, <1>2, FirstAndRest
<1>4. /\ Held(storeQueue') = {n \in DOMAIN storeQueue' : n + 1 \in Held(storeQueue)}
      /\ b.kind = "held" => 1 \in Held(storeQueue)
  BY <1>1, <1>2, SeqTail DEF IsSeq
<1>5. {store, shown, seen} \subseteq Whole
  BY DEF TypeInv, App, Caches
<1>6. CASE b.kind # "held"
  <2>1. /\ UNCHANGED <<deliveries, lastSyncTime, savedSyncTime>>
        /\ \/ b.kind = "publish" /\ store' = Over(store, b.versions) /\ handlerQueue' = handlerQueue
           \/ b.kind \in {"message", "show"} /\ handlerQueue' = Append(handlerQueue, b) /\ store' = store
           \/ b.kind = "unheard" /\ UNCHANGED <<handlerQueue, store>>
    BY <1>3, <1>6, StoreBlockIs DEF RunStore, times
  <2> HIDE DEF b
  <2>2. store' \in Whole
    BY <1>3, <1>5, <2>1, StoreBlockIs, OverIsWhole
  <2>3. Caches'
    BY <1>1, <1>5, <2>2, SameTypes DEF Caches
  <2>4. handlerQueue' \in Seq(HandlerBlock) /\ OneBase'
    <3>1. CASE handlerQueue' = handlerQueue
      BY <1>1, <1>2, <3>1, Rest
    <3>2. CASE b.kind \in {"message", "show"} /\ handlerQueue' = Append(handlerQueue, b)
      <4>1. b \in HandlerBlock /\ b.kind \notin Ends
        BY <1>3, <3>2, StoreBlockIs DEF Ends
      <4> QED
        BY <1>1, <3>2, <4>1, HandlerGets
    <3> QED
      BY <2>1, <3>1, <3>2
  <2>5. Queued'
    BY <1>1, <1>2, <1>3, <2>1, <2>4, SameTypes DEF Queued
  <2>6. HeadWaits'
    BY <1>4, <2>1 DEF TypeInv, App, HeadWaits
  <2> QED
    BY <1>1, <2>1, <2>3, <2>4, <2>5, <2>6, Rest DEF App
<1>7. CASE b.kind = "held"
  <2>1. /\ handlerQueue' = Append(handlerQueue, s) /\ setLastSyncTime(m.date)
        /\ deliveries' = Tail(deliveries) /\ store' = store
    BY <1>7 DEF RunStore
  <2>2. deliveries # <<>> /\ ~m.live
    BY <1>4, <1>7 DEF TypeInv, App, HeadWaits
  <2>3. m \in HeldMessage /\ Tail(deliveries) \in Seq(HeldMessage)
    BY <1>2, <2>2, FirstAndRest
  <2>4. s \in HandlerBlock /\ s.kind \notin Ends
    <3>1. m.change \in DOMAIN log
      BY <2>3 DEF HeldMessage
    <3>2. Version(m.change) \in Real
      BY <3>1, OneVersion DEF TypeInv
    <3> QED
      BY <3>2, NewBlocks, BlockKinds DEF Ends
  <2>5. m.date \in 0..now /\ now \in Nat /\ Slack \in Nat
    <3> HIDE DEF m
    <3>1. m.date \in 0..now
      BY <2>3 DEF HeldMessage
    <3> QED
      BY <3>1, NumbersAssumption DEF TypeInv, World
  <2> HIDE DEF s, m
  <2>6. handlerQueue' \in Seq(HandlerBlock) /\ OneBase'
    BY <1>1, <2>1, <2>4, HandlerGets
  <2>7. Clocks'
    BY <1>1, <2>1, <2>5 DEF TypeInv, App, Clocks, SoFar, setLastSyncTime
  <2>8. Queued'
    BY <1>1, <1>2, <1>3, <2>1, <2>3, <2>6, SameTypes DEF Queued
  <2>9. Held(storeQueue') = {}
    <3> SUFFICES ASSUME NEW n \in Held(storeQueue') PROVE FALSE
      OBVIOUS
    <3>1. DOMAIN storeQueue' \subseteq Nat \ {0}
      BY <1>1, <1>2, FirstAndRest
    <3>2. n + 1 \in Held(storeQueue) /\ 1 \in Held(storeQueue) /\ n \in Nat \ {0}
      BY <1>4, <1>7, <3>1
    <3>3. n + 1 = 1
      BY <3>2 DEF IInv, OneHeld
    <3> QED
      BY <3>2, <3>3
  <2>10. HeadWaits'
    BY <2>9 DEF HeadWaits
  <2> QED
    BY <1>1, <2>1, <2>6, <2>7, <2>8, <2>10, Rest DEF App
<1> QED
  BY <1>6, <1>7

LEMMA RunHandlerKeepsApp ==
  ASSUME TypeInv, World', Grown, RunHandler
  PROVE  App'
<1> DEFINE b == Head(handlerQueue)
<1>1. /\ UNCHANGED <<now, log, watching, replacing, subscribing, listening>> /\ store' = store
      /\ storeQueue' = storeQueue /\ handlerQueue # <<>> /\ handlerQueue' = Tail(handlerQueue)
  BY DEF RunHandler, backend, link
<1>2. /\ storeQueue \in Seq(StoreBlock) /\ handlerQueue \in Seq(HandlerBlock)
      /\ messages \in Seq(HeldMessage) /\ deliveries \in Seq(HeldMessage)
  BY DEF TypeInv, App, Queued
<1>3. /\ b \in HandlerBlock /\ b = handlerQueue[1] /\ handlerQueue' \in Seq(HandlerBlock)
      /\ Len(handlerQueue) \in Nat \ {0} /\ DOMAIN handlerQueue = 1..Len(handlerQueue)
      /\ DOMAIN handlerQueue' = 1..(Len(handlerQueue) - 1)
      /\ \A n \in 1..(Len(handlerQueue) - 1) : handlerQueue'[n] = handlerQueue[n + 1]
  BY <1>1, <1>2, FirstAndRest
<1>4. {store, shown, seen} \subseteq Whole
  BY DEF TypeInv, App, Caches
<1> HIDE DEF b
<1>5. Bases(handlerQueue') = {n \in DOMAIN handlerQueue' : n + 1 \in Bases(handlerQueue)}
  BY <1>3 DEF Bases
<1>6. ASSUME b.kind \notin Ends, pc' = pc PROVE OneBase'
  <2>1. ASSUME NEW n \in Bases(handlerQueue) PROVE n - 1 \in Bases(handlerQueue')
    <3>1. n \in 1..Len(handlerQueue) /\ n # 1
      BY <1>3, <1>6 DEF Bases
    <3>2. n - 1 \in 1..(Len(handlerQueue) - 1) /\ (n - 1) + 1 = n
      BY <1>3, <3>1
    <3> QED
      BY <1>3, <1>5, <3>2
  <2>2. \A n, m \in Bases(handlerQueue') : n = m
    <3> SUFFICES ASSUME NEW n \in Bases(handlerQueue'), NEW m \in Bases(handlerQueue') PROVE n = m
      OBVIOUS
    <3>1. n \in Nat /\ m \in Nat /\ n + 1 \in Bases(handlerQueue) /\ m + 1 \in Bases(handlerQueue)
      BY <1>3, <1>5
    <3>2. n + 1 = m + 1
      BY <3>1 DEF TypeInv, App, OneBase
    <3> QED
      BY <3>1, <3>2
  <2>3. Bases(handlerQueue') # {} <=> Bases(handlerQueue) # {}
    BY <1>5, <2>1
  <2> QED
    BY <1>6, <2>2, <2>3 DEF TypeInv, App, OneBase, Bases
<1>7. CASE b.kind = "message"
  <2>1. /\ appendMessage(b.change) /\ UNCHANGED <<isDelivering, registered, cancelled>>
        /\ UNCHANGED <<lastSyncTime, savedSyncTime, syncStart>> /\ UNCHANGED <<pc, query, ops, timer>>
        /\ UNCHANGED <<shown, seen>>
    BY <1>7 DEF RunHandler, sync, times, appendMessage, b
  <2>2. \A l \in BOOLEAN : Delivery(b.change, l) \in HeldMessage
    <3>1. b.change \in DOMAIN log /\ now \in 0..now
      BY <1>3, <1>7, HandlerBlockIs DEF TypeInv, World
    <3> QED
      BY <3>1 DEF Delivery, HeldMessage
  <2>3. Delivery(b.change, FALSE).live = FALSE
    BY DEF Delivery
  <2>4. CASE isDelivering /\ messages = <<>>
    <3> DEFINE d == Delivery(b.change, TRUE)
    <3>1. deliveries' = Append(deliveries, d) /\ messages' = messages
      BY <2>1, <2>4 DEF appendMessage
    <3>2. d \in HeldMessage
      BY <2>2
    <3> HIDE DEF d
    <3>3. /\ deliveries' \in Seq(HeldMessage)
          /\ deliveries # <<>> => deliveries' # <<>> /\ Head(deliveries') = Head(deliveries)
      BY <1>2, <3>1, <3>2
    <3>4. HeadWaits'
      BY <1>1, <3>3 DEF TypeInv, App, HeadWaits
    <3>5. Queued'
      BY <1>1, <1>2, <1>3, <3>1, <3>3, SameTypes DEF Queued
    <3> QED
      BY <1>1, <1>6, <1>7, <2>1, <3>1, <3>4, <3>5, Rest DEF App, Ends
  <2>5. CASE ~(isDelivering /\ messages = <<>>)
    <3> DEFINE d == Delivery(b.change, FALSE)
    <3>1. messages' = Append(messages, d) /\ deliveries' = deliveries
      BY <2>1, <2>5 DEF appendMessage
    <3>2. d \in HeldMessage /\ ~d.live
      BY <2>2, <2>3
    <3> HIDE DEF d
    <3>3. /\ messages' \in Seq(HeldMessage)
          /\ DOMAIN messages = 1..Len(messages) /\ Len(messages) \in Nat
          /\ DOMAIN messages' = 1..(Len(messages) + 1) /\ messages'[Len(messages) + 1] = d
          /\ \A n \in 1..Len(messages) : messages'[n] = messages[n]
      BY <1>2, <3>1, <3>2, SeqAdd
    <3>4. NotLive'
      <4>1. \A n \in 1..Len(messages) : ~messages[n].live
        BY <3>3 DEF TypeInv, App, NotLive
      <4>2. \A n \in 1..(Len(messages) + 1) : n \in 1..Len(messages) \/ n = Len(messages) + 1
        BY <3>3
      <4>3. \A n \in 1..(Len(messages) + 1) : ~messages'[n].live
        BY <3>2, <3>3, <4>1, <4>2
      <4> QED
        BY <3>3, <4>3 DEF NotLive
    <3>5. Queued'
      BY <1>1, <1>2, <1>3, <3>1, <3>3, SameTypes DEF Queued
    <3> QED
      BY <1>1, <1>6, <1>7, <2>1, <3>1, <3>4, <3>5, Rest DEF App, Ends
  <2> QED
    BY <2>4, <2>5
<1>8. CASE b.kind = "show"
  <2>1. /\ Display(b.versions) /\ UNCHANGED <<isDelivering, registered, cancelled>>
        /\ UNCHANGED <<lastSyncTime, savedSyncTime, syncStart>> /\ UNCHANGED <<pc, query, ops, timer>>
        /\ UNCHANGED <<messages, deliveries>>
    BY <1>8 DEF RunHandler, sync, times, queue, b
  <2>2. shown' \in Whole /\ seen' \in Whole
    BY <1>3, <1>4, <1>8, <2>1, HandlerBlockIs, Displayed
  <2>3. Caches'
    BY <1>1, <1>4, <2>2, SameTypes DEF Caches
  <2>4. Queued'
    BY <1>1, <1>2, <1>3, <2>1, SameTypes DEF Queued
  <2> QED
    BY <1>1, <1>6, <1>8, <2>1, <2>3, <2>4, Rest DEF App, Ends
<1>9. CASE b.kind \in Ends
  <2>1. /\ FinishSync(TRUE) /\ setLastSyncTime(query.sentAt)
        /\ (b.kind = "base" /\ Display(b.versions)) \/ UNCHANGED <<shown, seen>>
    BY <1>9 DEF RunHandler, b, Ends
  <2>2. /\ pc' = "idle" /\ isDelivering' = TRUE
        /\ UNCHANGED <<syncStart, registered, cancelled>>
        /\ messages' \in Seq(HeldMessage) /\ deliveries' \in Seq(HeldMessage)
        /\ Control' /\ Asking' /\ NotLive'
        /\ deliveries # <<>> => deliveries' # <<>> /\ Head(deliveries') = Head(deliveries)
    BY <1>1, <2>1, FinishIsTyped
  <2>3. shown' \in Whole /\ seen' \in Whole
    BY <1>3, <1>4, <1>9, <2>1, HandlerBlockIs, Displayed
  <2>4. Caches'
    BY <1>1, <1>4, <2>3, SameTypes DEF Caches
  <2>5. Queued'
    BY <1>1, <1>2, <1>3, <2>2, SameTypes DEF Queued
  <2>6. 1 \in Bases(handlerQueue)
    BY <1>3, <1>9 DEF Bases
  <2>7. pc = "answered"
    BY <2>6 DEF TypeInv, App, OneBase
  <2>8. query.sentAt \in 0..now /\ now \in Nat /\ Slack \in Nat
    BY <2>7, NumbersAssumption DEF TypeInv, World, App, Asking, Question
  <2>9. Clocks'
    BY <1>1, <2>1, <2>2, <2>8 DEF TypeInv, App, Clocks, SoFar, setLastSyncTime
  <2>10. OneBase'
    <3>1. Bases(handlerQueue') = {}
      <4> SUFFICES ASSUME NEW n \in Bases(handlerQueue') PROVE FALSE
        OBVIOUS
      <4>1. n \in Nat \ {0} /\ n + 1 \in Bases(handlerQueue)
        BY <1>3, <1>5
      <4>2. n + 1 = 1
        BY <2>6, <4>1 DEF TypeInv, App, OneBase
      <4> QED
        BY <4>1, <4>2
    <3> QED
      BY <2>2, <3>1 DEF OneBase, Bases
  <2>11. HeadWaits'
    BY <1>1, <2>2 DEF TypeInv, App, HeadWaits
  <2>12. Switches'
    BY <1>1, <2>2 DEF TypeInv, App, Switches
  <2> QED
    BY <2>2, <2>4, <2>5, <2>9, <2>10, <2>11, <2>12 DEF App
<1> QED
  BY <1>3, <1>7, <1>8, <1>9, HandlerBlockIs DEF Ends

(* An app just launched.                                                   *)
LEMMA NoneSeen == [i \in Items |-> 0] \in Whole
BY NumbersAssumption DEF Whole, Versions, Past

LEMMA RestartKeepsApp ==
  ASSUME TypeInv, World', Grown, Restart
  PROVE  App'
<1>1. /\ UNCHANGED <<now, log, syncStart, savedSyncTime, store>>
      /\ watching' = FALSE /\ replacing' = FALSE
      /\ subscribing' = FALSE /\ listening' = FALSE
      /\ pc' = "idle" /\ ops' = <<"initial">> /\ query' = None /\ timer' = None
      /\ registered' = FALSE /\ cancelled' = FALSE /\ lastSyncTime' = None
      /\ isDelivering' = FALSE /\ messages' = <<>> /\ deliveries' = <<>>
      /\ storeQueue' = <<>> /\ handlerQueue' = <<>>
      /\ shown' = [i \in Items |-> 0] /\ seen' = [i \in Items |-> 0]
  BY DEF Restart, backend
<1>2. Switches' /\ Control' /\ Asking'
  <2>1. <<"initial">> \in Seq({"initial", "sync"})
    OBVIOUS
  <2>2. Switches'
    BY <1>1 DEF Switches
  <2>3. Control'
    BY <1>1, <2>1 DEF Control
  <2>4. Asking'
    BY <1>1 DEF Asking
  <2> QED
    BY <2>2, <2>3, <2>4
<1>3. Clocks'
  BY <1>1 DEF TypeInv, App, Clocks, SoFar
<1>4. Queued'
  BY <1>1 DEF Queued
<1>5. DOMAIN <<>> = {}
  OBVIOUS
<1>6. OneBase' /\ HeadWaits' /\ NotLive'
  BY <1>1, <1>5 DEF OneBase, Bases, HeadWaits, Held, NotLive
<1>7. Caches'
  BY <1>1, NoneSeen, SameTypes DEF TypeInv, App, Caches
<1> QED
  BY <1>2, <1>3, <1>4, <1>6, <1>7 DEF App

LEMMA InitTypeInv ==
  ASSUME Init
  PROVE  TypeInv
<1>1. DOMAIN <<>> = {} /\ Len(<<>>) = 0
  OBVIOUS
<1>2. World
  BY <1>1, NumbersAssumption DEF Init, World
<1>3. Lines
  BY <1>1 DEF Init, Lines
<1>4. Switches /\ Control /\ Asking
  <2>1. <<"initial">> \in Seq({"initial", "sync"})
    OBVIOUS
  <2>2. Switches
    BY DEF Init, Switches
  <2>3. Control
    BY <2>1 DEF Init, Control
  <2>4. Asking
    BY DEF Init, Asking
  <2> QED
    BY <2>2, <2>3, <2>4
<1>5. Clocks
  BY <1>2 DEF Init, Clocks, SoFar, World
<1>6. Queued
  BY DEF Init, Queued
<1>7. OneBase /\ HeadWaits /\ NotLive
  BY <1>1 DEF Init, OneBase, Bases, HeadWaits, Held, NotLive
<1>8. Caches
  BY NoneSeen DEF Init, Caches
<1>9. Marks
  BY <1>1 DEF Init, Marks
<1> QED
  BY <1>2, <1>3, <1>4, <1>5, <1>6, <1>7, <1>8, <1>9 DEF TypeInv, App

(* In every reachable state the versions on their way are versions there   *)
(* have been, and times and ages are what the code takes them for.         *)
THEOREM TypeInvariant == Spec => []TypeInv
<1>1. Init => TypeInv
  BY InitTypeInv
<1>2. IInv /\ TypeInv /\ [Next]_vars => TypeInv'
  <2> SUFFICES ASSUME IInv, TypeInv, [Next]_vars PROVE TypeInv'
    OBVIOUS
  <2>1. World' /\ Grown /\ Lines' /\ Marks'
    BY WorldGrows, LinesStep, MarksStep DEF TypeInv
  <2>2. App'
    BY <2>1, TickKeepsApp, WorldKeepsApp, NoticesKeepApp, BeginKeepsApp, MutingKeepsApp,
       FinishingKeepsApp, AskingKeepsApp, BaseAnsweredKeepsApp, BaseRejectedKeepsApp,
       ArriveKeepsApp, DeliverKeepsApp, RunStoreKeepsApp, RunHandlerKeepsApp, RestartKeepsApp DEF Next
  <2> QED
    BY <2>1, <2>2 DEF TypeInv
<1> QED
  BY <1>1, <1>2, Invariant, PTL DEF Spec

(* Every variable has its type: a query is there from its sending until    *)
(* its result has been handled, a base result waits for the handler just   *)
(* while its sync is "answered", and the delivery a "held" block waits for *)
(* is a message that was held back, never a live one.                      *)
THEOREM WellTyped == Spec => []TypeOK
<1>1. TypeInv => TypeOK
  <2> SUFFICES ASSUME TypeInv PROVE TypeOK
    OBVIOUS
  <2>1. World /\ Lines /\ Marks /\ App
    BY DEF TypeInv
  <2>2. /\ now \in 0..MaxTime /\ MaxTime \in Nat /\ MaxChanges \in Nat /\ Slack \in Nat
        /\ 0..now \subseteq 0..MaxTime /\ (-Slack)..(now - Slack) \subseteq (-Slack)..MaxTime
    BY <2>1, NumbersAssumption DEF World
  <2>3. log \in Seq([item : Items, time : 0..MaxTime]) /\ Len(log) =< MaxChanges
    <3> DEFINE S == [item : Items, time : 0..now]
               T == [item : Items, time : 0..MaxTime]
    <3>1. log \in Seq(S) /\ S \subseteq T /\ Len(log) =< MaxChanges
      BY <2>1, <2>2 DEF World
    <3> HIDE DEF S, T
    <3>2. log \in Seq(T)
      BY <3>1, SeqWiden
    <3> QED
      BY <3>1, <3>2 DEF T
  <2>4. ToSet(wire) \subseteq DOMAIN log
    BY <2>1, SeqAt DEF Lines, ToSet
  <2>5. DOMAIN log \subseteq 1..MaxChanges
    <3>1. DOMAIN log = 1..Len(log) /\ Len(log) \in Nat
      BY <2>3
    <3> QED
      BY <2>2, <2>3, <3>1
  <2>6. Real \subseteq Partial /\ SoFar \subseteq Times
    BY <2>2, Zenon DEF Real, SoFar, Times
  <2>7. HeldMessage \subseteq MessageType /\ MessageBlock \subseteq [kind : {"message"}, change : 1..MaxChanges]
    BY <2>2, <2>5 DEF HeldMessage, MessageType, MessageBlock
  <2>8. /\ [kind : {"show", "publish"}, versions : Real] \subseteq [kind : {"show", "publish", "base"}, versions : Partial]
        /\ [kind : {"show", "base"}, versions : Real] \subseteq [kind : {"show", "publish", "base"}, versions : Partial]
    BY <2>6
  <2>9. StoreBlock \subseteq BlockType /\ HandlerBlock \subseteq BlockType
    BY <2>7, <2>8, Zenon DEF StoreBlock, HandlerBlock, BlockType
  <2>10. messages \in Seq(MessageType) /\ deliveries \in Seq(MessageType)
    BY <2>1, <2>7, SeqWiden DEF App, Queued
  <2>11. storeQueue \in Seq(BlockType) /\ handlerQueue \in Seq(BlockType)
    BY <2>1, <2>9, SeqWiden DEF App, Queued
  <2>12. IF pc \in {"querying", "answered"} THEN query \in QueryType ELSE query = None
    <3>1. Answers \subseteq {<<>>} \cup {<<v>> : v \in Partial}
      BY <2>6, Zenon DEF Answers
    <3>2. Question \subseteq QueryType
      BY <2>2, <2>6, <3>1 DEF Question, QueryType
    <3> QED
      BY <2>1, <3>2 DEF App, Asking
  <2>13. pc = "answered"
           <=> \E n \in DOMAIN handlerQueue : handlerQueue[n].kind \in {"base", "rejected"}
    BY <2>1 DEF App, OneBase, Bases, Ends
  <2>14. /\ pc \in {"idle", "subscribing", "choosing", "querying", "answered"}
         /\ ops \in Seq({"initial", "sync"})
         /\ timer # None => timer.kind \in {"base", "retry"} /\ timer.due \in Nat
    BY <2>1 DEF App, Control
  <2>15. lastSyncTime \in Times /\ savedSyncTime \in Times
    BY <2>1, <2>6 DEF App, Clocks
  <2>16. (\E n \in DOMAIN storeQueue : storeQueue[n].kind = "held")
         => deliveries # <<>> /\ ~Head(deliveries).live
    BY <2>1, Zenon DEF App, HeadWaits, Held
  <2>17. {store, shown, seen} \subseteq Versions
    BY <2>1 DEF App, Caches, Whole
  <2>18. {watching, replacing, subscribing, listening, registered, cancelled, isDelivering} \subseteq BOOLEAN
    BY <2>1 DEF App, Switches
  <2>19. {unanswered, sentFrom, heardFrom} \subseteq 0..Len(log)
    BY <2>1 DEF Marks
  <2> QED
    BY <2>2, <2>3, <2>4, <2>10, <2>11, <2>12, <2>13, <2>14, <2>15, <2>16, <2>17, <2>18, <2>19
       DEF TypeOK
<1> QED
  BY <1>1, TypeInvariant, PTL

-----------------------------------------------------------------------------
(* What the store will hold of an item (Coming), as a function of its queue*)
(* and of what it holds now.                                               *)

Publishes(q, i) == {n \in DOMAIN q : q[n].kind = "publish" /\ i \in DOMAIN q[n].versions}

ComingOf(q, held, i) ==
  IF Publishes(q, i) = {} THEN held[i]
  ELSE q[CHOOSE n \in Publishes(q, i) : \A l \in Publishes(q, i) : l =< n].versions[i]

LEMMA ComingIs ==
  ASSUME NEW i
  PROVE  Coming(i) = ComingOf(storeQueue, store, i) /\ Coming(i)' = ComingOf(storeQueue', store', i)
BY DEF Coming, ComingOf, Publishes

LEMMA ComingAt ==
  ASSUME NEW q, IsSeq(q), NEW held, NEW i, NEW n, IsMax(n, Publishes(q, i))
  PROVE  ComingOf(q, held, i) = q[n].versions[i]
<1> DEFINE P == Publishes(q, i)
           m == CHOOSE m \in P : \A l \in P : l =< m
<1>1. n \in P /\ \A l \in P : l =< n
  BY DEF IsMax
<1>2. P \subseteq Nat
  BY DEF Publishes, IsSeq
<1> HIDE DEF P
<1>3. m \in P /\ \A l \in P : l =< m
  BY <1>1
<1> HIDE DEF m
<1>4. m = n
  BY <1>1, <1>2, <1>3
<1> QED
  BY <1>1, <1>4 DEF ComingOf, P, m

(* A block of versions is the last there is, or there is none.             *)
LEMMA ComingCases ==
  ASSUME NEW q, IsSeq(q), NEW held, NEW i
  PROVE  \/ Publishes(q, i) = {} /\ ComingOf(q, held, i) = held[i]
         \/ \E n \in Publishes(q, i) :
              IsMax(n, Publishes(q, i)) /\ ComingOf(q, held, i) = q[n].versions[i]
<1>1. Len(q) \in Nat /\ Publishes(q, i) \in SUBSET (1..Len(q))
  BY DEF Publishes, IsSeq
<1>2. CASE Publishes(q, i) # {}
  <2>1. PICK n \in Publishes(q, i) : IsMax(n, Publishes(q, i))
    BY <1>1, <1>2, HasMax
  <2> QED
    BY <2>1, ComingAt
<1>3. CASE Publishes(q, i) = {}
  BY <1>3 DEF ComingOf
<1> QED
  BY <1>2, <1>3

(* A block put at the end of the queue decides; one of another kind, or    *)
(* without the item, changes nothing.                                      *)
LEMMA ComingAdded ==
  ASSUME NEW q, IsSeq(q), NEW b, NEW held, NEW i
  PROVE  ComingOf(Append(q, b), held, i)
           = IF b.kind = "publish" /\ i \in DOMAIN b.versions THEN b.versions[i]
             ELSE ComingOf(q, held, i)
<1> DEFINE r == Append(q, b)
           N == Len(q) + 1
<1>1. PICK S : q \in Seq(S)
  BY DEF IsSeq
<1>2. q \in Seq(S \cup {b})
  BY <1>1, SeqWiden
<1>3. /\ r \in Seq(S \cup {b}) /\ Len(q) \in Nat /\ DOMAIN q = 1..Len(q) /\ DOMAIN r = 1..N
      /\ r[N] = b /\ \A n \in 1..Len(q) : r[n] = q[n]
  BY <1>2, SeqAdd
<1>4. IsSeq(r)
  BY <1>3 DEF IsSeq
<1> HIDE DEF r
<1>5. CASE b.kind = "publish" /\ i \in DOMAIN b.versions
  <2>1. IsMax(N, Publishes(r, i))
    BY <1>3, <1>5 DEF IsMax, Publishes
  <2> HIDE DEF N
  <2>2. ComingOf(r, held, i) = r[N].versions[i]
    BY <1>4, <2>1, ComingAt
  <2> QED
    BY <1>3, <1>5, <2>2 DEF r
<1>6. CASE ~(b.kind = "publish" /\ i \in DOMAIN b.versions)
  <2>1. Publishes(r, i) = Publishes(q, i)
    BY <1>3, <1>6 DEF Publishes
  <2>2. CASE Publishes(q, i) = {}
    BY <1>6, <2>1, <2>2 DEF ComingOf, r
  <2>3. ASSUME NEW n \in Publishes(q, i), IsMax(n, Publishes(q, i)), ComingOf(q, held, i) = q[n].versions[i]
        PROVE  ComingOf(r, held, i) = ComingOf(q, held, i)
    <3>1. ComingOf(r, held, i) = r[n].versions[i]
      BY <1>4, <2>1, <2>3, ComingAt
    <3>2. n \in 1..Len(q)
      BY <1>3 DEF Publishes
    <3> QED
      BY <1>3, <2>3, <3>1, <3>2
  <2> QED
    BY <1>6, <2>2, <2>3, ComingCases DEF r
<1> QED
  BY <1>5, <1>6

(* Running the first block changes nothing.                                *)
LEMMA ComingRun ==
  ASSUME NEW q, IsSeq(q), q # <<>>, NEW held, NEW after, NEW i,
         after[i] = IF q[1].kind = "publish" /\ i \in DOMAIN q[1].versions THEN q[1].versions[i]
                    ELSE held[i]
  PROVE  ComingOf(Tail(q), after, i) = ComingOf(q, held, i)
<1> DEFINE r == Tail(q)
<1>1. PICK S : q \in Seq(S)
  BY DEF IsSeq
<1>2. /\ r \in Seq(S) /\ Len(q) \in Nat \ {0} /\ DOMAIN q = 1..Len(q) /\ DOMAIN r = 1..(Len(q) - 1)
      /\ \A n \in 1..(Len(q) - 1) : r[n] = q[n + 1]
  BY <1>1, FirstAndRest
<1>3. IsSeq(r)
  BY <1>2 DEF IsSeq
<1> HIDE DEF r
<1>4. /\ Publishes(q, i) \subseteq 1..Len(q) /\ Publishes(r, i) \subseteq 1..(Len(q) - 1)
      /\ \A n \in 1..(Len(q) - 1) : n \in Publishes(r, i) <=> n + 1 \in Publishes(q, i)
      /\ 1 \in Publishes(q, i) <=> q[1].kind = "publish" /\ i \in DOMAIN q[1].versions
  BY <1>2 DEF Publishes
<1>5. CASE Publishes(r, i) = {}
  <2>1. ComingOf(r, after, i) = after[i]
    BY <1>5 DEF ComingOf
  <2>2. \A n \in Publishes(q, i) : n = 1
    <3> SUFFICES ASSUME NEW n \in Publishes(q, i), n # 1 PROVE FALSE
      OBVIOUS
    <3>1. n - 1 \in 1..(Len(q) - 1) /\ (n - 1) + 1 = n
      BY <1>2, <1>4
    <3> QED
      BY <1>4, <1>5, <3>1
  <2>3. CASE Publishes(q, i) = {}
    BY <1>4, <2>1, <2>3 DEF ComingOf, r
  <2>4. CASE Publishes(q, i) # {}
    <3>1. 1 \in Publishes(q, i) /\ IsMax(1, Publishes(q, i))
      BY <2>2, <2>4 DEF IsMax
    <3>2. ComingOf(q, held, i) = q[1].versions[i]
      BY <3>1, ComingAt
    <3> QED
      BY <1>4, <2>1, <3>1, <3>2 DEF r
  <2> QED
    BY <2>3, <2>4
<1>6. ASSUME NEW n \in Publishes(r, i), IsMax(n, Publishes(r, i)), ComingOf(r, after, i) = r[n].versions[i]
      PROVE  ComingOf(r, after, i) = ComingOf(q, held, i)
  <2>1. n \in 1..(Len(q) - 1) /\ n + 1 \in Publishes(q, i)
    BY <1>4
  <2>2. IsMax(n + 1, Publishes(q, i))
    <3> SUFFICES ASSUME NEW l \in Publishes(q, i) PROVE l =< n + 1
      BY <2>1 DEF IsMax
    <3>1. CASE l = 1
      BY <2>1, <3>1
    <3>2. CASE l # 1
      <4>1. l - 1 \in 1..(Len(q) - 1) /\ (l - 1) + 1 = l
        BY <1>2, <1>4, <3>2
      <4>2. l - 1 \in Publishes(r, i)
        BY <1>4, <4>1
      <4>3. l - 1 =< n
        BY <1>6, <4>2 DEF IsMax
      <4> QED
        BY <2>1, <4>1, <4>3
    <3> QED
      BY <3>1, <3>2
  <2>3. ComingOf(q, held, i) = q[n + 1].versions[i]
    BY <2>2, ComingAt
  <2> QED
    BY <1>2, <1>6, <2>1, <2>3
<1> QED
  BY <1>3, <1>5, <1>6, ComingCases DEF r

LEMMA ComingMuted ==
  ASSUME TypeInv, NEW held, NEW i
  PROVE  ComingOf(Muted, held, i) = ComingOf(storeQueue, held, i)
<1>1. IsSeq(storeQueue) /\ IsSeq(Muted)
  BY MutedIsTyped DEF TypeInv, App, Queued, IsSeq
<1>2. DOMAIN Muted = DOMAIN storeQueue
      /\ \A n \in DOMAIN storeQueue :
           Muted[n] = IF storeQueue[n].kind = "message" THEN [kind |-> "unheard"] ELSE storeQueue[n]
  BY DEF Muted
<1>3. [kind |-> "unheard"].kind # "publish"
  OBVIOUS
<1>4. Publishes(Muted, i) = Publishes(storeQueue, i)
  BY <1>2, <1>3 DEF Publishes
<1>5. ASSUME NEW n \in Publishes(storeQueue, i), IsMax(n, Publishes(storeQueue, i)),
             ComingOf(storeQueue, held, i) = storeQueue[n].versions[i]
      PROVE  ComingOf(Muted, held, i) = ComingOf(storeQueue, held, i)
  <2>1. ComingOf(Muted, held, i) = Muted[n].versions[i]
    BY <1>1, <1>4, <1>5, ComingAt
  <2>2. Muted[n] = storeQueue[n]
    BY <1>2 DEF Publishes
  <2> QED
    BY <1>5, <2>1, <2>2
<1>6. CASE Publishes(storeQueue, i) = {}
  BY <1>4, <1>6 DEF ComingOf
<1> QED
  BY <1>1, <1>5, <1>6, ComingCases

(* What is coming is a version there has been.                             *)
LEMMA ComingIsPast ==
  ASSUME TypeInv, NEW i \in Items
  PROVE  Coming(i) \in Past(i) /\ Coming(i) \in Nat
<1>1. storeQueue \in Seq(StoreBlock) /\ IsSeq(storeQueue) /\ store \in Whole /\ World
  BY DEF TypeInv, App, Queued, Caches, IsSeq
<1>2. store[i] \in Past(i)
  BY <1>1 DEF Whole
<1>3. \A n \in Publishes(storeQueue, i) : storeQueue[n].versions[i] \in Past(i)
  <2> TAKE n \in Publishes(storeQueue, i)
  <2>1. storeQueue[n] \in StoreBlock /\ storeQueue[n].kind = "publish" /\ i \in DOMAIN storeQueue[n].versions
    BY <1>1, SeqAt DEF Publishes
  <2> QED
    BY <2>1, StoreBlockIs, RealVersions
<1>4. Coming(i) \in Past(i)
  BY <1>1, <1>2, <1>3, ComingIs, ComingCases
<1> QED
  BY <1>1, <1>4, PastIsBounded

-----------------------------------------------------------------------------
(* What the times of syncs stand for.                                      *)

(* Answers and messages travel no longer than setLastSyncTime takes off,   *)
(* the app's queues run before the clock moves, every sync runs a query    *)
(* that is answered, and the app does not crash.                           *)
Recoverable == MaxTravel =< Slack /\ Prompt /\ HasDelta /\ ~QueriesFail /\ MaxCrashes = 0

(* Every change from before a time, from a place in the log on, is in the  *)
(* store or on its way there.                                              *)
Reaches(T, m) == \A k \in DOMAIN log : k > m /\ log[k].time < T => Coming(log[k].item) >= k
Reach(T) == Reaches(T, unanswered)

(* The times that are, or may become, the last sync time.                  *)
Due ==
  {T \in Int :
     \/ T = savedSyncTime
     \/ T = lastSyncTime
     \/ InQuery /\ T = query.since
     \/ \E n \in DOMAIN deliveries : ~deliveries[n].live /\ T = deliveries[n].date - Slack}

(* A base result with data waits for the handler.                          *)
WithData == \E n \in DOMAIN handlerQueue : handlerQueue[n].kind = "base"

(* An answer lacks nothing from between the time it was asked from and its *)
(* evaluation, a base answer nothing that answers without data left out.   *)
Within(k, versions) ==
  IF log[k].item \in DOMAIN versions
  THEN k > versions[log[k].item] => log[k].time >= query.evaluatedAt
  ELSE log[k].time < query.since \/ log[k].time >= query.evaluatedAt

Complete ==
  query.answer # <<>> =>
    /\ query.method = "base" =>
         /\ DOMAIN query.answer[1] = Items
         /\ \A k \in DOMAIN log : k =< unanswered => query.answer[1][log[k].item] >= k
    /\ \A k \in DOMAIN log : Within(k, query.answer[1])

CoverInv ==
  /\ \A T \in Due : Reach(T)
  /\ WithData => Reaches(now - Slack, 0)
  /\ InQuery => Complete
  /\ crashes = 0

LEMMA Numbers ==
  ASSUME TypeInv
  PROVE  /\ now \in Nat /\ Slack \in Nat /\ MaxTravel \in Nat /\ MaxChanges \in Nat /\ now - Slack \in Int
         /\ \A k \in DOMAIN log : k \in Nat /\ log[k].item \in Items /\ log[k].time \in Nat /\ log[k].time =< now
<1>1. World /\ now \in Nat
  BY DEF TypeInv, World
<1>2. DOMAIN log = 1..Len(log) /\ Len(log) \in Nat
  BY <1>1 DEF World
<1>3. ASSUME NEW k \in DOMAIN log
      PROVE  log[k].item \in Items /\ log[k].time \in Nat /\ log[k].time =< now
  <2>1. log[k] \in [item : Items, time : 0..now]
    BY <1>1, SeqAt DEF World
  <2> QED
    BY <1>1, <2>1
<1> QED
  BY <1>1, <1>2, <1>3, NumbersAssumption

LEMMA SinceInSoFar ==
  ASSUME TypeInv
  PROVE  \A T \in SoFar : T # None => T \in Int /\ T =< now - Slack
BY Numbers DEF SoFar

LEMMA DueIsBounded ==
  ASSUME TypeInv, NEW T \in Due
  PROVE  T \in Int /\ T =< now - Slack
<1>1. T \in Int /\ T # None
  BY NoneAssumption DEF Due
<1>2. lastSyncTime \in SoFar /\ savedSyncTime \in SoFar
  BY DEF TypeInv, App, Clocks
<1>3. InQuery => query.since \in SoFar
  BY DEF InQuery, TypeInv, App, Asking, Question
<1>4. \A n \in DOMAIN deliveries : deliveries[n].date \in 0..now
  <2> TAKE n \in DOMAIN deliveries
  <2>1. deliveries[n] \in HeldMessage
    BY SeqAt DEF TypeInv, App, Queued
  <2> QED
    BY <2>1 DEF HeldMessage
<1> QED
  BY <1>1, <1>2, <1>3, <1>4, SinceInSoFar, Numbers DEF Due

(* A step keeps what reaches the store, for changes a travel time old.     *)
Kept ==
  \A k \in DOMAIN log' : log'[k].time < now - Slack =>
    /\ k \in DOMAIN log
    /\ ComingOf(storeQueue, store, log[k].item) >= k
       => ComingOf(storeQueue', store', log[k].item) >= k

LEMMA ReachIsKept ==
  ASSUME TypeInv, World', Grown, Kept, NEW T \in Int, T =< now - Slack, NEW m, Reaches(T, m)
  PROVE  Reaches(T, m)'
<1> SUFFICES ASSUME NEW k \in DOMAIN log', k > m, log'[k].time < T
             PROVE  ComingOf(storeQueue', store', log'[k].item) >= k
  BY ComingIs DEF Reaches
<1>1. log'[k].time \in Nat
  <2>1. log'[k] \in [item : Items, time : 0..now']
    BY SeqAt DEF World
  <2> QED
    BY <2>1 DEF World
<1>2. CASE k \in DOMAIN log
  <2>1. log'[k] = log[k] /\ log[k].time \in Nat
    BY <1>2, Numbers DEF Grown
  <2>2. log[k].time < now - Slack
    BY <2>1, Numbers
  <2>3. Coming(log[k].item) >= k
    BY <1>2, <2>1 DEF Reaches
  <2>4. ComingOf(storeQueue, store, log[k].item) >= k
    BY <2>3, ComingIs
  <2> QED
    BY <2>1, <2>2, <2>4 DEF Kept
<1>3. CASE k \notin DOMAIN log
  <2>1. ~(log'[k].time < now - Slack)
    BY <1>3 DEF Kept
  <2> QED
    BY <1>1, <2>1, Numbers
<1> QED
  BY <1>2, <1>3

LEMMA TwoAppended ==
  ASSUME NEW q, IsSeq(q), NEW a, NEW b
  PROVE  q \o <<a, b>> = Append(Append(q, a), b)
<1>1. PICK S : q \in Seq(S)
  BY DEF IsSeq
<1> DEFINE T == S \cup {a, b}
<1>2. q \in Seq(T) /\ a \in T /\ b \in T
  BY <1>1, SeqWiden
<1> HIDE DEF T
<1>3. <<a>> \in Seq(T) /\ <<b>> \in Seq(T) /\ Append(q, a) \in Seq(T)
  BY <1>2
<1>4. Append(q, a) = q \o <<a>> /\ Append(Append(q, a), b) = Append(q, a) \o <<b>>
  BY <1>2, <1>3, AppendIsConcat
<1>5. (q \o <<a>>) \o <<b>> = q \o (<<a>> \o <<b>>)
  <2> DEFINE u == <<a>>
             w == <<b>>
  <2>1. u \in Seq(T) /\ w \in Seq(T)
    BY <1>3
  <2> HIDE DEF u, w
  <2>2. (q \o u) \o w = q \o (u \o w)
    BY <1>2, <2>1, ConcatAssociative
  <2> QED
    BY <2>2 DEF u, w
<1>6. <<a>> \o <<b>> = <<a, b>>
  <2>1. <<a>> \in Seq({a, b}) /\ b \in {a, b}
    OBVIOUS
  <2>2. Append(<<a>>, b) = <<a>> \o <<b>>
    BY <2>1, AppendIsConcat
  <2>3. Append(<<a>>, b) = <<a, b>>
    <3> DEFINE u == Append(<<a>>, b)
               w == <<a, b>>
    <3>1. u \in Seq({a, b}) /\ Len(u) = 2 /\ u[1] = a /\ u[2] = b
      <4>1. Len(<<a>>) = 1 /\ <<a>>[1] = a
        OBVIOUS
      <4> QED
        BY <2>1, <4>1, AppendProperties
    <3>2. w \in Seq({a, b}) /\ Len(w) = 2 /\ w[1] = a /\ w[2] = b
      OBVIOUS
    <3> HIDE DEF u, w
    <3>3. \A n \in 1..Len(u) : u[n] = w[n]
      BY <3>1, <3>2
    <3>4. u = w
      BY <3>1, <3>2, <3>3, SeqEqual
    <3> QED
      BY <3>4 DEF u, w
  <2> QED
    BY <2>2, <2>3
<1> QED
  BY <1>4, <1>5, <1>6

(* Versions after which no change of a travel time ago is missing.         *)
Current(v) ==
  \A k \in DOMAIN log : log[k].item \in DOMAIN v /\ k > v[log[k].item] => ~(log[k].time < now - Slack)

(* Current versions are put in the store's queue, or nothing is.           *)
LEMMA PublishingKeeps ==
  ASSUME TypeInv, NEW v \in Real, Current(v), log' = log,
         \A i \in Items : ComingOf(storeQueue', store', i)
           = IF i \in DOMAIN v THEN v[i] ELSE ComingOf(storeQueue, store, i)
  PROVE  Kept
<1> SUFFICES ASSUME NEW k \in DOMAIN log, log[k].time < now - Slack,
                    ComingOf(storeQueue, store, log[k].item) >= k
             PROVE  ComingOf(storeQueue', store', log[k].item) >= k
  BY DEF Kept
<1> DEFINE i == log[k].item
<1>1. i \in Items /\ k \in Nat
  BY Numbers
<1>2. CASE i \in DOMAIN v
  <2>1. ~(k > v[i]) /\ v[i] \in Nat
    BY <1>2, RealVersions DEF Current
  <2> QED
    BY <1>1, <1>2, <2>1
<1>3. CASE i \notin DOMAIN v
  BY <1>1, <1>3
<1> QED
  BY <1>2, <1>3

LEMMA SameKeeps ==
  ASSUME TypeInv, log' = log,
         \A i \in Items : ComingOf(storeQueue', store', i) = ComingOf(storeQueue, store, i)
  PROVE  Kept
BY Numbers DEF Kept

(* The version a message brings is current when it arrives: a later change *)
(* of the item is not older than the message.                              *)
LEMMA ArrivedIsCurrent ==
  ASSUME TypeInv, MaxTravel =< Slack, NEW n \in DOMAIN wire
  PROVE  Current(Version(wire[n]))
<1> DEFINE k == wire[n]
           i == log[k].item
<1>1. k \in DOMAIN log /\ now =< log[k].time + MaxTravel
  BY SeqAt DEF TypeInv, Lines
<1>2. DOMAIN Version(k) = {i} /\ Version(k)[i] = k
  BY <1>1, OneVersion DEF TypeInv
<1> HIDE DEF k
<1> SUFFICES ASSUME NEW l \in DOMAIN log, l > k
             PROVE  ~(log[l].time < now - Slack)
  BY <1>2 DEF Current, k
<1>3. log[k].time =< log[l].time
  BY <1>1, Numbers DEF TypeInv, World
<1> QED
  BY <1>1, <1>3, Numbers

LEMMA ArriveKeeps ==
  ASSUME TypeInv, MaxTravel =< Slack, Arrive
  PROVE  Kept
<1>1. PICK n \in DOMAIN wire, copies \in 1..2 :
        LET k == wire[n]
            once == <<Message(k), Publish(Version(k))>>
        IN  storeQueue' = storeQueue \o (IF copies = 1 THEN once ELSE once \o once)
  BY DEF Arrive
<1>2. log' = log /\ store' = store
  BY DEF Arrive, backend, caches
<1> DEFINE v == Version(wire[n])
           a == Message(wire[n])
           b == Publish(v)
           once == <<a, b>>
<1>3. wire[n] \in DOMAIN log
  BY SeqAt DEF TypeInv, Lines
<1>4. v \in Real /\ Current(v)
  BY <1>3, OneVersion, ArrivedIsCurrent DEF TypeInv
<1>5. a.kind = "message" /\ b.kind = "publish" /\ b.versions = v
  BY BlockKinds DEF Publish
<1>6. storeQueue' = storeQueue \o once \/ storeQueue' = storeQueue \o (once \o once)
  BY <1>1
<1>7. IsSeq(storeQueue)
  BY DEF TypeInv, App, Queued, IsSeq
<1> HIDE DEF v, a, b
<1>8. \A q : IsSeq(q) => IsSeq(q \o once) /\ \A i \in Items :
        ComingOf(q \o once, store, i) = IF i \in DOMAIN v THEN v[i] ELSE ComingOf(q, store, i)
  <2> SUFFICES ASSUME NEW q, IsSeq(q)
               PROVE  IsSeq(q \o once) /\ \A i \in Items :
                        ComingOf(q \o once, store, i) = IF i \in DOMAIN v THEN v[i] ELSE ComingOf(q, store, i)
    OBVIOUS
  <2>1. q \o once = Append(Append(q, a), b)
    BY TwoAppended
  <2>2. IsSeq(Append(q, a)) /\ IsSeq(Append(Append(q, a), b))
    BY SeqAppend
  <2>3. \A i \in Items : ComingOf(Append(q, a), store, i) = ComingOf(q, store, i)
    BY <1>5, ComingAdded
  <2>4. \A i \in Items : ComingOf(Append(Append(q, a), b), store, i)
          = IF i \in DOMAIN v THEN v[i] ELSE ComingOf(Append(q, a), store, i)
    BY <1>5, <2>2, ComingAdded
  <2> QED
    BY <2>1, <2>2, <2>3, <2>4
<1>9. IsSeq(once)
  <2>1. once \in Seq({a, b})
    OBVIOUS
  <2> QED
    BY <2>1 DEF IsSeq
<1> HIDE DEF once
<1>10. storeQueue \o (once \o once) = (storeQueue \o once) \o once
  BY <1>7, <1>9, SeqAssociative
<1>11. \A i \in Items : ComingOf(storeQueue', store', i)
         = IF i \in DOMAIN v THEN v[i] ELSE ComingOf(storeQueue, store, i)
  BY <1>2, <1>6, <1>7, <1>8, <1>10
<1> QED
  BY <1>2, <1>4, <1>11, PublishingKeeps

(* The versions of an answer are current as long as it may travel.         *)
LEMMA AnswerIsCurrent ==
  ASSUME TypeInv, MaxTravel =< Slack, pc = "querying", query.answer # <<>>, Complete
  PROVE  Current(query.answer[1]) /\ query.evaluatedAt \in Nat /\ now - Slack =< query.evaluatedAt
<1>1. query.evaluatedAt \in Nat /\ now =< query.evaluatedAt + MaxTravel
  <2>1. query \in Question /\ now =< query.evaluatedAt + MaxTravel
    BY DEF TypeInv, App, Asking
  <2>2. query.evaluatedAt \in 0..now
    BY <2>1 DEF Question
  <2> QED
    BY <2>1, <2>2, Numbers
<1>2. now - Slack =< query.evaluatedAt
  BY <1>1, Numbers
<1>3. Current(query.answer[1])
  <2> SUFFICES ASSUME NEW k \in DOMAIN log, log[k].item \in DOMAIN query.answer[1],
                      k > query.answer[1][log[k].item]
               PROVE  ~(log[k].time < now - Slack)
    BY DEF Current
  <2>1. log[k].time >= query.evaluatedAt
    BY DEF Complete, Within
  <2> QED
    BY <1>1, <1>2, <2>1, Numbers
<1> QED
  BY <1>1, <1>2, <1>3

(* The versions of an answer are put in the store's queue.                 *)
LEMMA AnswerIsPublished ==
  ASSUME TypeInv, BaseAnswered \/ DeltaAnswered, NEW i \in Items
  PROVE  ComingOf(storeQueue', store', i)
           = IF i \in DOMAIN query.answer[1] THEN query.answer[1][i]
             ELSE ComingOf(storeQueue, store, i)
<1> DEFINE v == query.answer[1]
           a == Show(v)
           b == Publish(v)
<1>1. a.kind = "show" /\ b.kind = "publish" /\ b.versions = v
  BY BlockKinds DEF Publish
<1>2. store' = store
        /\ (storeQueue' = Append(storeQueue, b) \/ storeQueue' = storeQueue \o <<a, b>>)
  <2>1. CASE BaseAnswered
    BY <2>1 DEF BaseAnswered, caches
  <2>2. CASE DeltaAnswered
    BY <2>2 DEF DeltaAnswered, caches
  <2> QED
    BY <2>1, <2>2
<1>3. IsSeq(storeQueue)
  BY DEF TypeInv, App, Queued, IsSeq
<1> HIDE DEF a, b, v
<1>4. ComingOf(Append(storeQueue, b), store, i)
        = IF i \in DOMAIN v THEN v[i] ELSE ComingOf(storeQueue, store, i)
  BY <1>1, <1>3, ComingAdded
<1>5. ComingOf(storeQueue \o <<a, b>>, store, i)
        = IF i \in DOMAIN v THEN v[i] ELSE ComingOf(storeQueue, store, i)
  <2>1. storeQueue \o <<a, b>> = Append(Append(storeQueue, a), b)
    BY <1>3, TwoAppended
  <2>4. IsSeq(Append(storeQueue, a))
    BY <1>3, SeqAppend
  <2>2. ComingOf(Append(storeQueue, a), store, i) = ComingOf(storeQueue, store, i)
    BY <1>1, <1>3, ComingAdded
  <2>3. ComingOf(Append(Append(storeQueue, a), b), store, i)
          = IF i \in DOMAIN v THEN v[i] ELSE ComingOf(Append(storeQueue, a), store, i)
    BY <1>1, <2>4, ComingAdded
  <2> QED
    BY <2>1, <2>2, <2>3
<1> QED
  BY <1>2, <1>4, <1>5 DEF v

LEMMA StepKeeps ==
  ASSUME TypeInv, TypeInv', Grown, [Next]_vars, Recoverable, CoverInv
  PROVE  Kept
<1>1. IsSeq(storeQueue)
  BY DEF TypeInv, App, Queued, IsSeq
<1>2. CASE \E i \in Items : Change(i)
  <2>1. PICK i \in Items : log' = Append(log, [item |-> i, time |-> now])
    BY <1>2 DEF Change
  <2>2. UNCHANGED <<storeQueue, store, now>>
    BY <1>2 DEF Change, queues, caches
  <2> DEFINE S == [item : Items, time : 0..now]
             x == [item |-> i, time |-> now]
  <2>3. log \in Seq(S) /\ x \in S /\ x.time = now
    BY Numbers DEF TypeInv, World
  <2> HIDE DEF S, x
  <2>4. /\ DOMAIN log = 1..Len(log) /\ DOMAIN Append(log, x) = 1..(Len(log) + 1) /\ Len(log) \in Nat
        /\ Append(log, x)[Len(log) + 1] = x
    BY <2>3, SeqAdd
  <2>5. \A k \in DOMAIN log' : k \in DOMAIN log \/ log'[k].time = now
    <3>1. \A k \in 1..(Len(log) + 1) : k \in 1..Len(log) \/ k = Len(log) + 1
      BY <2>4
    <3> QED
      BY <2>1, <2>3, <2>4, <3>1 DEF x
  <2> QED
    BY <2>2, <2>5, Numbers DEF Kept
<1>3. CASE Connected \/ Cancel
  <2>1. log' = log /\ store' = store /\ (storeQueue' = storeQueue \/ storeQueue' = Muted)
    BY <1>3 DEF Connected, Cancel, backend, caches
  <2> QED
    BY <2>1, ComingMuted, SameKeeps
<1>4. CASE Arrive
  BY <1>4, ArriveKeeps DEF Recoverable
<1>5. CASE BaseAnswered \/ DeltaAnswered
  <2>1. pc = "querying" /\ query.answer # <<>> /\ log' = log
    BY <1>5 DEF BaseAnswered, DeltaAnswered, backend
  <2>2. Current(query.answer[1]) /\ query.answer[1] \in Real
    BY <2>1, AnswerIs, AnswerIsCurrent DEF Recoverable, CoverInv, InQuery
  <2> QED
    BY <1>5, <2>1, <2>2, AnswerIsPublished, PublishingKeeps
<1>6. CASE Deliver
  <2>1. log' = log /\ store' = store
        /\ (storeQueue' = storeQueue \/ storeQueue' = Append(storeQueue, [kind |-> "held"]))
    BY <1>6 DEF Deliver, backend, caches
  <2>2. [kind |-> "held"].kind # "publish"
    OBVIOUS
  <2>3. \A i \in Items : ComingOf(Append(storeQueue, [kind |-> "held"]), store, i) = ComingOf(storeQueue, store, i)
    BY <1>1, <2>2, ComingAdded
  <2> QED
    BY <2>1, <2>3, SameKeeps
<1>7. CASE RunStore
  <2> DEFINE b == Head(storeQueue)
  <2>1. log' = log /\ storeQueue # <<>> /\ storeQueue' = Tail(storeQueue)
    BY <1>7 DEF RunStore, backend
  <2>2. b \in StoreBlock /\ b = storeQueue[1]
    BY <2>1, FirstAndRest DEF TypeInv, App, Queued
  <2>3. IF b.kind = "publish" THEN store' = Over(store, b.versions) ELSE store' = store
    BY <1>7, <2>2, StoreBlockIs DEF RunStore
  <2> HIDE DEF b
  <2>4. \A i \in Items : store'[i] = IF b.kind = "publish" /\ i \in DOMAIN b.versions THEN b.versions[i]
                                     ELSE store[i]
    BY <2>3 DEF Over
  <2>5. \A i \in Items : ComingOf(storeQueue', store', i) = ComingOf(storeQueue, store, i)
    <3> TAKE i \in Items
    <3>1. store'[i] = IF storeQueue[1].kind = "publish" /\ i \in DOMAIN storeQueue[1].versions
                      THEN storeQueue[1].versions[i] ELSE store[i]
      BY <2>2, <2>4
    <3>2. ComingOf(Tail(storeQueue), store', i) = ComingOf(storeQueue, store, i)
      BY <1>1, <2>1, <3>1, ComingRun
    <3> QED
      BY <2>1, <3>2
  <2> QED
    BY <2>1, <2>5, SameKeeps
<1>8. CASE Restart
  <2>1. crashes < MaxCrashes
    BY <1>8 DEF Restart
  <2> QED
    BY <2>1 DEF Recoverable, CoverInv
<1>10. CASE DeltaRejected
  <2> DEFINE b == Show(Nothing)
  <2>1. log' = log /\ store' = store /\ storeQueue' = Append(storeQueue, b)
    BY <1>10 DEF DeltaRejected, backend, caches
  <2>2. b.kind # "publish"
    BY BlockKinds
  <2> HIDE DEF b
  <2>3. \A i \in Items : ComingOf(Append(storeQueue, b), store, i) = ComingOf(storeQueue, store, i)
    BY <1>1, <2>2, ComingAdded
  <2> QED
    BY <2>1, <2>3, SameKeeps
<1>9. CASE ~(\/ \E i \in Items : Change(i)
             \/ Connected \/ Cancel \/ Arrive \/ BaseAnswered \/ DeltaAnswered \/ Deliver
             \/ RunStore \/ Restart \/ DeltaRejected)
  <2>1. UNCHANGED <<log, store, storeQueue>>
    BY <1>9 DEF Next, vars, backend, queues, caches, Tick, Drop, Reconnect, CloseOld,
       SubscribeFails, Subscribed, RunHandler, BeginSync, RunQuery, SkipQuery, TimerFires,
       Evaluate, BaseRejected, QueryFails, SyncNotice
  <2> QED
    BY <2>1, SameKeeps
<1> QED
  BY <1>2, <1>3, <1>4, <1>5, <1>6, <1>7, <1>8, <1>9, <1>10

(* What the backend evaluates lacks nothing.                               *)
LEMMA EvaluatedIsComplete ==
  ASSUME TypeInv, Evaluate
  PROVE  Complete'
<1> DEFINE asked == IF query.method = "base" THEN Items
                    ELSE {i \in Items : ChangedSince(i, query.since)}
           v == [i \in asked |-> Latest(i)]
<1>1. query' = [query EXCEPT !.answer = <<v>>, !.evaluatedAt = now] /\ pc = "querying" /\ log' = log
  BY DEF Evaluate, backend
<1>2. query \in Question /\ (query.method = "delta" => query.since # None)
  BY <1>1 DEF TypeInv, App, Asking
<1>3. query'.answer[1] = v /\ query'.method = query.method /\ query'.since = query.since
      /\ query.method \in {"base", "delta"} /\ query.since \in SoFar
  BY <1>1, <1>2 DEF Question
<1>4. DOMAIN v = asked /\ \A i \in asked : v[i] = Latest(i)
  OBVIOUS
<1>5. ASSUME NEW k \in DOMAIN log
      PROVE  IF log[k].item \in DOMAIN v THEN ~(k > v[log[k].item])
             ELSE log[k].time < query.since
  <2> DEFINE i == log[k].item
  <2>1. i \in Items /\ k \in Nat /\ k \in ChangesOf(i)
    BY Numbers DEF ChangesOf
  <2>2. IsMax(Latest(i), ChangesOf(i)) /\ DOMAIN log = 1..Len(log) /\ Len(log) \in Nat
    BY <2>1, LatestIsMax DEF TypeInv
  <2>3. Latest(i) \in DOMAIN log /\ k =< Latest(i) /\ Latest(i) # 0
    BY <2>1, <2>2 DEF IsMax, ChangesOf
  <2>4. CASE i \in asked
    <3>1. i \in DOMAIN v /\ v[i] = Latest(i) /\ Latest(i) \in Nat
      BY <1>4, <2>2, <2>3, <2>4
    <3> HIDE DEF v, asked
    <3> QED
      BY <2>1, <2>3, <3>1
  <2>5. CASE i \notin asked
    <3>1. query.method # "base" /\ ~ChangedSince(i, query.since)
      BY <2>1, <2>5
    <3>2. ~(log[Latest(i)].time >= query.since)
      BY <2>3, <3>1 DEF ChangedSince
    <3>3. log[k].time =< log[Latest(i)].time
      BY <2>1, <2>3 DEF TypeInv, World
    <3>4. query.since \in Int /\ log[k].time \in Nat /\ log[Latest(i)].time \in Nat
      BY <1>2, <1>3, <2>3, <3>1, SinceInSoFar, Numbers
    <3> QED
      BY <1>4, <2>5, <3>2, <3>3, <3>4
  <2> QED
    BY <2>4, <2>5
<1>7. \A i \in asked : Latest(i) \in Nat
  <2>1. asked \subseteq Items
    OBVIOUS
  <2> HIDE DEF asked
  <2> QED
    BY <2>1, PastIsBounded, NumbersAssumption DEF TypeInv
<1>8. \A i \in DOMAIN v : v[i] \in Nat
  BY <1>4, <1>7
<1>6. query.method = "base" => DOMAIN v = Items
  BY <1>4
<1> HIDE DEF v
<1>9. unanswered' = unanswered
  BY DEF Evaluate, history
<1>10. query.method = "base" => \A k \in DOMAIN log : v[log[k].item] >= k
  <2> SUFFICES ASSUME query.method = "base", NEW k \in DOMAIN log PROVE v[log[k].item] >= k
    OBVIOUS
  <2>1. log[k].item \in DOMAIN v /\ v[log[k].item] \in Nat /\ k \in Nat
    BY <1>6, <1>8, Numbers
  <2> QED
    BY <1>5, <2>1
<1> QED
  BY <1>1, <1>3, <1>5, <1>6, <1>9, <1>10 DEF Complete, Within

LEMMA StaysComplete ==
  ASSUME TypeInv, World', Grown, [Next]_vars, InQuery => Complete
  PROVE  (InQuery => Complete)'
<1>1. CASE Evaluate
  BY <1>1, EvaluatedIsComplete
<1>2. CASE RunQuery
  <2>1. query'.answer = <<>>
    BY <1>2 DEF RunQuery
  <2> QED
    BY <2>1 DEF Complete
<1>3. CASE query' = query /\ log' = log /\ unanswered' = unanswered /\ (InQuery' => InQuery)
  BY <1>3 DEF Complete, Within
<1>4. CASE \E i \in Items : Change(i)
  <2>1. PICK i \in Items : log' = Append(log, [item |-> i, time |-> now])
    BY <1>4 DEF Change
  <2>2. query' = query /\ pc' = pc /\ unanswered' = unanswered
    BY <1>4 DEF Change, sync, history
  <2> SUFFICES ASSUME InQuery, query.answer # <<>>
               PROVE  /\ query.method = "base" =>
                           /\ DOMAIN query.answer[1] = Items
                           /\ \A k \in DOMAIN log' : k =< unanswered
                                => query.answer[1][log'[k].item] >= k
                      /\ \A k \in DOMAIN log' : Within(k, query.answer[1])'
    BY <2>2 DEF Complete, InQuery
  <2>3. Complete /\ query.evaluatedAt \in 0..now /\ query.since \in SoFar
        /\ query.method \in {"base", "delta"}
    BY DEF InQuery, TypeInv, App, Asking, Question
  <2> DEFINE S == [item : Items, time : 0..now]
             x == [item |-> i, time |-> now]
  <2>4. log \in Seq(S) /\ x \in S /\ x.time = now
    BY Numbers DEF TypeInv, World
  <2> HIDE DEF S, x
  <2>5. /\ DOMAIN log = 1..Len(log) /\ DOMAIN Append(log, x) = 1..(Len(log) + 1) /\ Len(log) \in Nat
        /\ Append(log, x)[Len(log) + 1] = x
    BY <2>4, SeqAdd
  <2>6. \A k \in DOMAIN log' : k \in DOMAIN log \/ log'[k].time = now
    <3>1. \A k \in 1..(Len(log) + 1) : k \in 1..Len(log) \/ k = Len(log) + 1
      BY <2>5
    <3> QED
      BY <2>1, <2>4, <2>5, <3>1 DEF x
  <2>7. ASSUME NEW k \in DOMAIN log' PROVE Within(k, query.answer[1])'
    <3>1. CASE k \in DOMAIN log
      <4>1. Within(k, query.answer[1]) /\ log'[k] = log[k]
        BY <2>3, <3>1 DEF Complete, Grown
      <4> QED
        BY <2>2, <4>1 DEF Within
    <3>2. CASE k \notin DOMAIN log
      <4>1. log'[k].time >= query.evaluatedAt
        BY <2>3, <2>6, <3>2, Numbers
      <4> QED
        BY <2>2, <4>1 DEF Within
    <3> QED
      BY <3>1, <3>2
  <2>8. ASSUME query.method = "base", NEW k \in DOMAIN log', k =< unanswered
        PROVE  query.answer[1][log'[k].item] >= k
    <3>1. unanswered \in 0..Len(log) /\ k \in Nat \ {0}
      BY <2>1, <2>5 DEF TypeInv, Marks, x
    <3>2. k \in DOMAIN log /\ log'[k] = log[k]
      BY <2>5, <2>8, <3>1 DEF Grown
    <3> QED
      BY <2>3, <2>8, <3>2 DEF Complete
  <2> QED
    BY <2>3, <2>7, <2>8 DEF Complete
<1>5. CASE ~(Evaluate \/ RunQuery \/ (\E i \in Items : Change(i)))
  <2>1. CASE SkipQuery \/ QueryFails \/ DeltaAnswered \/ DeltaRejected \/ Restart
    <3>1. pc' = "idle"
      BY <2>1 DEF SkipQuery, QueryFails, DeltaAnswered, DeltaRejected, Restart, FinishSync
    <3> QED
      BY <3>1 DEF InQuery
  <2>2. CASE RunHandler
    <3>1. Head(handlerQueue) \in HandlerBlock
      BY <2>2, FirstAndRest DEF RunHandler, TypeInv, App, Queued
    <3>2. pc' = "idle" \/ (pc' = pc /\ query' = query /\ log' = log /\ unanswered' = unanswered)
      BY <2>2, <3>1, HandlerBlockIs DEF RunHandler, FinishSync, sync, backend
    <3>3. pc' = "idle" => ~InQuery'
      BY DEF InQuery
    <3> QED
      BY <1>3, <3>2, <3>3 DEF InQuery
  <2>3. CASE ~(SkipQuery \/ QueryFails \/ DeltaAnswered \/ DeltaRejected \/ Restart \/ RunHandler)
    <3>1. query' = query /\ log' = log /\ unanswered' = unanswered
      BY <1>5, <2>3 DEF Next, vars, backend, sync, history, Tick, Drop, Reconnect, CloseOld, Connected,
         SubscribeFails, Subscribed, Arrive, Deliver, RunStore, BeginSync, TimerFires, BaseAnswered,
         BaseRejected, SyncNotice, Cancel
    <3>2. pc' = pc \/ pc' \notin {"querying", "answered"} \/ pc = "querying"
      BY <1>5, <2>3 DEF Next, vars, sync, Tick, Drop, Reconnect, CloseOld, Connected,
         SubscribeFails, Subscribed, Arrive, Deliver, RunStore, BeginSync, TimerFires, BaseAnswered,
         BaseRejected, SyncNotice, Cancel
    <3> QED
      BY <1>3, <3>1, <3>2 DEF InQuery
  <2> QED
    BY <2>1, <2>2, <2>3
<1> QED
  BY <1>1, <1>2, <1>4, <1>5

(* Apart from those that end a sync, no step makes a time due beyond those *)
(* that are.                                                               *)
DeltaEnds == DeltaAnswered \/ DeltaRejected
BaseEnds == RunHandler /\ Head(handlerQueue).kind \in Ends

LEMMA DueStep ==
  ASSUME TypeInv, [Next]_vars, Recoverable, CoverInv, ~(DeltaEnds \/ BaseEnds),
         NEW T \in Due'
  PROVE  \E U \in Due : T =< U
<1>1. T \in Int /\ T # None /\ now \in Nat /\ Slack \in Nat
  BY NoneAssumption, Numbers DEF Due
<1>2. ~SkipQuery /\ ~QueryFails /\ ~Restart
  <2>1. ~(crashes < MaxCrashes)
    BY DEF Recoverable, CoverInv
  <2> QED
    BY <2>1 DEF Recoverable, SkipQuery, QueryFails, Restart
<1>3. T \in Due => \E U \in Due : T =< U
  BY <1>1
<1>4. ASSUME UNCHANGED <<savedSyncTime, lastSyncTime, pc, query, deliveries, now>> PROVE T \in Due
  BY <1>4 DEF Due, InQuery
<1>5. CASE Tick
  <2>1. UNCHANGED <<savedSyncTime, lastSyncTime, pc, query, deliveries>>
    BY <1>5 DEF Tick, sync, times, queue
  <2>3. T \in Due
    BY <2>1 DEF Due, InQuery
  <2> QED
    BY <1>3, <2>3
<1>6. CASE BeginSync
  <2>1. /\ lastSyncTime' \in {lastSyncTime, savedSyncTime}
        /\ UNCHANGED <<savedSyncTime, deliveries, now>> /\ ~InQuery' /\ pc' # "answered"
    BY <1>6 DEF BeginSync, backend, InQuery
  <2>2. T \in Due
    BY <2>1 DEF Due
  <2> QED
    BY <1>3, <2>2
<1>7. CASE RunQuery
  <2>1. /\ UNCHANGED <<savedSyncTime, lastSyncTime, deliveries>> /\ pc' = "querying"
        /\ query'.since = lastSyncTime
    BY <1>7 DEF RunQuery, times, queue
  <2>2. T \in Due
    BY <2>1 DEF Due
  <2> QED
    BY <1>3, <2>2
<1>8. CASE Evaluate
  <2>1. /\ UNCHANGED <<savedSyncTime, lastSyncTime, deliveries>> /\ pc' = "querying" /\ pc = "querying"
    BY <1>8 DEF Evaluate, times, queue
  <2>2. query'.since = query.since
    <3>1. query \in Question
      BY <2>1 DEF TypeInv, App, Asking
    <3>2. query.since = query'.since
      BY <1>8, <3>1 DEF Evaluate, Question
    <3> QED
      BY <3>2
  <2>3. T \in Due
    BY <2>1, <2>2 DEF Due, InQuery
  <2> QED
    BY <1>3, <2>3
<1>9. CASE Deliver
  <2>1. /\ UNCHANGED <<savedSyncTime, lastSyncTime, pc, query, now>> /\ deliveries # <<>>
        /\ (deliveries' = deliveries \/ deliveries' = Tail(deliveries))
    BY <1>9 DEF Deliver, sync, times, backend
  <2>2. CASE deliveries' = deliveries
    BY <1>3, <1>4, <2>1, <2>2
  <2>3. CASE deliveries' = Tail(deliveries)
    <3>1. \A n \in DOMAIN deliveries' : \E m \in DOMAIN deliveries : deliveries'[n] = deliveries[m]
      BY <2>1, <2>3, TailIsFrom DEF TypeInv, App, Queued
    <3>2. T \in Due
      BY <2>1, <3>1 DEF Due, InQuery
    <3> QED
      BY <1>3, <3>2
  <2> QED
    BY <2>1, <2>2, <2>3
<1>10. CASE RunStore
  <2> DEFINE b == Head(storeQueue)
             m == Head(deliveries)
  <2>1. UNCHANGED <<pc, query, now>> /\ storeQueue # <<>>
    BY <1>10 DEF RunStore, sync, backend
  <2>2. b \in StoreBlock /\ b = storeQueue[1] /\ 1 \in DOMAIN storeQueue
    BY <2>1, FirstAndRest DEF TypeInv, App, Queued
  <2>3. CASE b.kind # "held"
    <3>1. UNCHANGED <<savedSyncTime, lastSyncTime, deliveries>>
      BY <1>10, <2>2, <2>3, StoreBlockIs DEF RunStore, times
    <3> QED
      BY <1>3, <1>4, <2>1, <3>1
  <2>4. CASE b.kind = "held"
    <3>1. deliveries' = Tail(deliveries) /\ savedSyncTime' = m.date - Slack /\ lastSyncTime' = m.date - Slack
      BY <1>10, <2>4 DEF RunStore, setLastSyncTime
    <3>2. Held(storeQueue) # {}
      BY <2>2, <2>4 DEF Held
    <3>3. deliveries # <<>> /\ ~m.live
      BY <3>2 DEF TypeInv, App, HeadWaits
    <3>4. m = deliveries[1] /\ 1 \in DOMAIN deliveries
      BY <3>3, FirstAndRest DEF TypeInv, App, Queued
    <3>5. \A n \in DOMAIN deliveries' : \E l \in DOMAIN deliveries : deliveries'[n] = deliveries[l]
      BY <3>1, <3>3, TailIsFrom DEF TypeInv, App, Queued
    <3> HIDE DEF m
    <3>6. T \in Due
      BY <2>1, <3>1, <3>3, <3>4, <3>5 DEF Due, InQuery
    <3> QED
      BY <1>3, <3>6
  <2> QED
    BY <2>3, <2>4
<1>11. CASE RunHandler
  <2> DEFINE b == Head(handlerQueue)
  <2>1. now' = now /\ handlerQueue # <<>>
    BY <1>11 DEF RunHandler, backend
  <2>2. b \in HandlerBlock /\ b = handlerQueue[1] /\ 1 \in DOMAIN handlerQueue
    BY <2>1, FirstAndRest DEF TypeInv, App, Queued
  <2>3. CASE b.kind = "message"
    <3>1. UNCHANGED <<savedSyncTime, lastSyncTime, pc, query>> /\ appendMessage(b.change)
      BY <1>11, <2>3 DEF RunHandler, sync, times
    <3>2. \A n \in DOMAIN deliveries' : ~deliveries'[n].live
            => \E l \in DOMAIN deliveries : deliveries'[n] = deliveries[l]
      <4> DEFINE d == Delivery(b.change, TRUE)
      <4>1. deliveries' = deliveries \/ deliveries' = Append(deliveries, d)
        BY <3>1 DEF appendMessage
      <4>2. d.live = TRUE
        BY DEF Delivery
      <4> HIDE DEF d
      <4>3. PICK S : deliveries \in Seq(S)
        BY DEF TypeInv, App, Queued
      <4>4. deliveries \in Seq(S \cup {d})
        BY <4>3, SeqWiden
      <4>5. /\ DOMAIN deliveries = 1..Len(deliveries) /\ Len(deliveries) \in Nat
            /\ DOMAIN Append(deliveries, d) = 1..(Len(deliveries) + 1)
            /\ Append(deliveries, d)[Len(deliveries) + 1] = d
            /\ \A n \in 1..Len(deliveries) : Append(deliveries, d)[n] = deliveries[n]
        BY <4>4, SeqAdd
      <4>6. \A n \in 1..(Len(deliveries) + 1) : n \in 1..Len(deliveries) \/ n = Len(deliveries) + 1
        BY <4>5
      <4> QED
        BY <4>1, <4>2, <4>5, <4>6
    <3>3. T \in Due
      BY <2>1, <3>1, <3>2 DEF Due, InQuery
    <3> QED
      BY <1>3, <3>3
  <2>4. CASE b.kind = "show"
    <3>1. UNCHANGED <<savedSyncTime, lastSyncTime, pc, query, deliveries>>
      BY <1>11, <2>4 DEF RunHandler, sync, times, queue
    <3> QED
      BY <1>3, <1>4, <2>1, <3>1
  <2>5. b.kind \notin Ends
    BY <1>11 DEF BaseEnds
  <2> QED
    BY <2>2, <2>3, <2>4, <2>5, HandlerBlockIs DEF Ends
<1>12. CASE Connected \/ SubscribeFails
  <2>1. /\ UNCHANGED <<savedSyncTime, lastSyncTime, deliveries>> /\ ~InQuery'
    BY <1>12 DEF Connected, SubscribeFails, times, queue, InQuery
  <2>2. T \in Due
    BY <2>1 DEF Due
  <2> QED
    BY <1>3, <2>2
<1>14. CASE BaseAnswered \/ BaseRejected
  <2>1. UNCHANGED <<savedSyncTime, lastSyncTime, deliveries, query>> /\ InQuery
    BY <1>14 DEF BaseAnswered, BaseRejected, times, queue, InQuery
  <2>2. T \in Due
    BY <2>1 DEF Due
  <2> QED
    BY <1>3, <2>2
<1>13. CASE Drop \/ Reconnect \/ CloseOld \/ Subscribed \/ Arrive \/ TimerFires \/ SyncNotice
            \/ Cancel \/ (\E i \in Items : Change(i)) \/ UNCHANGED vars
  <2>1. UNCHANGED <<savedSyncTime, lastSyncTime, pc, query, deliveries, now>>
    BY <1>13 DEF Drop, Reconnect, CloseOld, Subscribed, Arrive, TimerFires, SyncNotice, Cancel, Change, vars,
       backend, sync, times, queue
  <2> QED
    BY <1>3, <1>4, <2>1
<1> QED
  BY <1>2, <1>5, <1>6, <1>7, <1>8, <1>9, <1>10, <1>11, <1>12, <1>13, <1>14 DEF Next, DeltaEnds

LEMMA UnansweredStays ==
  ASSUME TypeInv, [Next]_vars, ~(DeltaEnds \/ BaseEnds)
  PROVE  unanswered' = unanswered
<1>1. CASE RunHandler
  <2>1. Head(handlerQueue) \in HandlerBlock
    BY <1>1, FirstAndRest DEF RunHandler, TypeInv, App, Queued
  <2>2. Head(handlerQueue).kind \in {"message", "show"}
    BY <1>1, <2>1, HandlerBlockIs DEF BaseEnds, Ends
  <2> QED
    BY <1>1, <2>2 DEF RunHandler
<1>2. CASE ~RunHandler
  BY <1>2 DEF Next, vars, history, Tick, Drop, Reconnect, CloseOld, Connected, SubscribeFails,
     Subscribed, Arrive, Deliver, RunStore, BeginSync, RunQuery, SkipQuery, TimerFires, Evaluate,
     BaseAnswered, DeltaEnds, BaseRejected, QueryFails, SyncNotice, Cancel, Restart, Change
<1> QED
  BY <1>1, <1>2

LEMMA SyncEnds ==
  ASSUME TypeInv', DeltaEnds \/ BaseEnds
  PROVE  UNCHANGED <<now, log>> /\ pc' = "idle" /\ ~WithData'
<1>1. UNCHANGED <<now, log>> /\ pc' = "idle"
  BY DEF DeltaEnds, BaseEnds, DeltaAnswered, DeltaRejected, RunHandler, FinishSync, Ends, backend
<1>2. Bases(handlerQueue') = {}
  BY <1>1 DEF TypeInv, App, OneBase
<1> QED
  BY <1>1, <1>2 DEF Bases, WithData, Ends

(* The times due once a sync has ended.                                    *)
LEMMA DueAfterSync ==
  ASSUME TypeInv, TypeInv', UNCHANGED <<now, log>>, NEW T \in Due'
  PROVE  T \in Int /\ T =< now - Slack
<1>1. T \in Int /\ T # None
  BY NoneAssumption DEF Due
<1>2. /\ lastSyncTime' \in SoFar /\ savedSyncTime' \in SoFar
      /\ InQuery' => query'.since \in SoFar
      /\ deliveries' \in Seq(HeldMessage)
  BY SameTypes DEF TypeInv, App, Clocks, Asking, Question, InQuery, Queued
<1>3. \A n \in DOMAIN deliveries' : deliveries'[n].date \in 0..now
  <2> TAKE n \in DOMAIN deliveries'
  <2>1. deliveries'[n] \in HeldMessage
    BY <1>2, SeqAt
  <2> QED
    BY <2>1 DEF HeldMessage
<1> QED
  BY <1>1, <1>2, <1>3, SinceInSoFar, Numbers DEF Due

(* An answer brings the store up to what may be a travel time ago.         *)
LEMMA AnswerReaches ==
  ASSUME TypeInv, TypeInv', Grown, Recoverable, CoverInv, BaseAnswered \/ DeltaAnswered,
         NEW m, m = unanswered \/ BaseAnswered
  PROVE  Reaches(now - Slack, m)'
<1> DEFINE v == query.answer[1]
<1>1. pc = "querying" /\ query.answer # <<>> /\ log' = log /\ now' = now /\ InQuery
  BY DEF BaseAnswered, DeltaAnswered, backend, InQuery
<1>2. Complete /\ v \in Real /\ query.evaluatedAt \in Nat /\ now - Slack =< query.evaluatedAt
  BY <1>1, AnswerIs, AnswerIsCurrent DEF CoverInv, Recoverable
<1> SUFFICES ASSUME NEW k \in DOMAIN log, k > m, log[k].time < now - Slack
             PROVE  ComingOf(storeQueue', store', log[k].item) >= k
  BY <1>1, ComingIs DEF Reaches
<1> DEFINE i == log[k].item
<1>3. i \in Items /\ k \in Nat /\ log[k].time \in Nat /\ ~(log[k].time >= query.evaluatedAt)
  BY <1>2, Numbers
<1>4. Within(k, v)
  BY <1>1, <1>2 DEF Complete
<1>5. ComingOf(storeQueue', store', i) = IF i \in DOMAIN v THEN v[i] ELSE ComingOf(storeQueue, store, i)
  BY <1>3, AnswerIsPublished
<1>6. CASE i \in DOMAIN v
  <2>1. v[i] \in Nat /\ ~(k > v[i])
    BY <1>2, <1>3, <1>4, <1>6, RealVersions DEF Within
  <2> QED
    BY <1>3, <1>5, <1>6, <2>1
<1>7. CASE i \notin DOMAIN v
  <2>1. log[k].time < query.since /\ query.method # "base"
    BY <1>1, <1>2, <1>3, <1>4, <1>7 DEF Within, Complete
  <2>5. m = unanswered
    BY <2>1 DEF BaseAnswered
  <2>2. query.since \in Int
    BY <1>1, <2>1, SinceInSoFar DEF TypeInv, App, Asking, Question
  <2>3. Reach(query.since)
    BY <1>1, <2>2 DEF CoverInv, Due
  <2>4. ComingOf(storeQueue, store, i) >= k
    BY <2>1, <2>3, <2>5, ComingIs DEF Reach, Reaches
  <2> QED
    BY <1>5, <1>7, <2>4
<1> QED
  BY <1>6, <1>7

LEMMA LaterReaches ==
  ASSUME TypeInv, NEW T \in Int, NEW U \in Int, T =< U, NEW m, Reaches(U, m)
  PROVE  Reaches(T, m)
BY Numbers DEF Reaches

(* A sync that ends, with data or without: what is due afterwards.         *)
LEMMA EndReaches ==
  ASSUME TypeInv, TypeInv', Grown, Recoverable, CoverInv, DeltaEnds \/ BaseEnds, NEW T \in Due'
  PROVE  Reach(T)'
<1>1. UNCHANGED <<now, log>> /\ pc' = "idle"
  BY SyncEnds
<1>2. T \in Int /\ T =< now - Slack
  BY <1>1, DueAfterSync
<1>4. \A k \in DOMAIN log : k =< Len(log) /\ log[k].time \in Nat /\ k \in Nat
  <2>1. DOMAIN log = 1..Len(log)
    BY DEF TypeInv, World
  <2> QED
    BY <2>1, Numbers
<1>5. ASSUME unanswered' = Len(log) PROVE Reach(T)'
  <2>1. \A k \in DOMAIN log : ~(k > unanswered')
    BY <1>4, <1>5 DEF TypeInv, World
  <2> QED
    BY <1>1, <2>1 DEF Reach, Reaches
<1>6. ASSUME NEW m, m = unanswered', Reaches(now - Slack, m)' PROVE Reach(T)'
  BY <1>1, <1>2, <1>4, <1>6, Numbers DEF Reach, Reaches
<1>7. CASE DeltaAnswered
  <2>1. PICK m : m = unanswered
    OBVIOUS
  <2>2. unanswered' = unanswered
    BY <1>7 DEF DeltaAnswered, history
  <2>3. Reaches(now - Slack, m)'
    BY <1>7, <2>1, AnswerReaches
  <2> QED
    BY <1>6, <2>1, <2>2, <2>3
<1>8. CASE DeltaRejected
  BY <1>5, <1>8 DEF DeltaRejected
<1>9. CASE BaseEnds
  <2> DEFINE b == Head(handlerQueue)
  <2>1. b \in HandlerBlock /\ b = handlerQueue[1] /\ 1 \in DOMAIN handlerQueue
    BY <1>9, FirstAndRest DEF BaseEnds, RunHandler, TypeInv, App, Queued
  <2>2. CASE b.kind = "rejected"
    BY <1>5, <1>9, <2>2 DEF BaseEnds, RunHandler
  <2>3. CASE b.kind = "base"
    <3>1. unanswered' = 0 /\ UNCHANGED <<store, storeQueue>>
      BY <1>9, <2>3 DEF BaseEnds, RunHandler
    <3>2. Reaches(now - Slack, 0)
      BY <2>1, <2>3 DEF CoverInv, WithData
    <3>3. Reaches(now - Slack, 0)'
      BY <1>1, <3>1, <3>2, ComingIs DEF Reaches
    <3> QED
      BY <1>6, <3>1, <3>3
  <2> QED
    BY <1>9, <2>2, <2>3 DEF BaseEnds, Ends
<1> QED
  BY <1>7, <1>8, <1>9 DEF DeltaEnds

(* A base result that waits stays as it is.                                *)
LEMMA DataWaits ==
  ASSUME TypeInv, TypeInv', Grown, [Next]_vars, Recoverable, CoverInv, ~(DeltaEnds \/ BaseEnds)
  PROVE  (WithData => Reaches(now - Slack, 0))'
<1>1. now - Slack \in Int /\ now - Slack =< now - Slack
  BY Numbers
<1>2. CASE BaseAnswered
  <2>1. now' = now /\ Reaches(now - Slack, 0)'
    BY <1>2, AnswerReaches DEF BaseAnswered, backend
  <2> QED
    BY <2>1
<1>3. CASE Tick
  <2>1. handlerQueue' = <<>>
    BY <1>3 DEF Tick, Drained, Recoverable, queues
  <2> QED
    BY <2>1 DEF WithData
<1>4. ASSUME WithData, now' = now PROVE Reaches(now - Slack, 0)'
  <2>1. PICK T : T = now - Slack
    OBVIOUS
  <2>2. Reaches(T, 0)
    BY <1>4, <2>1 DEF CoverInv
  <2>3. Reaches(T, 0)'
    BY <1>1, <2>1, <2>2, StepKeeps, ReachIsKept DEF TypeInv
  <2> QED
    BY <1>4, <2>1, <2>3 DEF Reaches
<1>5. ASSUME now' = now, WithData' => WithData PROVE (WithData => Reaches(now - Slack, 0))'
  BY <1>4, <1>5
<1>6. CASE RunHandler
  <2>1. now' = now /\ handlerQueue # <<>> /\ handlerQueue' = Tail(handlerQueue)
    BY <1>6 DEF RunHandler, backend
  <2>2. From(handlerQueue', handlerQueue)
    BY <2>1, TailIsFrom DEF TypeInv, App, Queued, From, IsSeq
  <2> QED
    BY <1>5, <2>1, <2>2 DEF From, WithData
<1>7. ASSUME NEW b, b.kind # "base", handlerQueue' = Append(handlerQueue, b) PROVE WithData' => WithData
  <2>1. PICK S : handlerQueue \in Seq(S)
    BY DEF TypeInv, App, Queued
  <2>2. handlerQueue \in Seq(S \cup {b})
    BY <2>1, SeqWiden
  <2>3. /\ DOMAIN handlerQueue = 1..Len(handlerQueue) /\ Len(handlerQueue) \in Nat
        /\ DOMAIN Append(handlerQueue, b) = 1..(Len(handlerQueue) + 1)
        /\ Append(handlerQueue, b)[Len(handlerQueue) + 1] = b
        /\ \A n \in 1..Len(handlerQueue) : Append(handlerQueue, b)[n] = handlerQueue[n]
    BY <2>2, SeqAdd
  <2>4. \A n \in 1..(Len(handlerQueue) + 1) : n \in 1..Len(handlerQueue) \/ n = Len(handlerQueue) + 1
    BY <2>3
  <2> QED
    BY <1>7, <2>3, <2>4 DEF WithData
<1>8. CASE BaseRejected
  <2>1. now' = now /\ handlerQueue' = Append(handlerQueue, [kind |-> "rejected"])
    BY <1>8 DEF BaseRejected, backend
  <2>2. [kind |-> "rejected"].kind # "base"
    OBVIOUS
  <2> QED
    BY <1>5, <1>7, <2>1, <2>2
<1>9. CASE Deliver \/ RunStore
  <2> DEFINE s == Show(Version(Head(deliveries).change))
             b == Head(storeQueue)
  <2>1. s.kind # "base"
    BY BlockKinds
  <2>2. RunStore => b \in StoreBlock
    BY FirstAndRest DEF RunStore, TypeInv, App, Queued
  <2>3. RunStore => b.kind # "base"
    BY <2>2, StoreBlockIs
  <2>4. now' = now /\ \/ handlerQueue' = handlerQueue
                      \/ handlerQueue' = Append(handlerQueue, s)
                      \/ RunStore /\ handlerQueue' = Append(handlerQueue, b)
    BY <1>9, <2>2, StoreBlockIs DEF Deliver, RunStore, backend
  <2> HIDE DEF s, b
  <2> QED
    BY <1>5, <1>7, <2>1, <2>3, <2>4 DEF WithData
<1>10. CASE ~(BaseAnswered \/ Tick \/ RunHandler \/ BaseRejected \/ Deliver \/ RunStore)
  <2>1. ~Restart /\ ~DeltaAnswered /\ ~DeltaRejected
    BY DEF Restart, Recoverable, CoverInv, DeltaEnds
  <2>2. UNCHANGED <<now, handlerQueue>>
    BY <1>10, <2>1 DEF Next, vars, backend, queues, Drop, Reconnect, CloseOld, Connected,
       SubscribeFails, Subscribed, Change, Arrive, BeginSync, RunQuery, SkipQuery, TimerFires,
       Evaluate, QueryFails, SyncNotice, Cancel
  <2> QED
    BY <1>5, <2>2 DEF WithData
<1> QED
  BY <1>2, <1>3, <1>6, <1>8, <1>9, <1>10

LEMMA CoverStep ==
  ASSUME TypeInv, TypeInv', Grown, [Next]_vars, Recoverable, CoverInv
  PROVE  CoverInv'
<1>1. World'
  BY DEF TypeInv
<1>2. (InQuery => Complete)'
  BY <1>1, StaysComplete DEF CoverInv
<1>3. crashes' = 0
  <2>1. ~(crashes < MaxCrashes)
    BY DEF Recoverable, CoverInv
  <2>2. CASE RunHandler
    BY <2>2 DEF RunHandler, bounds, CoverInv
  <2>3. CASE ~RunHandler
    BY <2>1, <2>3 DEF Next, CoverInv, vars, bounds, Tick, Drop, Reconnect, CloseOld, Connected,
         SubscribeFails, Subscribed, Change, Arrive, Deliver, RunStore, BeginSync, RunQuery, SkipQuery,
         TimerFires, Evaluate, BaseAnswered, DeltaAnswered, BaseRejected, DeltaRejected, QueryFails,
         SyncNotice, Cancel, Restart
  <2> QED
    BY <2>2, <2>3
<1>4. ASSUME NEW T \in Due' PROVE Reach(T)'
  <2>1. T \in Int
    BY DEF Due
  <2>2. CASE DeltaEnds \/ BaseEnds
    BY <2>2, EndReaches
  <2>3. CASE ~(DeltaEnds \/ BaseEnds)
    <3>1. PICK U \in Due : T =< U
      BY <2>3, DueStep
    <3>2. PICK m : m = unanswered
      OBVIOUS
    <3>3. U \in Int /\ U =< now - Slack /\ Reaches(U, m)
      BY <3>2, DueIsBounded DEF CoverInv, Reach
    <3>4. Reaches(T, m) /\ T =< now - Slack
      BY <2>1, <3>1, <3>3, LaterReaches, Numbers
    <3>5. Reaches(T, m)'
      BY <1>1, <2>1, <3>4, StepKeeps, ReachIsKept
    <3>6. unanswered' = unanswered
      BY <2>3, UnansweredStays
    <3> QED
      BY <3>2, <3>5, <3>6 DEF Reach
  <2> QED
    BY <2>2, <2>3
<1>5. (WithData => Reaches(now - Slack, 0))'
  <2>1. CASE DeltaEnds \/ BaseEnds
    BY <2>1, SyncEnds
  <2>2. CASE ~(DeltaEnds \/ BaseEnds)
    BY <2>2, DataWaits
  <2> QED
    BY <2>1, <2>2
<1> QED
  BY <1>2, <1>3, <1>4, <1>5 DEF CoverInv

LEMMA MarksAreNumbers ==
  ASSUME TypeInv, NEW k \in DOMAIN log
  PROVE  k \in Nat /\ {unanswered, sentFrom, heardFrom} \subseteq Nat
BY Numbers DEF TypeInv, World, Marks

LEMMA InitCover == Init => CoverInv
<1> SUFFICES ASSUME Init PROVE CoverInv
  OBVIOUS
<1>1. DOMAIN log = {} /\ pc = "idle" /\ crashes = 0
  BY DEF Init
<1>2. ~InQuery /\ \A T : Reach(T)
  BY <1>1 DEF InQuery, Reach, Reaches
<1>3. ~WithData
  BY DEF Init, WithData
<1> QED
  BY <1>1, <1>2, <1>3 DEF CoverInv

(* Where what is on its way arrives within the time that is taken off,     *)
(* every query is answered and the app's queues keep up, a change from     *)
(* before the saved time, for which no later delta query asks, is in the   *)
(* store or on its way there: whatever connections, messages and requests  *)
(* to subscribe are lost, doubled, reordered or cancelled.  Only what was  *)
(* there when an answer without data last passed for a sync may be lacking,*)
(* and no longer than until a base query brings data.                      *)
THEOREM NoneSkipped == ASSUME Recoverable PROVE Spec => []NothingSkipped
<1>1. TypeInv /\ TypeInv' /\ CoverInv /\ [Next]_vars => CoverInv'
  BY WorldGrows, CoverStep DEF TypeInv
<1>2. TypeInv /\ CoverInv => NothingSkipped
  <2> SUFFICES ASSUME TypeInv, CoverInv, savedSyncTime # None PROVE Reach(savedSyncTime)
    BY MarksAreNumbers DEF NothingSkipped, Reach, Reaches
  <2>1. savedSyncTime \in Int
    BY SinceInSoFar DEF TypeInv, App, Clocks
  <2> QED
    BY <2>1 DEF CoverInv, Due
<1> QED
  BY <1>1, <1>2, InitCover, TypeInvariant, PTL DEF Spec

-----------------------------------------------------------------------------
(* Where a change may be on its way to the app.                            *)

(* Moreover a request to subscribe succeeds: one that failed would leave   *)
(* the sync without a query.                                               *)
Steady == Recoverable /\ ~SubscribingFails

(* A block, a queue of blocks, a queue of messages that gives the app      *)
(* version k of an item or a newer one.                                    *)
Shows(b, i, k) ==
  \/ b.kind = "message" /\ b.change = k
  \/ b.kind \in {"show", "base"} /\ i \in DOMAIN b.versions /\ b.versions[i] >= k
ShownBy(q, i, k) == \E n \in DOMAIN q : Shows(q[n], i, k)
Carried(q, k) == \E n \in DOMAIN q : q[n].change = k
OnWire(k) == k > sentFrom /\ \E n \in DOMAIN wire : wire[n] = k
Answered(i, k) ==
  pc = "querying" /\ query.answer # <<>> /\ i \in DOMAIN query.answer[1] /\ query.answer[1][i] >= k

Lands(i, k) ==
  \/ seen[i] >= k
  \/ OnWire(k)
  \/ ShownBy(storeQueue, i, k) \/ ShownBy(handlerQueue, i, k)
  \/ Carried(messages, k) \/ Carried(deliveries, k)
  \/ Answered(i, k)

(* What changed at a time is not older than the last sync time, nor than   *)
(* what the messages that were held back will make of it.                  *)
After(t, q) == \A n \in DOMAIN q : q[n].live \/ t >= q[n].date - Slack
Later(t) == (lastSyncTime # None => t >= lastSyncTime) /\ After(t, deliveries)

(* The query that is sent next, or is on its way, asks for it.             *)
Early == pc \in {"subscribing", "choosing"}
ToBeAsked(t) ==
  \/ Early /\ Later(t)
  \/ pc = "querying" /\ query.answer = <<>> /\ (query.method = "base" \/ t >= query.since)

(* What may be missing: all there is where there is no watcher, and what   *)
(* falls between the SUBSCRIBE of the last sync and the broker's taking a  *)
(* subscription.                                                           *)
Gone == ~watching /\ ~replacing
Missed(k) == Gone \/ (k > sentFrom /\ (listening => k =< heardFrom))
Marked == <<watching, replacing, listening, sentFrom, heardFrom>>

(* The next sync asks for it, whatever is still delivered and answered     *)
(* until it begins.                                                        *)
Owed(t) ==
  /\ Later(t) /\ After(t, messages)
  /\ pc = "idle" \/ (InQuery /\ query.answer # <<>> /\ t >= query.evaluatedAt)

Safe(i, t, k) == Lands(i, k) \/ ToBeAsked(t) \/ (Missed(k) /\ Owed(t))

LEMMA ShownAppended ==
  ASSUME NEW q, IsSeq(q), NEW b, NEW i, NEW k, ShownBy(q, i, k) \/ Shows(b, i, k)
  PROVE  ShownBy(Append(q, b), i, k)
<1>1. PICK S : q \in Seq(S)
  BY DEF IsSeq
<1>2. q \in Seq(S \cup {b})
  BY <1>1, SeqWiden
<1>3. /\ DOMAIN q = 1..Len(q) /\ Len(q) \in Nat
      /\ DOMAIN Append(q, b) = 1..(Len(q) + 1) /\ Append(q, b)[Len(q) + 1] = b
      /\ \A n \in 1..Len(q) : Append(q, b)[n] = q[n]
  BY <1>2, SeqAdd
<1>4. CASE ShownBy(q, i, k)
  <2>1. PICK n \in DOMAIN q : Shows(q[n], i, k)
    BY <1>4 DEF ShownBy
  <2>2. n \in DOMAIN Append(q, b) /\ Append(q, b)[n] = q[n]
    BY <1>3
  <2> QED
    BY <2>1, <2>2 DEF ShownBy
<1>5. CASE Shows(b, i, k)
  <2>1. Len(q) + 1 \in DOMAIN Append(q, b)
    BY <1>3
  <2> QED
    BY <1>3, <1>5, <2>1 DEF ShownBy
<1> QED
  BY <1>4, <1>5

LEMMA CarriedAppended ==
  ASSUME NEW q, IsSeq(q), NEW m, NEW k, Carried(q, k) \/ m.change = k
  PROVE  Carried(Append(q, m), k)
<1>1. PICK S : q \in Seq(S)
  BY DEF IsSeq
<1>2. q \in Seq(S \cup {m})
  BY <1>1, SeqWiden
<1>3. /\ DOMAIN q = 1..Len(q) /\ Len(q) \in Nat
      /\ DOMAIN Append(q, m) = 1..(Len(q) + 1) /\ Append(q, m)[Len(q) + 1] = m
      /\ \A n \in 1..Len(q) : Append(q, m)[n] = q[n]
  BY <1>2, SeqAdd
<1>4. CASE Carried(q, k)
  <2>1. PICK n \in DOMAIN q : q[n].change = k
    BY <1>4 DEF Carried
  <2>2. n \in DOMAIN Append(q, m) /\ Append(q, m)[n] = q[n]
    BY <1>3
  <2> QED
    BY <2>1, <2>2 DEF Carried
<1>5. CASE m.change = k
  <2>1. Len(q) + 1 \in DOMAIN Append(q, m)
    BY <1>3
  <2> QED
    BY <1>3, <1>5, <2>1 DEF Carried
<1> QED
  BY <1>4, <1>5

(* Joining two sequences loses nothing of either.                          *)
LEMMA BothJoined ==
  ASSUME NEW q, NEW r, IsSeq(q), IsSeq(r)
  PROVE  /\ \A n \in DOMAIN q : n \in DOMAIN (q \o r) /\ (q \o r)[n] = q[n]
         /\ \A n \in DOMAIN r : \E m \in DOMAIN (q \o r) : (q \o r)[m] = r[n]
<1>1. PICK S, T : q \in Seq(S) /\ r \in Seq(T)
  BY DEF IsSeq
<1>2. q \in Seq(S \cup T) /\ r \in Seq(S \cup T)
  BY <1>1, SeqWiden
<1>3. /\ Len(q) \in Nat /\ Len(r) \in Nat /\ DOMAIN q = 1..Len(q) /\ DOMAIN r = 1..Len(r)
      /\ DOMAIN (q \o r) = 1..(Len(q) + Len(r))
      /\ \A n \in 1..(Len(q) + Len(r)) :
           (q \o r)[n] = IF n =< Len(q) THEN q[n] ELSE r[n - Len(q)]
  BY <1>2, SeqJoin
<1> DEFINE s == q \o r
<1>4. \A n \in DOMAIN q : n \in DOMAIN s /\ s[n] = q[n]
  BY <1>3
<1>5. ASSUME NEW n \in DOMAIN r PROVE \E m \in DOMAIN s : s[m] = r[n]
  <2>1. n + Len(q) \in 1..(Len(q) + Len(r)) /\ ~(n + Len(q) =< Len(q)) /\ (n + Len(q)) - Len(q) = n
    BY <1>3
  <2> QED
    BY <1>3, <2>1
<1> QED
  BY <1>4, <1>5

LEMMA ShownJoined ==
  ASSUME NEW q, NEW r, IsSeq(q), IsSeq(r), NEW i, NEW k, ShownBy(q, i, k) \/ ShownBy(r, i, k)
  PROVE  ShownBy(q \o r, i, k)
<1> DEFINE s == q \o r
<1>1. /\ \A n \in DOMAIN q : n \in DOMAIN s /\ s[n] = q[n]
      /\ \A n \in DOMAIN r : \E m \in DOMAIN s : s[m] = r[n]
  BY BothJoined
<1> HIDE DEF s
<1>2. ShownBy(s, i, k)
  BY <1>1 DEF ShownBy
<1> QED
  BY <1>2 DEF s

LEMMA CarriedJoined ==
  ASSUME NEW q, NEW r, IsSeq(q), IsSeq(r), NEW k, Carried(q, k) \/ Carried(r, k)
  PROVE  Carried(q \o r, k)
<1> DEFINE s == q \o r
<1>1. /\ \A n \in DOMAIN q : n \in DOMAIN s /\ s[n] = q[n]
      /\ \A n \in DOMAIN r : \E m \in DOMAIN s : s[m] = r[n]
  BY BothJoined
<1> HIDE DEF s
<1>2. Carried(s, k)
  BY <1>1 DEF Carried
<1> QED
  BY <1>2 DEF s

(* What a sequence holds is its head or in its tail.                       *)
LEMMA HeadOrTail ==
  ASSUME NEW q, IsSeq(q), q # <<>>, NEW n \in DOMAIN q
  PROVE  q[n] = Head(q) \/ \E m \in DOMAIN Tail(q) : Tail(q)[m] = q[n]
<1>1. PICK S : q \in Seq(S)
  BY DEF IsSeq
<1>2. /\ Head(q) = q[1] /\ Len(q) \in Nat \ {0}
      /\ DOMAIN q = 1..Len(q) /\ DOMAIN Tail(q) = 1..(Len(q) - 1)
      /\ \A m \in 1..(Len(q) - 1) : Tail(q)[m] = q[m + 1]
  BY <1>1, FirstAndRest
<1>3. CASE n # 1
  <2>1. n - 1 \in 1..(Len(q) - 1) /\ (n - 1) + 1 = n
    BY <1>2, <1>3
  <2> QED
    BY <1>2, <2>1
<1> QED
  BY <1>2, <1>3

LEMMA ShownTail ==
  ASSUME NEW q, IsSeq(q), q # <<>>, NEW i, NEW k, ShownBy(q, i, k)
  PROVE  Shows(Head(q), i, k) \/ ShownBy(Tail(q), i, k)
BY HeadOrTail DEF ShownBy

LEMMA CarriedTail ==
  ASSUME NEW q, IsSeq(q), q # <<>>, NEW k, Carried(q, k)
  PROVE  Head(q).change = k \/ Carried(Tail(q), k)
BY HeadOrTail DEF Carried

LEMMA AfterAppended ==
  ASSUME NEW q, IsSeq(q), NEW m, NEW t, After(t, q), m.live \/ t >= m.date - Slack
  PROVE  After(t, Append(q, m))
<1>1. PICK S : q \in Seq(S)
  BY DEF IsSeq
<1>2. q \in Seq(S \cup {m})
  BY <1>1, SeqWiden
<1>3. /\ DOMAIN q = 1..Len(q) /\ Len(q) \in Nat
      /\ DOMAIN Append(q, m) = 1..(Len(q) + 1) /\ Append(q, m)[Len(q) + 1] = m
      /\ \A n \in 1..Len(q) : Append(q, m)[n] = q[n]
  BY <1>2, SeqAdd
<1>4. \A n \in 1..(Len(q) + 1) : n \in 1..Len(q) \/ n = Len(q) + 1
  BY <1>3
<1> QED
  BY <1>3, <1>4 DEF After

(* What a joined sequence holds is in one of the two.                      *)
LEMMA OneOfBoth ==
  ASSUME NEW q, NEW r, IsSeq(q), IsSeq(r), NEW n \in DOMAIN (q \o r)
  PROVE  (\E m \in DOMAIN q : (q \o r)[n] = q[m]) \/ (\E m \in DOMAIN r : (q \o r)[n] = r[m])
<1>1. PICK S, T : q \in Seq(S) /\ r \in Seq(T)
  BY DEF IsSeq
<1>2. q \in Seq(S \cup T) /\ r \in Seq(S \cup T)
  BY <1>1, SeqWiden
<1>3. /\ Len(q) \in Nat /\ Len(r) \in Nat /\ DOMAIN q = 1..Len(q) /\ DOMAIN r = 1..Len(r)
      /\ DOMAIN (q \o r) = 1..(Len(q) + Len(r))
      /\ \A m \in 1..(Len(q) + Len(r)) :
           (q \o r)[m] = IF m =< Len(q) THEN q[m] ELSE r[m - Len(q)]
  BY <1>2, SeqJoin
<1>4. CASE n =< Len(q)
  BY <1>3, <1>4
<1>5. CASE ~(n =< Len(q))
  <2>1. n - Len(q) \in DOMAIN r
    BY <1>3, <1>5
  <2> QED
    BY <1>3, <1>5, <2>1
<1> QED
  BY <1>4, <1>5

LEMMA JoinedHolds ==
  ASSUME NEW q, NEW r, IsSeq(q), IsSeq(r), NEW s, s = q \o r
  PROVE  \A n \in DOMAIN s : (\E m \in DOMAIN q : s[n] = q[m]) \/ (\E m \in DOMAIN r : s[n] = r[m])
BY OneOfBoth

LEMMA AfterJoined ==
  ASSUME NEW q, NEW r, IsSeq(q), IsSeq(r), NEW t, After(t, q), After(t, r)
  PROVE  After(t, q \o r)
<1> DEFINE s == q \o r
<1>1. \A n \in DOMAIN s : (\E m \in DOMAIN q : s[n] = q[m]) \/ (\E m \in DOMAIN r : s[n] = r[m])
  BY OneOfBoth
<1> HIDE DEF s
<1>2. After(t, s)
  BY <1>1 DEF After
<1> QED
  BY <1>2 DEF s

(* A tail holds nothing its sequence does not hold.                        *)
LEMMA TailHolds ==
  ASSUME NEW q, IsSeq(q), q # <<>>, NEW t, After(t, q)
  PROVE  After(t, Tail(q)) /\ (Head(q).live \/ t >= Head(q).date - Slack)
<1>1. PICK S : q \in Seq(S)
  BY DEF IsSeq
<1>2. \A n \in DOMAIN Tail(q) : \E m \in DOMAIN q : Tail(q)[n] = q[m]
  BY <1>1, TailIsFrom
<1>3. Head(q) = q[1] /\ 1 \in DOMAIN q
  BY <1>1, FirstAndRest
<1> QED
  BY <1>2, <1>3 DEF After

-----------------------------------------------------------------------------
(* The control of a steady sync.                                           *)

(* A message in the store's queue is not older than it may travel.         *)
Fresh ==
  \A n \in DOMAIN storeQueue :
    storeQueue[n].kind = "message" => now =< log[storeQueue[n].change].time + MaxTravel

(* Without a watcher there is no subscription.                             *)
Silent == Gone => ~listening /\ ~subscribing

(* Outside a sync messages are handed on at once, once there has been one. *)
NotBegun ==
  /\ Gone /\ wire = <<>> /\ messages = <<>>
  /\ deliveries = <<>> /\ DOMAIN storeQueue = {} /\ handlerQueue = <<>>
Handing ==
  /\ isDelivering => messages = <<>>
  /\ pc = "idle" => isDelivering \/ NotBegun

(* The base result that waits for the handler is the answer.               *)
BaseIs ==
  \A n \in DOMAIN handlerQueue :
    handlerQueue[n].kind = "base" => handlerQueue[n].versions = query.answer[1]

(* The saved time is the one in use.                                       *)
Saved == savedSyncTime = lastSyncTime

Counts == crashes = 0

LEMMA SteadySteps ==
  ASSUME [Next]_vars, Steady, Counts
  PROVE  /\ ~SubscribeFails /\ ~SkipQuery /\ ~QueryFails /\ ~Restart
         /\ Counts'
<1>1. ~(crashes < MaxCrashes)
  BY DEF Steady, Recoverable, Counts
<1>2. ~SubscribeFails /\ ~SkipQuery /\ ~QueryFails /\ ~Restart
  BY <1>1 DEF Steady, Recoverable, SubscribeFails, SkipQuery, QueryFails, Restart
<1>3. crashes' = crashes
  <2>1. CASE RunHandler
    BY <2>1 DEF RunHandler, bounds
  <2>2. CASE ~RunHandler
    BY <1>2, <2>2 DEF Next, vars, bounds, Tick, Drop, Reconnect, CloseOld, Connected, Subscribed,
       Change, Arrive, Deliver, RunStore, BeginSync, RunQuery, TimerFires, Evaluate, BaseAnswered,
       DeltaAnswered, BaseRejected, DeltaRejected, SyncNotice, Cancel
  <2> QED
    BY <2>1, <2>2
<1> QED
  BY <1>2, <1>3 DEF Counts

LEMMA SeqsThere ==
  ASSUME TypeInv
  PROVE  /\ IsSeq(storeQueue) /\ IsSeq(handlerQueue) /\ IsSeq(messages) /\ IsSeq(deliveries)
         /\ IsSeq(wire) /\ IsSeq(ops)
BY DEF TypeInv, Lines, App, Queued, Control, IsSeq

(* What the store's queue runs, and what it makes of the times.            *)
LEMMA StoreRuns ==
  ASSUME TypeInv, RunStore
  PROVE  /\ UNCHANGED <<now, log, wire, subscribing>> /\ UNCHANGED Marked
         /\ UNCHANGED <<pc, ops, query, syncStart>> /\ UNCHANGED <<isDelivering, messages, seen>>
         /\ storeQueue # <<>> /\ storeQueue' = Tail(storeQueue) /\ Head(storeQueue) \in StoreBlock
         /\ \/ /\ Head(storeQueue).kind # "held"
               /\ UNCHANGED <<lastSyncTime, savedSyncTime, deliveries>>
               /\ \/ /\ handlerQueue' = Append(handlerQueue, Head(storeQueue))
                     /\ Head(storeQueue).kind \in {"message", "show"}
                  \/ Head(storeQueue).kind \in {"publish", "unheard"} /\ handlerQueue' = handlerQueue
            \/ /\ Head(storeQueue).kind = "held"
               /\ deliveries # <<>> /\ deliveries' = Tail(deliveries) /\ ~Head(deliveries).live
               /\ handlerQueue' = Append(handlerQueue, Show(Version(Head(deliveries).change)))
               /\ lastSyncTime' = Head(deliveries).date - Slack
               /\ savedSyncTime' = Head(deliveries).date - Slack
<1> DEFINE b == Head(storeQueue)
           m == Head(deliveries)
<1>1. /\ UNCHANGED <<now, log, wire, subscribing>> /\ UNCHANGED Marked
      /\ UNCHANGED <<pc, ops, query, syncStart>> /\ UNCHANGED <<isDelivering, messages, seen>>
      /\ storeQueue # <<>> /\ storeQueue' = Tail(storeQueue)
  BY DEF RunStore, backend, link, sync, Marked
<1>2. b \in StoreBlock /\ b = storeQueue[1] /\ 1 \in DOMAIN storeQueue
  BY <1>1, FirstAndRest DEF TypeInv, App, Queued
<1>3. CASE b.kind # "held"
  BY <1>1, <1>2, <1>3, StoreBlockIs DEF RunStore, times
<1>4. CASE b.kind = "held"
  <2>1. Held(storeQueue) # {}
    BY <1>2, <1>4 DEF Held
  <2>2. deliveries # <<>> /\ ~m.live
    BY <2>1 DEF TypeInv, App, HeadWaits
  <2>3. /\ handlerQueue' = Append(handlerQueue, Show(Version(m.change)))
        /\ deliveries' = Tail(deliveries)
        /\ lastSyncTime' = m.date - Slack /\ savedSyncTime' = m.date - Slack
    BY <1>4 DEF RunStore, setLastSyncTime
  <2> QED
    BY <1>1, <1>2, <1>4, <2>2, <2>3
<1> QED
  BY <1>3, <1>4

(* What the handlers' queue runs.                                          *)
LEMMA HandlerRuns ==
  ASSUME TypeInv, RunHandler
  PROVE  /\ UNCHANGED <<now, log, wire, subscribing>> /\ UNCHANGED Marked
         /\ UNCHANGED <<ops, syncStart, storeQueue>>
         /\ handlerQueue # <<>> /\ handlerQueue' = Tail(handlerQueue)
         /\ Head(handlerQueue) \in HandlerBlock
         /\ \/ /\ Head(handlerQueue).kind = "message"
               /\ UNCHANGED <<pc, query, lastSyncTime, savedSyncTime, isDelivering, seen>>
               /\ appendMessage(Head(handlerQueue).change)
            \/ /\ Head(handlerQueue).kind = "show" /\ Display(Head(handlerQueue).versions)
               /\ UNCHANGED <<pc, query, lastSyncTime, savedSyncTime, isDelivering, messages, deliveries>>
            \/ /\ Head(handlerQueue).kind = "base" /\ Display(Head(handlerQueue).versions)
               /\ pc = "answered" /\ pc' = "idle" /\ isDelivering'
               /\ deliveries' = deliveries \o messages /\ messages' = <<>>
               /\ lastSyncTime' = savedSyncTime' /\ lastSyncTime' = query.sentAt - Slack
            \/ /\ Head(handlerQueue).kind = "rejected" /\ unanswered' = Len(log)
               /\ pc = "answered" /\ pc' = "idle" /\ isDelivering' /\ messages' = <<>>
               /\ lastSyncTime' = savedSyncTime'
<1> DEFINE b == Head(handlerQueue)
<1>1. /\ UNCHANGED <<now, log, wire, subscribing>> /\ UNCHANGED Marked /\ storeQueue' = storeQueue
      /\ handlerQueue # <<>> /\ handlerQueue' = Tail(handlerQueue)
  BY DEF RunHandler, backend, link, Marked
<1>2. b \in HandlerBlock /\ b = handlerQueue[1] /\ 1 \in DOMAIN handlerQueue
  BY <1>1, FirstAndRest DEF TypeInv, App, Queued
<1>3. CASE b.kind = "message"
  <2>1. /\ UNCHANGED <<pc, query, ops, syncStart, lastSyncTime, savedSyncTime, seen>>
        /\ appendMessage(b.change)
    BY <1>3 DEF RunHandler, sync, times
  <2> QED
    BY <1>1, <1>2, <1>3, <2>1 DEF appendMessage
<1>4. CASE b.kind = "show"
  BY <1>1, <1>2, <1>4 DEF RunHandler, sync, times, queue
<1>5. CASE b.kind = "base"
  <2>1. pc = "answered"
    BY <1>2, <1>5 DEF TypeInv, App, OneBase, Bases, Ends
  <2>2. Display(b.versions) /\ setLastSyncTime(query.sentAt) /\ FinishSync(TRUE)
    BY <1>5 DEF RunHandler
  <2>3. /\ pc' = "idle" /\ deliveries' = deliveries \o messages /\ messages' = <<>>
        /\ isDelivering' /\ UNCHANGED <<ops, syncStart>>
    BY <2>2 DEF FinishSync, startDelivery
  <2>4. lastSyncTime' = savedSyncTime' /\ lastSyncTime' = query.sentAt - Slack
    BY <2>2 DEF setLastSyncTime
  <2> QED
    BY <1>1, <1>2, <1>5, <2>1, <2>2, <2>3, <2>4
<1>6. CASE b.kind = "rejected"
  <2>1. pc = "answered"
    BY <1>2, <1>6 DEF TypeInv, App, OneBase, Bases, Ends
  <2>2. unanswered' = Len(log) /\ setLastSyncTime(query.sentAt) /\ FinishSync(TRUE)
    BY <1>6 DEF RunHandler
  <2>3. pc' = "idle" /\ messages' = <<>> /\ isDelivering' /\ UNCHANGED <<ops, syncStart>>
    BY <2>2 DEF FinishSync, startDelivery
  <2>4. lastSyncTime' = savedSyncTime'
    BY <2>2 DEF setLastSyncTime
  <2> QED
    BY <1>1, <1>2, <1>6, <2>1, <2>2, <2>3, <2>4
<1> QED
  BY <1>2, <1>3, <1>4, <1>5, <1>6, HandlerBlockIs

LEMMA SavedStep ==
  ASSUME TypeInv, [Next]_vars, Steady, Counts, Saved
  PROVE  Saved'
<1>1. ~SubscribeFails /\ ~SkipQuery /\ ~QueryFails /\ ~Restart
  BY SteadySteps
<1>2. CASE RunStore
  BY <1>2, StoreRuns DEF Saved
<1>3. CASE RunHandler
  BY <1>3, HandlerRuns DEF Saved
<1>4. CASE BeginSync \/ DeltaEnds
  <2>1. CASE BeginSync
    <3>1. savedSyncTime' = savedSyncTime /\ lastSyncTime' \in {lastSyncTime, savedSyncTime}
      BY <2>1 DEF BeginSync
    <3> QED
      BY <3>1 DEF Saved
  <2>2. CASE DeltaEnds
    <3>1. setLastSyncTime(now)
      BY <2>2 DEF DeltaEnds, DeltaAnswered, DeltaRejected
    <3> QED
      BY <3>1 DEF setLastSyncTime, Saved
  <2> QED
    BY <1>4, <2>1, <2>2
<1>5. CASE ~(RunStore \/ RunHandler \/ BeginSync \/ DeltaEnds)
  <2>1. UNCHANGED times
    BY <1>1, <1>5 DEF DeltaEnds, Next, vars, Tick, Drop, Reconnect, CloseOld, Connected, Subscribed,
       Change, Arrive, Deliver, RunQuery, TimerFires, Evaluate, BaseAnswered, BaseRejected, SyncNotice,
       Cancel
  <2> QED
    BY <2>1 DEF times, Saved
<1> QED
  BY <1>2, <1>3, <1>4, <1>5

(* Only an arrival brings a message to the store's queue.                  *)
LEMMA NoOtherMessage ==
  ASSUME TypeInv, [Next]_vars, ~Arrive
  PROVE  \A n \in DOMAIN storeQueue' : storeQueue'[n].kind = "message"
           => \E m \in DOMAIN storeQueue : storeQueue'[n] = storeQueue[m]
<1>1. IsSeq(storeQueue)
  BY SeqsThere
<1>2. CASE Connected \/ Cancel
  <2>1. storeQueue' = storeQueue \/ storeQueue' = Muted
    BY <1>2 DEF Connected, Cancel
  <2>2. /\ DOMAIN Muted = DOMAIN storeQueue
        /\ \A n \in DOMAIN Muted : Muted[n].kind = "message" => Muted[n] = storeQueue[n]
    BY DEF Muted
  <2> QED
    BY <2>1, <2>2
<1>3. CASE RunStore
  <2>1. storeQueue # <<>> /\ storeQueue' = Tail(storeQueue)
    BY <1>3, StoreRuns
  <2> QED
    BY <2>1, TailIsFrom DEF TypeInv, App, Queued
<1>4. CASE BaseAnswered \/ DeltaEnds \/ Deliver
  <2> DEFINE v == query.answer[1]
             a == Show(v)
             b == Publish(v)
             h == [kind |-> "held"]
             e == Show(Nothing)
  <2>1. \/ storeQueue' = storeQueue
        \/ storeQueue' = Append(storeQueue, b)
        \/ storeQueue' = storeQueue \o <<a, b>>
        \/ storeQueue' = Append(storeQueue, h)
        \/ storeQueue' = Append(storeQueue, e)
    BY <1>4 DEF BaseAnswered, DeltaEnds, DeltaAnswered, DeltaRejected, Deliver
  <2>2. a.kind = "show" /\ b.kind = "publish" /\ h.kind = "held" /\ e.kind = "show"
    BY BlockKinds
  <2> HIDE DEF a, b, h, v, e
  <2>3. \A x : Append(storeQueue, x) = storeQueue \o <<x>>
    <3> TAKE x
    <3>1. PICK S : storeQueue \in Seq(S)
      BY <1>1 DEF IsSeq
    <3> QED
      BY <3>1
  <2>4. CASE storeQueue' # storeQueue
    <3> DEFINE Z == {a, b, h, e}
    <3>4. <<a, b>> \in Seq(Z) /\ <<b>> \in Seq(Z) /\ <<h>> \in Seq(Z) /\ <<e>> \in Seq(Z)
      OBVIOUS
    <3> HIDE DEF Z
    <3>1. PICK r \in Seq(Z) : storeQueue' = storeQueue \o r
      BY <2>1, <2>3, <2>4, <3>4
    <3>2. r \in Seq(Z)
      OBVIOUS
    <3>3. IsSeq(r) /\ \A l \in DOMAIN r : r[l].kind # "message"
      <4>1. \A l \in DOMAIN r : r[l] \in {a, b, h, e}
        BY <3>2, SeqAt DEF Z
      <4> QED
        BY <2>2, <3>2, <4>1 DEF IsSeq
    <3> QED
      BY <1>1, <3>1, <3>3, OneOfBoth
  <2> QED
    BY <2>4
<1>5. CASE Restart
  <2>1. DOMAIN storeQueue' = {}
    BY <1>5 DEF Restart
  <2> QED
    BY <2>1
<1>6. CASE ~(Connected \/ Cancel \/ RunStore \/ BaseAnswered \/ DeltaEnds \/ Deliver \/ Restart)
  <2>1. storeQueue' = storeQueue
    BY <1>6 DEF DeltaEnds, Next, vars, queues, Tick, Drop, Reconnect, CloseOld, SubscribeFails,
       Subscribed, Change, RunHandler, BeginSync, RunQuery, SkipQuery, TimerFires, Evaluate,
       BaseRejected, QueryFails, SyncNotice
  <2> QED
    BY <2>1
<1> QED
  BY <1>2, <1>3, <1>4, <1>5, <1>6

LEMMA FreshStep ==
  ASSUME TypeInv, TypeInv', Grown, [Next]_vars, Steady, Fresh
  PROVE  Fresh'
<1>1. storeQueue \in Seq(StoreBlock) /\ IsSeq(storeQueue)
  BY DEF TypeInv, App, Queued, IsSeq
<1>2. ASSUME NEW n \in DOMAIN storeQueue, storeQueue[n].kind = "message"
      PROVE  log'[storeQueue[n].change] = log[storeQueue[n].change]
  <2>1. storeQueue[n].change \in DOMAIN log
    BY <1>1, <1>2, SeqAt, StoreBlockIs
  <2> QED
    BY <2>1 DEF Grown
<1>3. CASE Tick
  <2>1. storeQueue' = <<>>
    BY <1>3 DEF Tick, Drained, Steady, Recoverable, queues
  <2>2. DOMAIN storeQueue' = {}
    BY <2>1
  <2> QED
    BY <2>2 DEF Fresh
<1>4. CASE Arrive
  <2>1. PICK n \in DOMAIN wire, copies \in 1..2 :
          LET k == wire[n]
              once == <<Message(k), Publish(Version(k))>>
          IN  storeQueue' = storeQueue \o (IF copies = 1 THEN once ELSE once \o once)
    BY <1>4 DEF Arrive
  <2> DEFINE a == Message(wire[n])
             b == Publish(Version(wire[n]))
             once == <<a, b>>
  <2>2. now' = now /\ log' = log
    BY <1>4 DEF Arrive, backend
  <2>3. wire[n] \in DOMAIN log /\ now =< log[wire[n]].time + MaxTravel
    BY SeqAt DEF TypeInv, Lines
  <2>4. a.change = wire[n] /\ b.kind = "publish"
    BY BlockKinds DEF Message
  <2>5. storeQueue' = storeQueue \o once \/ storeQueue' = storeQueue \o (once \o once)
    BY <2>1
  <2> HIDE DEF a, b
  <2>6. once \in Seq({a, b}) /\ once \o once \in Seq({a, b})
    OBVIOUS
  <2> HIDE DEF once
  <2>7. PICK r : r \in Seq({a, b}) /\ storeQueue' = storeQueue \o r
    BY <2>5, <2>6
  <2>8. IsSeq(r) /\ \A l \in DOMAIN r : r[l] = a \/ r[l] = b
    BY <2>7, SeqAt DEF IsSeq
  <2>10. IsSeq(r) /\ storeQueue' = storeQueue \o r
    BY <2>7, <2>8
  <2>11. IsSeq(storeQueue)
    BY <1>1
  <2>9. \A l \in DOMAIN storeQueue' :
          (\E m \in DOMAIN storeQueue : storeQueue'[l] = storeQueue[m])
          \/ (\E m \in DOMAIN r : storeQueue'[l] = r[m])
    BY <2>10, <2>11, JoinedHolds
  <2> SUFFICES ASSUME NEW l \in DOMAIN storeQueue', storeQueue'[l].kind = "message"
               PROVE  now =< log[storeQueue'[l].change].time + MaxTravel
    BY <2>2 DEF Fresh
  <2> QED
    BY <2>3, <2>4, <2>8, <2>9 DEF Fresh
<1>5. CASE ~Tick /\ ~Arrive
  <2>1. now' = now
    BY <1>5 DEF Next, vars, backend, Drop, Reconnect, CloseOld, Connected, SubscribeFails, Subscribed,
       Change, Deliver, RunStore, RunHandler, BeginSync, RunQuery, SkipQuery, TimerFires, Evaluate,
       BaseAnswered, DeltaAnswered, BaseRejected, DeltaRejected, QueryFails, SyncNotice, Cancel,
       Restart
  <2>2. \A n \in DOMAIN storeQueue' : storeQueue'[n].kind = "message"
          => \E m \in DOMAIN storeQueue : storeQueue'[n] = storeQueue[m]
    BY <1>5, NoOtherMessage
  <2> QED
    BY <1>2, <2>1, <2>2 DEF Fresh
<1> QED
  BY <1>3, <1>4, <1>5

LEMMA SilentStep ==
  ASSUME TypeInv, [Next]_vars, Steady, Counts, Silent
  PROVE  Silent'
<1>1. ~SubscribeFails /\ ~SkipQuery /\ ~QueryFails /\ ~Restart
  BY SteadySteps
<1>2. CASE RunStore \/ RunHandler
  <2>1. UNCHANGED subscribing /\ UNCHANGED Marked
    BY <1>2, StoreRuns, HandlerRuns
  <2> QED
    BY <2>1 DEF Silent, Gone, Marked
<1>3. CASE Drop \/ CloseOld \/ Reconnect \/ Connected \/ Subscribed
  BY <1>3 DEF Drop, CloseOld, Disconnect, Reconnect, Connected, Subscribed, Silent, Gone
<1>4. CASE Cancel
  BY <1>4 DEF Cancel, Silent, Gone
<1>5. CASE BeginSync
  BY <1>5 DEF BeginSync, Silent, Gone
<1>6. CASE ~(RunStore \/ RunHandler \/ Drop \/ CloseOld \/ Reconnect \/ Connected \/ Subscribed
             \/ Cancel \/ BeginSync)
  <2>1. UNCHANGED <<watching, replacing, subscribing, listening>>
    BY <1>1, <1>6 DEF Next, vars, link, Tick, Change, Arrive, Deliver, RunQuery, TimerFires, Evaluate,
       BaseAnswered, DeltaAnswered, BaseRejected, DeltaRejected, SyncNotice
  <2> QED
    BY <2>1 DEF Silent, Gone
<1> QED
  BY <1>2, <1>3, <1>4, <1>5, <1>6

LEMMA HandingStep ==
  ASSUME TypeInv, [Next]_vars, Steady, Counts, Silent, Handing
  PROVE  Handing'
<1>1. ~SubscribeFails /\ ~SkipQuery /\ ~QueryFails /\ ~Restart
  BY SteadySteps
<1>2. CASE BeginSync
  <2>1. isDelivering' = FALSE /\ pc' # "idle"
    BY <1>2 DEF BeginSync, stopDelivery
  <2> QED
    BY <2>1 DEF Handing
<1>3. CASE DeltaEnds
  <2>1. isDelivering' /\ messages' = <<>>
    BY <1>3 DEF DeltaEnds, DeltaAnswered, DeltaRejected, FinishSync, startDelivery
  <2> QED
    BY <2>1 DEF Handing
<1>4. CASE RunHandler
  <2>1. handlerQueue # <<>>
    BY <1>4 DEF RunHandler
  <2>2. CASE isDelivering' /\ messages' = <<>>
    BY <2>2 DEF Handing
  <2>3. CASE UNCHANGED <<pc, isDelivering, messages>>
    BY <2>1, <2>3 DEF Handing, NotBegun
  <2>4. CASE pc' = pc /\ appendMessage(Head(handlerQueue).change)
    BY <2>1, <2>4 DEF Handing, NotBegun, appendMessage
  <2> QED
    BY <1>4, <2>2, <2>3, <2>4, HandlerRuns
<1>5. CASE RunStore
  <2>1. UNCHANGED <<pc, isDelivering, messages>> /\ storeQueue # <<>>
    BY <1>5, StoreRuns
  <2>2. 1 \in DOMAIN storeQueue
    BY <2>1, FirstAndRest DEF TypeInv, App, Queued
  <2> QED
    BY <2>1, <2>2 DEF Handing, NotBegun
<1>6. CASE RunQuery \/ Evaluate \/ BaseAnswered \/ BaseRejected
  <2>1. UNCHANGED <<isDelivering, messages>> /\ pc' # "idle"
    BY <1>6 DEF RunQuery, Evaluate, BaseAnswered, BaseRejected, queue
  <2> QED
    BY <2>1 DEF Handing
<1>7. CASE Tick \/ Drop \/ Reconnect \/ CloseOld \/ Connected \/ Subscribed \/ Arrive \/ Deliver
           \/ TimerFires \/ SyncNotice \/ Cancel \/ (\E i \in Items : Change(i)) \/ UNCHANGED vars
  <2>1. UNCHANGED <<isDelivering, messages>> /\ (pc' = "idle" => pc = "idle")
    BY <1>7 DEF Tick, Drop, Reconnect, CloseOld, Connected, Subscribed, Arrive, Deliver, TimerFires,
       SyncNotice, Cancel, Change, vars, sync, queue
  <2>2. NotBegun => NotBegun'
    <3> SUFFICES ASSUME NotBegun PROVE NotBegun'
      OBVIOUS
    <3>1. ~listening /\ ~subscribing /\ ~watching
      BY DEF NotBegun, Gone, Silent
    <3>2. ~Drop /\ ~Reconnect /\ ~CloseOld /\ ~Connected /\ ~Subscribed
      BY <3>1 DEF Drop, Disconnect, Reconnect, CloseOld, Connected, Subscribed
    <3>3. ~Arrive /\ ~Deliver
      <4>1. DOMAIN wire = {}
        BY DEF NotBegun
      <4> QED
        BY <4>1 DEF NotBegun, Arrive, Deliver
    <3>4. CASE Cancel
      <4>1. /\ UNCHANGED <<handlerQueue, deliveries, messages>> /\ DOMAIN storeQueue' = {}
            /\ watching' = FALSE /\ replacing' = FALSE /\ wire' = <<>>
        BY <3>4 DEF Cancel, NotBegun, Gone, queue, Muted
      <4> QED
        BY <4>1 DEF NotBegun, Gone
    <3>5. CASE Tick \/ TimerFires \/ SyncNotice \/ (\E i \in Items : Change(i)) \/ UNCHANGED vars
      <4>1. /\ UNCHANGED <<watching, replacing, wire>>
            /\ UNCHANGED <<messages, deliveries, storeQueue, handlerQueue>>
        BY <3>1, <3>5 DEF Tick, TimerFires, SyncNotice, Change, vars, link, queue, queues
      <4> QED
        BY <4>1 DEF NotBegun, Gone
    <3> QED
      BY <1>7, <3>2, <3>3, <3>4, <3>5
  <2> QED
    BY <2>1, <2>2 DEF Handing
<1> QED
  BY <1>1, <1>2, <1>3, <1>4, <1>5, <1>6, <1>7 DEF Next, DeltaEnds

LEMMA BaseIsStep ==
  ASSUME TypeInv, TypeInv', [Next]_vars, Steady, Counts, BaseIs
  PROVE  BaseIs'
<1>1. ~SubscribeFails /\ ~SkipQuery /\ ~QueryFails /\ ~Restart
  BY SteadySteps
<1>2. IsSeq(handlerQueue)
  BY SeqsThere
<1>3. ASSUME NEW b, handlerQueue' = Append(handlerQueue, b), query' = query,
             b.kind = "base" => b.versions = query.answer[1]
      PROVE  BaseIs'
  <2>1. PICK S : handlerQueue \in Seq(S)
    BY <1>2 DEF IsSeq
  <2>2. handlerQueue \in Seq(S \cup {b})
    BY <2>1, SeqWiden
  <2>3. /\ DOMAIN handlerQueue = 1..Len(handlerQueue) /\ Len(handlerQueue) \in Nat
        /\ DOMAIN handlerQueue' = 1..(Len(handlerQueue) + 1)
        /\ handlerQueue'[Len(handlerQueue) + 1] = b
        /\ \A n \in 1..Len(handlerQueue) : handlerQueue'[n] = handlerQueue[n]
    BY <1>3, <2>2, SeqAdd
  <2>4. \A n \in 1..(Len(handlerQueue) + 1) : n \in 1..Len(handlerQueue) \/ n = Len(handlerQueue) + 1
    BY <2>3
  <2> QED
    BY <1>3, <2>3, <2>4 DEF BaseIs
<1>4. CASE pc' # "answered"
  <2>1. Bases(handlerQueue') = {}
    BY <1>4 DEF TypeInv, App, OneBase, Bases
  <2> QED
    BY <2>1 DEF BaseIs, Bases, Ends
<1>5. CASE BaseAnswered
  <2> DEFINE c == [kind |-> "base", versions |-> query.answer[1]]
  <2>1. handlerQueue' = Append(handlerQueue, c) /\ query' = query /\ c.versions = query.answer[1]
    BY <1>5 DEF BaseAnswered
  <2> HIDE DEF c
  <2> QED
    BY <1>3, <2>1
<1>6. CASE BaseRejected
  <2> DEFINE c == [kind |-> "rejected"]
  <2>1. handlerQueue' = Append(handlerQueue, c) /\ query' = query /\ c.kind # "base"
    BY <1>6 DEF BaseRejected
  <2> HIDE DEF c
  <2> QED
    BY <1>3, <2>1
<1>7. CASE Deliver /\ pc' = "answered"
  <2> DEFINE s == Show(Version(Head(deliveries).change))
  <2>1. query' = query /\ (handlerQueue' = handlerQueue \/ handlerQueue' = Append(handlerQueue, s))
    BY <1>7 DEF Deliver, sync
  <2>2. s.kind # "base"
    BY BlockKinds
  <2> HIDE DEF s
  <2> QED
    BY <1>3, <2>1, <2>2 DEF BaseIs
<1>8. CASE RunStore
  <2> DEFINE s == Show(Version(Head(deliveries).change))
             b == Head(storeQueue)
  <2>1. query' = query /\ \/ handlerQueue' = handlerQueue
                          \/ handlerQueue' = Append(handlerQueue, b) /\ b.kind \in {"message", "show"}
                          \/ handlerQueue' = Append(handlerQueue, s)
    BY <1>8, StoreRuns
  <2>2. s.kind # "base"
    BY BlockKinds
  <2> HIDE DEF s, b
  <2> QED
    BY <1>3, <2>1, <2>2 DEF BaseIs
<1>9. CASE RunHandler /\ pc' = "answered"
  <2>1. query' = query /\ handlerQueue # <<>> /\ handlerQueue' = Tail(handlerQueue)
    BY <1>9, HandlerRuns
  <2>2. \A n \in DOMAIN handlerQueue' : \E m \in DOMAIN handlerQueue : handlerQueue'[n] = handlerQueue[m]
    BY <2>1, TailIsFrom DEF TypeInv, App, Queued
  <2> QED
    BY <2>1, <2>2 DEF BaseIs
<1>10. CASE pc' = "answered" /\ ~(BaseAnswered \/ BaseRejected \/ Deliver \/ RunStore \/ RunHandler)
  <2>1. UNCHANGED <<handlerQueue, query>>
    BY <1>1, <1>10 DEF Next, vars, sync, queues, FinishSync, Tick, Drop, Reconnect, CloseOld, Connected,
       Subscribed, Change, Arrive, BeginSync, RunQuery, TimerFires, Evaluate, DeltaAnswered,
       DeltaRejected, SyncNotice, Cancel
  <2> QED
    BY <2>1 DEF BaseIs
<1> QED
  BY <1>4, <1>5, <1>6, <1>7, <1>8, <1>9, <1>10

-----------------------------------------------------------------------------
(* A change that will land, or will be asked for, still will after a step. *)

LEMMA VersionShows ==
  ASSUME World, NEW k \in DOMAIN log, NEW m, m.change = k
  PROVE  Shows(Show(Version(m.change)), log[k].item, k)
<1> DEFINE v == Version(k)
<1>1. log[k].item \in DOMAIN v /\ v[log[k].item] = k
  BY OneVersion
<1>2. k \in Nat
  BY DEF World
<1> HIDE DEF v
<1>3. Show(v).kind = "show" /\ Show(v).versions = v
  BY DEF Show
<1> QED
  BY <1>1, <1>2, <1>3 DEF Shows, v

LEMMA Dates ==
  ASSUME TypeInv
  PROVE  /\ \A n \in DOMAIN deliveries : deliveries[n].date \in 0..now
         /\ \A n \in DOMAIN messages : messages[n].date \in 0..now
<1>1. \A n \in DOMAIN deliveries : deliveries[n] \in HeldMessage
  BY SeqAt DEF TypeInv, App, Queued
<1>2. \A n \in DOMAIN messages : messages[n] \in HeldMessage
  BY SeqAt DEF TypeInv, App, Queued
<1> QED
  BY <1>1, <1>2 DEF HeldMessage

(* What changed within the time that is taken off is asked for, whatever   *)
(* the last sync time is.                                                  *)
LEMMA RecentIsLater ==
  ASSUME TypeInv, NEW t \in Int, t >= now - Slack
  PROVE  Later(t) /\ After(t, messages)
<1>1. lastSyncTime # None => lastSyncTime \in Int /\ lastSyncTime =< now - Slack
  BY SinceInSoFar DEF TypeInv, App, Clocks
<1>2. Later(t)
  BY <1>1, Dates, Numbers DEF Later, After
<1> QED
  BY <1>2, Dates, Numbers DEF After

(* A base answer without data waits for the handler.                       *)
Rejected == \E n \in DOMAIN handlerQueue : handlerQueue[n].kind = "rejected"

(* What travels is not older than that.                                    *)
LEMMA TravellingIsRecent ==
  ASSUME TypeInv, MaxTravel =< Slack, NEW t \in Int, now =< t + MaxTravel
  PROVE  t >= now - Slack
BY Numbers

(* It is owed, unless it is still asked for or the answer that waits has   *)
(* it.                                                                     *)
LEMMA RecentIsOwed ==
  ASSUME TypeInv, InQuery => Complete, BaseIs, ~Rejected, NEW k \in DOMAIN log, NEW i, NEW t,
         i = log[k].item, t = log[k].time, t >= now - Slack
  PROVE  Owed(t) \/ ToBeAsked(t) \/ Answered(i, k) \/ ShownBy(handlerQueue, i, k)
<1>1. k \in Nat /\ i \in Items /\ t \in Nat
  BY Numbers
<1>2. Later(t) /\ After(t, messages)
  BY <1>1, RecentIsLater
<1>3. CASE ~InQuery
  <2>1. pc = "idle" \/ Early
    BY <1>3 DEF TypeInv, App, Control, InQuery, Early
  <2> QED
    BY <1>2, <2>1 DEF Owed, ToBeAsked
<1>4. CASE InQuery
  <2>1. query \in Question /\ (query.method = "delta" => query.since # None)
    BY <1>4 DEF InQuery, TypeInv, App, Asking
  <2>2. query.method \in {"base", "delta"} /\ query.since \in SoFar /\ query.answer \in Answers
    BY <2>1 DEF Question
  <2>3. query.method = "base" \/ (query.since \in Int /\ t >= query.since)
    <3>1. query.since # None => query.since \in Int /\ query.since =< now - Slack
      BY <2>2, SinceInSoFar
    <3> QED
      BY <1>1, <2>1, <2>2, <3>1, Numbers
  <2>4. CASE query.answer = <<>>
    <3>1. pc = "querying"
      BY <1>4, <2>4 DEF InQuery, TypeInv, App, Asking
    <3> QED
      BY <2>3, <2>4, <3>1 DEF ToBeAsked
  <2>5. CASE query.answer # <<>>
    <3> DEFINE v == query.answer[1]
    <3>1. v \in Real
      BY <2>2, <2>5 DEF Answers
    <3>2. Within(k, v) /\ (query.method = "base" => DOMAIN v = Items)
      BY <1>4, <2>5 DEF Complete
    <3>3. t >= query.evaluatedAt \/ (i \in DOMAIN v /\ v[i] >= k)
      <4>1. \A j \in DOMAIN v : v[j] \in 0..MaxChanges
        BY <3>1, RealVersions DEF TypeInv
      <4> HIDE DEF v
      <4>2. CASE i \in DOMAIN v
        BY <1>1, <3>2, <4>1, <4>2, NumbersAssumption DEF Within
      <4>3. CASE i \notin DOMAIN v
        BY <1>1, <2>3, <3>2, <4>3 DEF Within
      <4> QED
        BY <4>2, <4>3
    <3>4. CASE t >= query.evaluatedAt
      BY <1>2, <1>4, <2>5, <3>4 DEF Owed
    <3>5. CASE i \in DOMAIN v /\ v[i] >= k /\ pc = "querying"
      BY <2>5, <3>5 DEF Answered
    <3>6. CASE i \in DOMAIN v /\ v[i] >= k /\ pc = "answered"
      <4>1. PICK n \in Bases(handlerQueue) : TRUE
        BY <3>6 DEF TypeInv, App, OneBase
      <4>2. n \in DOMAIN handlerQueue /\ handlerQueue[n].kind = "base" /\ handlerQueue[n].versions = v
        BY <4>1 DEF BaseIs, Bases, Ends, Rejected
      <4> HIDE DEF v
      <4> QED
        BY <3>6, <4>2 DEF ShownBy, Shows
    <3> QED
      BY <1>4, <3>3, <3>4, <3>5, <3>6 DEF InQuery
  <2> QED
    BY <2>4, <2>5
<1> QED
  BY <1>3, <1>4

(* Only a sync that begins or connects ends what may be missing.           *)
LEMMA MissedStep ==
  ASSUME TypeInv, [Next]_vars, Steady, Counts, ~BeginSync, ~Connected, NEW k \in DOMAIN log, Missed(k)
  PROVE  Missed(k)'
<1>1. ~SubscribeFails /\ ~SkipQuery /\ ~QueryFails /\ ~Restart
  BY SteadySteps
<1>2. CASE RunStore \/ RunHandler
  <2>1. UNCHANGED Marked
    BY <1>2, StoreRuns, HandlerRuns
  <2> QED
    BY <2>1 DEF Missed, Gone, Marked
<1>3. CASE Drop \/ CloseOld
  BY <1>3 DEF Drop, CloseOld, Disconnect, history, Missed, Gone
<1>4. CASE Subscribed
  <2>1. UNCHANGED <<watching, replacing, sentFrom>> /\ heardFrom' = Len(log)
    BY <1>4 DEF Subscribed
  <2>2. k =< Len(log)
    BY DEF TypeInv, World
  <2> QED
    BY <2>1, <2>2 DEF Missed, Gone
<1>5. CASE Cancel
  BY <1>5 DEF Cancel, history, Missed, Gone
<1>6. CASE ~(RunStore \/ RunHandler \/ Drop \/ CloseOld \/ Subscribed \/ Cancel)
  <2>1. UNCHANGED Marked
    BY <1>1, <1>6 DEF Next, vars, link, history, Marked, Tick, Reconnect, Change, Arrive, Deliver,
       RunQuery, TimerFires, Evaluate, BaseAnswered, DeltaAnswered, BaseRejected, DeltaRejected,
       SyncNotice
  <2> QED
    BY <2>1 DEF Missed, Gone, Marked
<1> QED
  BY <1>2, <1>3, <1>4, <1>5, <1>6

LEMMA RunStoreSafe ==
  ASSUME TypeInv, RunStore, NEW k \in DOMAIN log, NEW i, NEW t, i = log[k].item, Safe(i, t, k),
         Missed(k) => Missed(k)'
  PROVE  Safe(i, t, k)'
<1> DEFINE b == Head(storeQueue)
           m == Head(deliveries)
           s == Show(Version(m.change))
<1>1. /\ UNCHANGED <<wire, sentFrom, pc, query, messages, seen>>
      /\ storeQueue # <<>> /\ storeQueue' = Tail(storeQueue)
      /\ \/ /\ b.kind # "held"
            /\ UNCHANGED <<lastSyncTime, deliveries>>
            /\ \/ handlerQueue' = Append(handlerQueue, b)
               \/ b.kind \in {"publish", "unheard"} /\ handlerQueue' = handlerQueue
         \/ /\ b.kind = "held"
            /\ deliveries # <<>> /\ deliveries' = Tail(deliveries) /\ ~m.live
            /\ handlerQueue' = Append(handlerQueue, s)
            /\ lastSyncTime' = m.date - Slack
  <2>1. UNCHANGED <<wire, sentFrom, pc, query, messages, seen>>
    BY StoreRuns DEF Marked
  <2> HIDE DEF b, m, s
  <2> QED
    BY <2>1, StoreRuns DEF b, m, s
<1>2. IsSeq(storeQueue) /\ IsSeq(handlerQueue) /\ IsSeq(deliveries)
  BY SeqsThere
<1>3. m.change = k => Shows(s, i, k)
  BY VersionShows DEF TypeInv
<1>4. deliveries # <<>> /\ After(t, deliveries)
      => After(t, Tail(deliveries)) /\ (m.live \/ t >= m.date - Slack)
  BY <1>2, TailHolds
<1> HIDE DEF b, m, s
<1>5. ShownBy(handlerQueue, i, k) => ShownBy(handlerQueue', i, k)
  BY <1>1, <1>2, ShownAppended
<1>6. ShownBy(storeQueue, i, k) => ShownBy(storeQueue', i, k) \/ ShownBy(handlerQueue', i, k)
  <2>1. ShownBy(storeQueue, i, k) => Shows(b, i, k) \/ ShownBy(storeQueue', i, k)
    BY <1>1, <1>2, ShownTail DEF b
  <2>2. Shows(b, i, k) => b.kind \notin {"publish", "unheard", "held"}
    BY DEF Shows
  <2> QED
    BY <1>1, <1>2, <2>1, <2>2, ShownAppended
<1>7. Carried(deliveries, k) => Carried(deliveries', k) \/ ShownBy(handlerQueue', i, k)
  <2>1. deliveries # <<>> /\ Carried(deliveries, k) => m.change = k \/ Carried(Tail(deliveries), k)
    BY <1>2, CarriedTail DEF m
  <2> QED
    BY <1>1, <1>2, <1>3, <2>1, ShownAppended
<1>8. Later(t) => Later(t)'
  <2>1. CASE b.kind # "held"
    BY <1>1, <2>1 DEF Later
  <2>2. CASE b.kind = "held"
    BY <1>1, <1>4, <2>2 DEF Later
  <2> QED
    BY <2>1, <2>2
<1>9. Owed(t) => Owed(t)'
  BY <1>1, <1>8 DEF Owed, InQuery
<1>10. ToBeAsked(t) => ToBeAsked(t)'
  BY <1>1, <1>8 DEF ToBeAsked, Early
<1> QED
  BY <1>1, <1>9, <1>10, <1>5, <1>6, <1>7 DEF Safe, Lands, OnWire, Answered

LEMMA SeenGrows ==
  ASSUME TypeInv, NEW v \in Real, Display(v), NEW i \in Items, NEW k \in Nat
  PROVE  (seen[i] >= k \/ (i \in DOMAIN v /\ v[i] >= k)) => seen'[i] >= k
<1>1. shown \in Whole /\ seen \in Whole /\ World
  BY DEF TypeInv, App, Caches
<1>2. \A j \in DOMAIN v : v[j] \in 0..MaxChanges
  BY RealVersions
<1>3. seen[i] \in 0..MaxChanges /\ MaxChanges \in Nat
  BY <1>1, NumbersAssumption DEF Whole, Versions
<1>4. seen' = [j \in Items |-> IF j \in DOMAIN v /\ v[j] > seen[j] THEN v[j] ELSE seen[j]]
  BY DEF Display
<1> QED
  BY <1>2, <1>3, <1>4

(* What is owed although an answer is there is recent.                     *)
LEMMA OwedIsRecent ==
  ASSUME TypeInv, Steady, InQuery, NEW t \in Nat, Owed(t)
  PROVE  t >= now - Slack
<1>1. query \in Question /\ now =< query.evaluatedAt + MaxTravel /\ t >= query.evaluatedAt
  BY DEF TypeInv, App, Asking, InQuery, Owed, Steady, Recoverable
<1>2. query.evaluatedAt \in 0..now /\ MaxTravel =< Slack
  BY <1>1 DEF Question, Steady, Recoverable
<1> QED
  BY <1>1, <1>2, Numbers

LEMMA RunHandlerSafe ==
  ASSUME TypeInv, Steady, Stopped, Handing, RunHandler, Head(handlerQueue).kind # "rejected",
         NEW k \in DOMAIN log, NEW i, NEW t, i = log[k].item, t = log[k].time, Safe(i, t, k),
         Missed(k) => Missed(k)'
  PROVE  Safe(i, t, k)'
<1> DEFINE b == Head(handlerQueue)
<1>1. /\ UNCHANGED <<now, wire, sentFrom, storeQueue>>
      /\ handlerQueue # <<>> /\ handlerQueue' = Tail(handlerQueue) /\ b \in HandlerBlock
      /\ b.kind \in {"message", "show", "base"}
  BY HandlerRuns DEF Marked
<1>2. IsSeq(handlerQueue) /\ IsSeq(deliveries) /\ IsSeq(messages)
  BY SeqsThere
<1>3. i \in Items /\ k \in Nat /\ t \in Nat
  BY Numbers
<1>4. ShownBy(handlerQueue, i, k) => Shows(b, i, k) \/ ShownBy(handlerQueue', i, k)
  BY <1>1, <1>2, ShownTail
<1>5. CASE b.kind = "message"
  <2>1. /\ UNCHANGED <<pc, query, lastSyncTime, seen>> /\ appendMessage(b.change)
    BY <1>5, HandlerRuns
  <2> DEFINE d == Delivery(b.change, TRUE)
             e == Delivery(b.change, FALSE)
  <2>2. IF isDelivering /\ messages = <<>>
        THEN deliveries' = Append(deliveries, d) /\ messages' = messages
        ELSE messages' = Append(messages, e) /\ deliveries' = deliveries
    BY <2>1 DEF appendMessage
  <2>3. Shows(b, i, k) => d.change = k /\ e.change = k
    BY <1>5 DEF Shows, Delivery
  <2>4. d.live /\ e.date = now
    BY DEF Delivery
  <2> HIDE DEF b, d, e
  <2>5. /\ Carried(deliveries, k) => Carried(deliveries', k)
        /\ Carried(messages, k) => Carried(messages', k)
        /\ Shows(b, i, k) => Carried(deliveries', k) \/ Carried(messages', k)
    BY <1>2, <2>2, <2>3, CarriedAppended
  <2>6. Owed(t) => Owed(t)'
    <3> SUFFICES ASSUME Owed(t) PROVE Owed(t)'
      OBVIOUS
    <3>1. CASE pc = "idle"
      <4>1. isDelivering /\ messages = <<>>
        BY <1>1, <3>1 DEF Handing, NotBegun
      <4>2. After(t, deliveries') /\ messages' = messages
        BY <1>2, <2>2, <2>4, <4>1, AfterAppended DEF Owed, Later
      <4> QED
        BY <2>1, <3>1, <4>2 DEF Owed, Later
    <3>2. CASE pc # "idle"
      <4>1. InQuery /\ t >= now - Slack
        BY <1>3, <3>2, OwedIsRecent DEF Owed
      <4>2. messages' = Append(messages, e) /\ deliveries' = deliveries
        BY <2>2, <3>2 DEF Stopped
      <4>3. After(t, messages')
        BY <1>2, <2>4, <4>1, <4>2, AfterAppended DEF Owed
      <4> QED
        BY <2>1, <3>2, <4>2, <4>3 DEF Owed, Later, InQuery
    <3> QED
      BY <3>1, <3>2
  <2>7. Early /\ Later(t) => Early' /\ Later(t)'
    BY <2>1, <2>2 DEF Stopped, Early, Later
  <2>8. ToBeAsked(t) => ToBeAsked(t)'
    BY <2>1, <2>7 DEF ToBeAsked
  <2> QED
    BY <1>1, <1>4, <2>1, <2>5, <2>6, <2>8 DEF Safe, Lands, OnWire, Answered
<1>6. CASE b.kind = "show"
  <2>1. Display(b.versions) /\ UNCHANGED <<pc, query, lastSyncTime, messages, deliveries>>
    BY <1>6, HandlerRuns
  <2>2. b.versions \in Real
    BY <1>1, <1>6, HandlerBlockIs
  <2> HIDE DEF b
  <2>3. (seen[i] >= k \/ Shows(b, i, k)) => seen'[i] >= k
    BY <1>3, <1>6, <2>1, <2>2, SeenGrows DEF Shows
  <2>4. (ToBeAsked(t) => ToBeAsked(t)') /\ (Owed(t) => Owed(t)')
    BY <2>1 DEF ToBeAsked, Owed, Later, InQuery, Early
  <2> QED
    BY <1>1, <1>4, <2>1, <2>3, <2>4 DEF Safe, Lands, OnWire, Answered
<1>7. CASE b.kind = "base"
  <2>1. /\ Display(b.versions) /\ pc = "answered" /\ pc' = "idle"
        /\ deliveries' = deliveries \o messages /\ messages' = <<>>
        /\ lastSyncTime' = query.sentAt - Slack
    BY <1>7, HandlerRuns
  <2>2. b.versions \in Real
    BY <1>1, <1>7, HandlerBlockIs
  <2> HIDE DEF b
  <2>3. (seen[i] >= k \/ Shows(b, i, k)) => seen'[i] >= k
    BY <1>3, <1>7, <2>1, <2>2, SeenGrows DEF Shows
  <2>4. Carried(deliveries, k) \/ Carried(messages, k) => Carried(deliveries', k)
    BY <1>2, <2>1, CarriedJoined
  <2>5. ~Answered(i, k)
    BY <2>1 DEF Answered
  <2>6. ~ToBeAsked(t)
    BY <2>1 DEF ToBeAsked, Early
  <2>7. Owed(t) => Owed(t)'
    <3> SUFFICES ASSUME Owed(t) PROVE Owed(t)'
      OBVIOUS
    <3>1. /\ query \in Question /\ query.answer # <<>> /\ query.sentAt =< query.evaluatedAt
      BY <2>1 DEF TypeInv, App, Asking
    <3>2. query.sentAt \in Int /\ query.evaluatedAt \in Int
      <4>1. query.sentAt \in 0..now /\ query.evaluatedAt \in 0..now
        BY <3>1 DEF Question
      <4> QED
        BY <4>1
    <3>3. t >= query.evaluatedAt
      BY <2>1, <3>1 DEF Owed, InQuery
    <3>4. t >= query.sentAt - Slack
      BY <1>3, <3>1, <3>2, <3>3, Numbers
    <3>5. After(t, deliveries')
      BY <1>2, <2>1, AfterJoined DEF Owed, Later
    <3>6. After(t, messages')
      <4>1. DOMAIN messages' = {}
        BY <2>1
      <4> QED
        BY <4>1 DEF After
    <3>7. Later(t)'
      BY <2>1, <3>4, <3>5 DEF Later
    <3> QED
      BY <2>1, <3>6, <3>7 DEF Owed
  <2> QED
    BY <1>1, <1>4, <2>3, <2>4, <2>5, <2>6, <2>7 DEF Safe, Lands, OnWire
<1> QED
  BY <1>1, <1>5, <1>6, <1>7

(* A base result with data shows what an answer without data left out.     *)
LEMMA BaseShows ==
  ASSUME TypeInv, BaseIs, InQuery => Complete, RunHandler, Head(handlerQueue).kind = "base",
         NEW k \in DOMAIN log, k =< unanswered
  PROVE  seen'[log[k].item] >= k
<1> DEFINE b == Head(handlerQueue)
           i == log[k].item
<1>1. /\ handlerQueue # <<>> /\ b \in HandlerBlock /\ b.kind = "base"
      /\ Display(b.versions) /\ pc = "answered"
  BY HandlerRuns
<1>2. b = handlerQueue[1] /\ 1 \in DOMAIN handlerQueue
  BY <1>1, FirstAndRest DEF TypeInv, App, Queued
<1>3. b.versions \in Real
  BY <1>1, HandlerBlockIs
<1>4. b.versions = query.answer[1]
  BY <1>1, <1>2 DEF BaseIs
<1>5. /\ query.method = "base" /\ query.answer # <<>> /\ InQuery
  BY <1>1 DEF TypeInv, App, Asking, InQuery
<1>6. i \in Items /\ k \in Nat
  BY Numbers
<1>7. DOMAIN b.versions = Items /\ b.versions[i] >= k
  BY <1>4, <1>5 DEF Complete
<1> HIDE DEF b, i
<1>8. seen'[i] >= k
  BY <1>1, <1>3, <1>6, <1>7, SeenGrows
<1> QED
  BY <1>8 DEF i

LEMMA BeginSafe ==
  ASSUME TypeInv, Saved, BeginSync, NEW k \in DOMAIN log, NEW i, NEW t, i = log[k].item, Safe(i, t, k)
  PROVE  Safe(i, t, k)'
<1>1. /\ UNCHANGED <<wire, sentFrom, messages, deliveries, storeQueue, handlerQueue>>
      /\ pc = "idle" /\ pc' \in {"subscribing", "choosing"}
      /\ lastSyncTime' \in {lastSyncTime, savedSyncTime}
      /\ (Display(store) \/ seen' = seen)
  BY DEF BeginSync, queues
<1>2. i \in Items /\ k \in Nat /\ store \in Real
  BY Numbers, WholeIsReal DEF TypeInv, App, Caches
<1>3. seen[i] >= k => seen'[i] >= k
  BY <1>1, <1>2, SeenGrows
<1>4. Later(t) => ToBeAsked(t)'
  BY <1>1 DEF Saved, Later, ToBeAsked, Early
<1>5. ToBeAsked(t) \/ Owed(t) => ToBeAsked(t)'
  BY <1>1, <1>4 DEF ToBeAsked, Owed, Early
<1>6. ~Answered(i, k)
  BY <1>1 DEF Answered
<1> QED
  BY <1>1, <1>3, <1>5, <1>6 DEF Safe, Lands, OnWire

(* What the muting of the messages' blocks leaves, and what it takes.      *)
LEMMA MutedShows ==
  ASSUME Fresh, NEW k \in DOMAIN log, NEW i, ShownBy(storeQueue, i, k)
  PROVE  ShownBy(Muted, i, k) \/ now =< log[k].time + MaxTravel
<1>1. PICK n \in DOMAIN storeQueue : Shows(storeQueue[n], i, k)
  BY DEF ShownBy
<1>2. n \in DOMAIN Muted
      /\ Muted[n] = IF storeQueue[n].kind = "message" THEN [kind |-> "unheard"] ELSE storeQueue[n]
  BY DEF Muted
<1>3. CASE storeQueue[n].kind = "message"
  BY <1>1, <1>3 DEF Shows, Fresh
<1>4. CASE storeQueue[n].kind # "message"
  BY <1>1, <1>2, <1>4 DEF ShownBy
<1> QED
  BY <1>3, <1>4

LEMMA OnWireIsRecent ==
  ASSUME TypeInv, NEW k, OnWire(k)
  PROVE  now =< log[k].time + MaxTravel
BY DEF OnWire, TypeInv, Lines

LEMMA ConnectedSafe ==
  ASSUME TypeInv, Steady, Fresh, Connected, NEW k \in DOMAIN log, NEW i, NEW t, i = log[k].item,
         t = log[k].time, Safe(i, t, k)
  PROVE  Safe(i, t, k)'
<1>1. /\ UNCHANGED <<messages, deliveries, handlerQueue, seen, lastSyncTime>>
      /\ pc = "subscribing" /\ pc' = "choosing" /\ (storeQueue' = storeQueue \/ storeQueue' = Muted)
  BY DEF Connected, times, queue
<1>2. Later(t) => ToBeAsked(t)'
  BY <1>1 DEF ToBeAsked, Later, Early
<1>3. ToBeAsked(t) => ToBeAsked(t)'
  BY <1>1, <1>2 DEF ToBeAsked, Early
<1>4. ~Answered(i, k) /\ ~Owed(t)
  BY <1>1 DEF Answered, Owed, InQuery
<1>5. now =< t + MaxTravel => ToBeAsked(t)'
  <2>1. t \in Int /\ MaxTravel =< Slack
    BY Numbers DEF Steady, Recoverable
  <2> QED
    BY <1>2, <2>1, TravellingIsRecent, RecentIsLater
<1>6. ShownBy(storeQueue, i, k) => ShownBy(storeQueue', i, k) \/ ToBeAsked(t)'
  BY <1>1, <1>5, MutedShows
<1>7. OnWire(k) => ToBeAsked(t)'
  BY <1>5, OnWireIsRecent
<1> QED
  BY <1>1, <1>3, <1>4, <1>6, <1>7 DEF Safe, Lands

LEMMA CloseOldSafe ==
  ASSUME TypeInv, Steady, CloseOld, NEW k \in DOMAIN log, NEW i, NEW t, i = log[k].item,
         t = log[k].time, Safe(i, t, k)
  PROVE  Safe(i, t, k)'
<1>1. /\ UNCHANGED <<messages, deliveries, storeQueue, handlerQueue, seen, lastSyncTime>>
      /\ UNCHANGED <<pc, query>> /\ pc = "subscribing"
  BY DEF CloseOld, times, queue, queues, sync, history
<1>2. Later(t) => ToBeAsked(t)'
  BY <1>1 DEF ToBeAsked, Later, Early
<1>3. OnWire(k) => ToBeAsked(t)'
  <2>1. t \in Int /\ MaxTravel =< Slack
    BY Numbers DEF Steady, Recoverable
  <2> QED
    BY <1>2, <2>1, OnWireIsRecent, TravellingIsRecent, RecentIsLater
<1>4. ToBeAsked(t) => ToBeAsked(t)'
  BY <1>1, <1>2 DEF ToBeAsked, Early
<1>5. ~Owed(t)
  BY <1>1 DEF Owed, InQuery
<1> QED
  BY <1>1, <1>3, <1>4, <1>5 DEF Safe, Lands, Answered

(* What a lost connection or cancel() may lose is recent: the sync that    *)
(* runs, or the next one, asks for it.                                     *)
LEMMA LostIsSafe ==
  ASSUME TypeInv, Steady, BaseIs, InQuery => Complete, ~Rejected,
         UNCHANGED <<now, messages, deliveries, handlerQueue, seen, lastSyncTime, pc, query>>,
         NEW k \in DOMAIN log, NEW i, NEW t, i = log[k].item, t = log[k].time,
         now =< t + MaxTravel, Early \/ Missed(k)'
  PROVE  Safe(i, t, k)'
<1>1. t \in Int /\ MaxTravel =< Slack
  BY Numbers DEF Steady, Recoverable
<1>2. t >= now - Slack
  BY <1>1, TravellingIsRecent
<1>3. CASE Early
  <2>1. Later(t)
    BY <1>1, <1>2, RecentIsLater
  <2> QED
    BY <1>3, <2>1 DEF Safe, ToBeAsked, Early, Later
<1>4. CASE Missed(k)'
  <2>1. Owed(t) \/ ToBeAsked(t) \/ Answered(i, k) \/ ShownBy(handlerQueue, i, k)
    BY <1>2, RecentIsOwed
  <2>2. /\ Owed(t) => Owed(t)'
        /\ ToBeAsked(t) => ToBeAsked(t)'
        /\ Answered(i, k) \/ ShownBy(handlerQueue, i, k) => Lands(i, k)'
    BY DEF Owed, ToBeAsked, Early, Later, InQuery, Answered, Lands
  <2> QED
    BY <1>4, <2>1, <2>2 DEF Safe
<1> QED
  BY <1>3, <1>4

LEMMA CancelSafe ==
  ASSUME TypeInv, Steady, Fresh, BaseIs, InQuery => Complete, ~Rejected, Cancel,
         NEW k \in DOMAIN log, NEW i, NEW t, i = log[k].item, t = log[k].time, Safe(i, t, k),
         Missed(k) => Missed(k)'
  PROVE  Safe(i, t, k)'
<1>1. /\ UNCHANGED <<now, messages, deliveries, handlerQueue, seen, lastSyncTime, pc, query>>
      /\ storeQueue' = storeQueue \/ storeQueue' = Muted
      /\ UNCHANGED sentFrom
      /\ Early \/ Missed(k)'
  BY DEF Cancel, backend, times, queue, history, Early, Missed, Gone
<1>2. now =< t + MaxTravel => Safe(i, t, k)'
  BY <1>1, LostIsSafe
<1>3. ToBeAsked(t) \/ (Missed(k) /\ Owed(t)) => Safe(i, t, k)'
  BY <1>1 DEF Safe, ToBeAsked, Early, Later, Owed, InQuery
<1>4. OnWire(k) => Safe(i, t, k)'
  BY <1>2, OnWireIsRecent
<1>5. ShownBy(storeQueue, i, k) => Safe(i, t, k)'
  BY <1>1, <1>2, MutedShows DEF Safe, Lands
<1>6. \/ seen[i] >= k \/ Carried(messages, k) \/ Carried(deliveries, k)
      \/ ShownBy(handlerQueue, i, k) \/ Answered(i, k)
      => Safe(i, t, k)'
  BY <1>1 DEF Safe, Lands, Answered
<1> QED
  BY <1>3, <1>4, <1>5, <1>6 DEF Safe, Lands

LEMMA DropSafe ==
  ASSUME TypeInv, Steady, BaseIs, InQuery => Complete, ~Rejected, Drop,
         NEW k \in DOMAIN log, NEW i, NEW t, i = log[k].item, t = log[k].time, Safe(i, t, k),
         Missed(k) => Missed(k)'
  PROVE  Safe(i, t, k)'
<1>1. /\ UNCHANGED <<now, messages, deliveries, handlerQueue, seen, lastSyncTime, pc, query>>
      /\ UNCHANGED <<storeQueue, sentFrom>> /\ ~listening'
  BY DEF Drop, Disconnect, backend, sync, times, queue, queues, history
<1>2. OnWire(k) => Safe(i, t, k)'
  <2>1. OnWire(k) => Missed(k)'
    BY <1>1 DEF OnWire, Missed
  <2> QED
    BY <1>1, <2>1, OnWireIsRecent, LostIsSafe
<1>3. ToBeAsked(t) \/ (Missed(k) /\ Owed(t)) => Safe(i, t, k)'
  BY <1>1 DEF Safe, ToBeAsked, Early, Later, Owed, InQuery
<1> QED
  BY <1>1, <1>2, <1>3 DEF Safe, Lands, Answered

LEMMA ArriveSafe ==
  ASSUME TypeInv, Arrive, NEW k \in DOMAIN log, NEW i, NEW t, Safe(i, t, k), Missed(k) => Missed(k)'
  PROVE  Safe(i, t, k)'
<1>1. /\ UNCHANGED <<sentFrom, pc, query>>
      /\ UNCHANGED <<messages, deliveries, handlerQueue, seen, lastSyncTime>>
  BY DEF Arrive, times, queue, sync, history
<1>2. PICK n \in DOMAIN wire, copies \in 1..2 :
        /\ wire' = RemoveAt(wire, n)
        /\ LET once == <<Message(wire[n]), Publish(Version(wire[n]))>>
           IN  storeQueue' = storeQueue \o (IF copies = 1 THEN once ELSE once \o once)
  BY DEF Arrive
<1> DEFINE a == Message(wire[n])
           b == Publish(Version(wire[n]))
           once == <<a, b>>
<1>3. IsSeq(storeQueue) /\ IsSeq(wire)
  BY SeqsThere
<1>4. wire[n] = k => Shows(a, i, k)
  BY DEF Shows, Message
<1>5. storeQueue' = storeQueue \o once \/ storeQueue' = storeQueue \o (once \o once)
  BY <1>2
<1> HIDE DEF a, b
<1>6. once \in Seq({a, b}) /\ 1 \in DOMAIN once /\ once[1] = a
  OBVIOUS
<1> HIDE DEF once
<1>7. IsSeq(once) /\ IsSeq(once \o once)
  BY <1>6, SeqJoin DEF IsSeq
<1>8. wire[n] = k => ShownBy(once, i, k) /\ ShownBy(once \o once, i, k)
  BY <1>4, <1>6, <1>7, ShownJoined DEF ShownBy
<1>9. (ShownBy(storeQueue, i, k) \/ wire[n] = k) => ShownBy(storeQueue', i, k)
  BY <1>3, <1>5, <1>7, <1>8, ShownJoined
<1>10. OnWire(k) => OnWire(k)' \/ wire[n] = k
  <2>1. \A m \in DOMAIN wire : m # n => \E l \in DOMAIN wire' : wire'[l] = wire[m]
    BY <1>2, <1>3, SeqRemove
  <2> QED
    BY <1>1, <2>1 DEF OnWire
<1>11. (ToBeAsked(t) => ToBeAsked(t)') /\ (Owed(t) => Owed(t)')
  BY <1>1 DEF ToBeAsked, Owed, Later, InQuery, Early
<1>12. OnWire(k) => OnWire(k)' \/ ShownBy(storeQueue', i, k)
  BY <1>9, <1>10
<1> QED
  BY <1>1, <1>9, <1>11, <1>12 DEF Safe, Lands, Answered

LEMMA DeliverSafe ==
  ASSUME TypeInv, Deliver, NEW k \in DOMAIN log, NEW i, NEW t, i = log[k].item, Safe(i, t, k),
         Missed(k) => Missed(k)'
  PROVE  Safe(i, t, k)'
<1> DEFINE m == Head(deliveries)
           s == Show(Version(m.change))
           h == [kind |-> "held"]
<1>1. /\ UNCHANGED <<wire, sentFrom, messages, seen, lastSyncTime, pc, query>>
      /\ deliveries # <<>>
      /\ \/ /\ handlerQueue' = Append(handlerQueue, s)
            /\ deliveries' = Tail(deliveries) /\ storeQueue' = storeQueue
         \/ storeQueue' = Append(storeQueue, h) /\ UNCHANGED <<handlerQueue, deliveries>>
  BY DEF Deliver, backend, link, sync, times
<1>2. IsSeq(storeQueue) /\ IsSeq(handlerQueue) /\ IsSeq(deliveries)
  BY SeqsThere
<1>3. m.change = k => Shows(s, i, k)
  BY VersionShows DEF TypeInv
<1>4. Carried(deliveries, k) => m.change = k \/ Carried(Tail(deliveries), k)
  BY <1>1, <1>2, CarriedTail
<1>5. After(t, deliveries) => After(t, Tail(deliveries))
  BY <1>1, <1>2, TailHolds
<1> HIDE DEF m, s, h
<1>6. /\ ShownBy(handlerQueue, i, k) => ShownBy(handlerQueue', i, k)
      /\ ShownBy(storeQueue, i, k) => ShownBy(storeQueue', i, k)
      /\ Carried(deliveries, k) => Carried(deliveries', k) \/ ShownBy(handlerQueue', i, k)
  BY <1>1, <1>2, <1>3, <1>4, ShownAppended
<1>7. Later(t) => Later(t)'
  BY <1>1, <1>5 DEF Later
<1>8. Owed(t) => Owed(t)'
  BY <1>1, <1>7 DEF Owed, InQuery
<1>9. ToBeAsked(t) => ToBeAsked(t)'
  BY <1>1, <1>7 DEF ToBeAsked, Early
<1> QED
  BY <1>1, <1>6, <1>8, <1>9 DEF Safe, Lands, OnWire, Answered

(* The query asks for what the sync is to ask for.                         *)
LEMMA RunQuerySafe ==
  ASSUME TypeInv, RunQuery, NEW k \in DOMAIN log, NEW i, NEW t, Safe(i, t, k)
  PROVE  Safe(i, t, k)'
<1>1. /\ UNCHANGED <<wire, sentFrom, messages, deliveries, storeQueue, handlerQueue, seen>>
      /\ pc = "choosing" /\ pc' = "querying" /\ query'.answer = <<>>
      /\ query'.method = methodToUseForSync /\ query'.since = lastSyncTime
  BY DEF RunQuery, link, queue, queues, history
<1>2. Later(t) => ToBeAsked(t)'
  <2>1. lastSyncTime = None => query'.method = "base"
    BY <1>1 DEF methodToUseForSync
  <2> QED
    BY <1>1, <2>1 DEF ToBeAsked, Later
<1>3. ToBeAsked(t) => ToBeAsked(t)'
  BY <1>1, <1>2 DEF ToBeAsked
<1>4. ~Answered(i, k) /\ ~Owed(t)
  BY <1>1 DEF Answered, Owed, InQuery
<1> QED
  BY <1>1, <1>3, <1>4 DEF Safe, Lands, OnWire

(* The answer brings what the query asks for.                              *)
LEMMA EvaluateSafe ==
  ASSUME TypeInv, Evaluate, NEW k \in DOMAIN log, NEW i, NEW t, i = log[k].item, t = log[k].time,
         Safe(i, t, k)
  PROVE  Safe(i, t, k)'
<1> DEFINE asked == IF query.method = "base" THEN Items
                    ELSE {j \in Items : ChangedSince(j, query.since)}
           v == [j \in asked |-> Latest(j)]
<1>1. /\ UNCHANGED <<wire, sentFrom, messages, deliveries, storeQueue, handlerQueue, seen>>
      /\ pc = "querying" /\ pc' = "querying" /\ query.answer = <<>>
  BY DEF Evaluate, link, queue, queues, history
<1>2. query' = [query EXCEPT !.answer = <<v>>, !.evaluatedAt = now]
  BY DEF Evaluate
<1>3. query \in Question /\ (query.method = "delta" => query.since # None)
  BY <1>1 DEF TypeInv, App, Asking
<1>4. query'.answer = <<v>> /\ query.method \in {"base", "delta"} /\ query.since \in SoFar
  BY <1>2, <1>3 DEF Question
<1>5. i \in Items /\ k \in Nat /\ k \in ChangesOf(i) /\ t \in Nat
  BY Numbers DEF ChangesOf
<1>6. IsMax(Latest(i), ChangesOf(i)) /\ DOMAIN log = 1..Len(log) /\ Len(log) \in Nat
  BY <1>5, LatestIsMax DEF TypeInv
<1>7. Latest(i) \in DOMAIN log /\ k =< Latest(i) /\ Latest(i) # 0 /\ Latest(i) \in Nat
  BY <1>5, <1>6 DEF IsMax, ChangesOf
<1>8. i \in asked => Answered(i, k)'
  <2> SUFFICES ASSUME i \in asked PROVE Answered(i, k)'
    OBVIOUS
  <2>1. i \in DOMAIN v /\ v[i] = Latest(i)
    OBVIOUS
  <2> HIDE DEF v, asked
  <2>2. v[i] >= k
    BY <1>5, <1>7, <2>1
  <2>3. <<v>> # <<>> /\ <<v>>[1] = v
    OBVIOUS
  <2> QED
    BY <1>1, <1>4, <2>1, <2>2, <2>3 DEF Answered
<1>9. ToBeAsked(t) => i \in asked
  <2> SUFFICES ASSUME ToBeAsked(t), query.method # "base" PROVE ChangedSince(i, query.since)
    BY <1>5
  <2>1. t >= query.since
    BY <1>1 DEF ToBeAsked, Early
  <2>2. query.since \in Int
    BY <1>3, <1>4, SinceInSoFar
  <2>3. t =< log[Latest(i)].time /\ log[Latest(i)].time \in Nat
    BY <1>7, Numbers DEF TypeInv, World
  <2>4. log[Latest(i)].time >= query.since
    BY <1>5, <2>1, <2>2, <2>3
  <2> QED
    BY <1>7, <2>4 DEF ChangedSince
<1>10. ~Answered(i, k) /\ ~Owed(t)
  BY <1>1 DEF Answered, Owed
<1> QED
  BY <1>1, <1>8, <1>9, <1>10 DEF Safe, Lands, OnWire

LEMMA AnsweredSafe ==
  ASSUME TypeInv, Steady, BaseAnswered \/ DeltaAnswered, NEW k \in DOMAIN log, NEW i, NEW t,
         t = log[k].time, Safe(i, t, k), Missed(k) => Missed(k)'
  PROVE  Safe(i, t, k)'
<1> DEFINE v == query.answer[1]
           a == Show(v)
           b == Publish(v)
           c == [kind |-> "base", versions |-> v]
<1>1. /\ UNCHANGED <<now, wire, sentFrom, seen>>
      /\ pc = "querying" /\ query.answer # <<>>
  BY DEF BaseAnswered, DeltaAnswered, backend, link, history
<1>2. \/ /\ BaseAnswered
         /\ UNCHANGED <<messages, deliveries, lastSyncTime, query>> /\ pc' = "answered"
         /\ handlerQueue' = Append(handlerQueue, c) /\ storeQueue' = Append(storeQueue, b)
      \/ /\ DeltaAnswered
         /\ deliveries' = deliveries \o messages /\ messages' = <<>>
         /\ lastSyncTime' = now - Slack /\ pc' = "idle"
         /\ handlerQueue' = handlerQueue /\ storeQueue' = storeQueue \o <<a, b>>
  <2>1. CASE BaseAnswered
    BY <2>1 DEF BaseAnswered, queue, times
  <2>2. CASE DeltaAnswered
    <3>1. FinishSync(TRUE) /\ setLastSyncTime(now) /\ handlerQueue' = handlerQueue
      BY <2>2 DEF DeltaAnswered
    <3>2. storeQueue' = storeQueue \o <<a, b>>
      BY <2>2 DEF DeltaAnswered
    <3> HIDE DEF a, b
    <3> QED
      BY <2>2, <3>1, <3>2 DEF FinishSync, startDelivery, setLastSyncTime
  <2> QED
    BY <2>1, <2>2
<1>3. /\ IsSeq(storeQueue) /\ IsSeq(handlerQueue) /\ IsSeq(messages) /\ IsSeq(deliveries)
  BY SeqsThere
<1>4. Answered(i, k) => Shows(a, i, k) /\ Shows(c, i, k)
  BY DEF Answered, Shows, Show
<1> HIDE DEF a, b, c, v
<1>5. storeQueue \o <<a, b>> = Append(Append(storeQueue, a), b)
  BY <1>3, TwoAppended
<1>6. IsSeq(Append(storeQueue, a))
  BY <1>3, SeqAppend
<1>7. /\ ShownBy(storeQueue, i, k) => ShownBy(storeQueue', i, k)
      /\ ShownBy(handlerQueue, i, k) => ShownBy(handlerQueue', i, k)
      /\ Answered(i, k) => ShownBy(storeQueue', i, k) \/ ShownBy(handlerQueue', i, k)
  BY <1>2, <1>3, <1>4, <1>5, <1>6, ShownAppended
<1>8. Carried(messages, k) \/ Carried(deliveries, k) => Carried(messages', k) \/ Carried(deliveries', k)
  BY <1>2, <1>3, CarriedJoined
<1>9. ~ToBeAsked(t)
  BY <1>1 DEF ToBeAsked, Early
<1>10. Owed(t) => Owed(t)'
  <2> SUFFICES ASSUME Owed(t) PROVE Owed(t)'
    OBVIOUS
  <2>1. InQuery /\ t >= query.evaluatedAt
    BY <1>1 DEF Owed, InQuery
  <2>2. CASE BaseAnswered
    <3>1. UNCHANGED <<messages, deliveries, lastSyncTime, query>> /\ pc' = "answered"
      BY <2>2 DEF BaseAnswered, queue, times
    <3> QED
      BY <1>1, <2>1, <3>1 DEF Owed, Later, InQuery
  <2>3. CASE ~BaseAnswered
    <3>1. /\ deliveries' = deliveries \o messages /\ messages' = <<>>
          /\ lastSyncTime' = now - Slack /\ pc' = "idle"
      BY <1>2, <2>3
    <3>2. t >= now - Slack
      <4>1. t \in Nat
        BY Numbers
      <4> QED
        BY <2>1, <4>1, OwedIsRecent
    <3>3. After(t, deliveries')
      BY <1>3, <3>1, AfterJoined DEF Owed, Later
    <3>4. After(t, messages')
      <4>1. DOMAIN messages' = {}
        BY <3>1
      <4> QED
        BY <4>1 DEF After
    <3> QED
      BY <3>1, <3>2, <3>3, <3>4 DEF Owed, Later
  <2> QED
    BY <2>2, <2>3
<1> QED
  BY <1>1, <1>7, <1>8, <1>9, <1>10 DEF Safe, Lands, OnWire

LEMMA ElsewhereSafe ==
  ASSUME TypeInv, NEW k \in DOMAIN log, NEW i, NEW t, Safe(i, t, k), Missed(k) => Missed(k)',
         \/ Tick \/ Reconnect \/ Subscribed \/ TimerFires \/ SyncNotice
         \/ (\E j \in Items : Change(j)) \/ UNCHANGED vars
  PROVE  Safe(i, t, k)'
<1>1. /\ UNCHANGED <<messages, deliveries, storeQueue, handlerQueue, seen, lastSyncTime>>
      /\ UNCHANGED <<pc, query, sentFrom>>
      /\ (wire' = wire \/ wire' = Append(wire, Len(log) + 1))
  BY DEF Tick, Reconnect, Subscribed, TimerFires, SyncNotice, Change, vars, link, times, queue, queues,
     sync, history
<1>2. OnWire(k) => OnWire(k)'
  <2>1. wire \in Seq(Nat) /\ Len(log) + 1 \in Nat
    <3>1. wire \in Seq(DOMAIN log) /\ DOMAIN log \subseteq Nat /\ Len(log) \in Nat
      BY Numbers DEF TypeInv, Lines, World
    <3> QED
      BY <3>1, SeqWiden
  <2>2. \A n \in DOMAIN wire : n \in DOMAIN wire' /\ wire'[n] = wire[n]
    BY <1>1, <2>1, SeqAdd
  <2> QED
    BY <1>1, <2>2 DEF OnWire
<1>3. (Owed(t) => Owed(t)') /\ (ToBeAsked(t) => ToBeAsked(t)')
  BY <1>1 DEF Owed, ToBeAsked, Early, Later, InQuery
<1> QED
  BY <1>1, <1>2, <1>3 DEF Safe, Lands, Answered

(* What changes now is owed, or still asked for.                           *)
LEMMA NowIsOwed ==
  ASSUME TypeInv
  PROVE  Owed(now) \/ ToBeAsked(now)
<1>1. now \in Int /\ now >= now - Slack
  BY Numbers
<1>2. Later(now) /\ After(now, messages)
  BY <1>1, RecentIsLater
<1>3. CASE InQuery
  <2>1. query \in Question /\ (query.method = "delta" => query.since # None)
        /\ (query.answer = <<>> => pc = "querying")
    BY <1>3 DEF InQuery, TypeInv, App, Asking
  <2>2. query.method \in {"base", "delta"} /\ query.since \in SoFar /\ query.evaluatedAt \in 0..now
    BY <2>1 DEF Question
  <2>3. query.since # None => query.since \in Int /\ query.since =< now - Slack
    BY <2>2, SinceInSoFar
  <2>4. CASE query.answer = <<>>
    BY <2>1, <2>2, <2>3, <2>4, Numbers DEF ToBeAsked
  <2>5. CASE query.answer # <<>>
    <3>1. now >= query.evaluatedAt
      BY <2>2
    <3> QED
      BY <1>2, <1>3, <2>5, <3>1 DEF Owed
  <2> QED
    BY <2>4, <2>5
<1>4. CASE ~InQuery
  <2>1. pc = "idle" \/ Early
    BY <1>4 DEF TypeInv, App, Control, InQuery, Early
  <2> QED
    BY <1>2, <2>1 DEF Owed, ToBeAsked
<1> QED
  BY <1>3, <1>4

(* A new change is sent to whoever listens.                                *)
LEMMA NewIsSafe ==
  ASSUME TypeInv, NEW j \in Items, Change(j), NEW k \in DOMAIN log', k \notin DOMAIN log,
         NEW i, NEW t, t = log'[k].time
  PROVE  Safe(i, t, k)'
<1> DEFINE S == [item : Items, time : 0..now]
           x == [item |-> j, time |-> now]
<1>1. log \in Seq(S) /\ x \in S /\ x.time = now /\ log' = Append(log, x)
  BY Numbers DEF TypeInv, World, Change
<1>2. /\ UNCHANGED <<now, messages, deliveries, lastSyncTime>>
      /\ UNCHANGED <<pc, query, listening, sentFrom>>
      /\ wire' = IF listening THEN Append(wire, Len(log) + 1) ELSE wire
  BY DEF Change, sync, times, queue, history
<1> HIDE DEF S, x
<1>3. /\ DOMAIN log = 1..Len(log) /\ DOMAIN log' = 1..(Len(log) + 1) /\ Len(log) \in Nat
      /\ log'[Len(log) + 1] = x
  BY <1>1, SeqAdd
<1>4. k = Len(log) + 1 /\ t = now
  BY <1>1, <1>3
<1>5. k > sentFrom'
  <2>1. sentFrom \in 0..Len(log)
    BY DEF TypeInv, Marks
  <2> QED
    BY <1>2, <1>3, <1>4, <2>1
<1>6. CASE listening
  <2>1. wire \in Seq(Nat) /\ k \in Nat /\ wire' = Append(wire, k)
    <3>1. wire \in Seq(DOMAIN log) /\ DOMAIN log \subseteq Nat
      BY Numbers DEF TypeInv, Lines
    <3> QED
      BY <1>2, <1>3, <1>4, <1>6, <3>1, SeqWiden
  <2>2. Len(wire) + 1 \in DOMAIN wire' /\ wire'[Len(wire) + 1] = k
    BY <2>1, SeqAdd
  <2> QED
    BY <1>5, <2>2 DEF Safe, Lands, OnWire
<1>7. CASE ~listening
  <2>1. Missed(k)'
    BY <1>2, <1>5, <1>7 DEF Missed
  <2>2. Owed(t)' \/ ToBeAsked(t)'
    BY <1>2, <1>4, NowIsOwed DEF Owed, ToBeAsked, Early, Later, InQuery
  <2> QED
    BY <2>1, <2>2 DEF Safe
<1> QED
  BY <1>6, <1>7

(* What holds whatever is missed.                                          *)
Level == Counts /\ Saved /\ Fresh /\ Silent /\ Handing /\ BaseIs

LEMMA LevelStep ==
  ASSUME TypeInv, TypeInv', Grown, Steady, [Next]_vars, Level
  PROVE  Level'
<1>1. Counts /\ Saved /\ Fresh /\ Silent /\ Handing /\ BaseIs
  BY DEF Level
<1>2. Counts' /\ Saved'
  BY <1>1, SteadySteps, SavedStep
<1>3. Fresh' /\ Silent' /\ Handing' /\ BaseIs'
  BY <1>1, FreshStep, SilentStep, HandingStep, BaseIsStep
<1> QED
  BY <1>2, <1>3 DEF Level

(* The handlers' queue runs an answer without data.                        *)
RejectionRuns == RunHandler /\ Head(handlerQueue).kind = "rejected"

(* An answer without data waits until the handlers' queue runs it.         *)
LEMMA RejectionWaits ==
  ASSUME TypeInv, BaseRejected
  PROVE  Rejected'
<1> DEFINE c == [kind |-> "rejected"]
<1>1. handlerQueue' = Append(handlerQueue, c) /\ c.kind = "rejected"
  BY DEF BaseRejected
<1> HIDE DEF c
<1>2. PICK S : handlerQueue \in Seq(S)
  BY DEF TypeInv, App, Queued
<1>3. handlerQueue \in Seq(S \cup {c})
  BY <1>2, SeqWiden
<1>4. Len(handlerQueue) + 1 \in DOMAIN handlerQueue' /\ handlerQueue'[Len(handlerQueue) + 1] = c
  BY <1>1, <1>3, SeqAdd
<1> QED
  BY <1>1, <1>4 DEF Rejected

LEMMA RejectionStays ==
  ASSUME TypeInv, [Next]_vars, Steady, Counts, ~RejectionRuns, Rejected
  PROVE  Rejected'
<1>1. ~SubscribeFails /\ ~SkipQuery /\ ~QueryFails /\ ~Restart
  BY SteadySteps
<1>2. IsSeq(handlerQueue)
  BY SeqsThere
<1>3. PICK n \in DOMAIN handlerQueue : handlerQueue[n].kind = "rejected"
  BY DEF Rejected
<1>4. ASSUME NEW b, handlerQueue' = Append(handlerQueue, b) PROVE Rejected'
  <2>1. PICK S : handlerQueue \in Seq(S)
    BY <1>2 DEF IsSeq
  <2>2. handlerQueue \in Seq(S \cup {b})
    BY <2>1, SeqWiden
  <2>3. n \in DOMAIN handlerQueue' /\ handlerQueue'[n] = handlerQueue[n]
    BY <1>4, <2>2, SeqAdd
  <2> QED
    BY <1>3, <2>3 DEF Rejected
<1>5. CASE RunHandler
  <2>1. handlerQueue # <<>> /\ handlerQueue' = Tail(handlerQueue)
    BY <1>5 DEF RunHandler
  <2>2. handlerQueue[n] # Head(handlerQueue)
    BY <1>3, <1>5 DEF RejectionRuns
  <2>3. \E m \in DOMAIN Tail(handlerQueue) : Tail(handlerQueue)[m] = handlerQueue[n]
    BY <1>2, <2>1, <2>2, HeadOrTail
  <2> QED
    BY <1>3, <2>1, <2>3 DEF Rejected
<1>6. CASE RunStore \/ Deliver \/ BaseAnswered \/ BaseRejected
  <2>1. handlerQueue' = handlerQueue \/ \E b : handlerQueue' = Append(handlerQueue, b)
    <3>1. CASE RunStore
      BY <3>1, StoreRuns
    <3>2. CASE Deliver
      BY <3>2 DEF Deliver
    <3>3. CASE BaseAnswered \/ BaseRejected
      BY <3>3 DEF BaseAnswered, BaseRejected
    <3> QED
      BY <1>6, <3>1, <3>2, <3>3
  <2> QED
    BY <1>4, <2>1 DEF Rejected
<1>7. CASE Tick
  <2>1. DOMAIN handlerQueue = {}
    BY <1>7 DEF Tick, Drained, Steady, Recoverable
  <2> QED
    BY <1>3, <2>1
<1>8. CASE ~(RunHandler \/ RunStore \/ Deliver \/ BaseAnswered \/ BaseRejected \/ Tick)
  <2>1. handlerQueue' = handlerQueue
    BY <1>1, <1>8 DEF Next, vars, queues, Drop, Reconnect, CloseOld, Connected, Subscribed, Change,
       Arrive, BeginSync, RunQuery, TimerFires, Evaluate, DeltaAnswered, DeltaRejected, SyncNotice,
       Cancel
  <2> QED
    BY <2>1 DEF Rejected
<1> QED
  BY <1>5, <1>6, <1>7, <1>8

LEMMA SafeStep ==
  ASSUME TypeInv, Stopped, InQuery => Complete, Level, Steady, [Next]_vars,
         ~Rejected, ~Rejected', ~DeltaRejected, ~RejectionRuns,
         NEW k \in DOMAIN log, NEW i, NEW t, i = log[k].item, t = log[k].time, Safe(i, t, k)
  PROVE  Safe(i, t, k)'
<1>1. Counts /\ Saved /\ Fresh /\ Silent /\ Handing /\ BaseIs
  BY DEF Level
<1>2. ~SubscribeFails /\ ~SkipQuery /\ ~QueryFails /\ ~Restart
  BY <1>1, SteadySteps
<1>3. CASE BeginSync
  BY <1>1, <1>3, BeginSafe
<1>4. CASE Connected
  BY <1>1, <1>4, ConnectedSafe
<1>5. ASSUME ~BeginSync, ~Connected PROVE Missed(k) => Missed(k)'
  BY <1>1, <1>5, MissedStep
<1>6. CASE RunStore /\ ~BeginSync /\ ~Connected
  BY <1>5, <1>6, RunStoreSafe
<1>7. CASE RunHandler /\ ~BeginSync /\ ~Connected
  BY <1>1, <1>5, <1>7, RunHandlerSafe DEF RejectionRuns
<1>8. CASE CloseOld
  BY <1>8, CloseOldSafe
<1>9. CASE (Cancel \/ Drop) /\ ~BeginSync /\ ~Connected
  BY <1>1, <1>5, <1>9, CancelSafe, DropSafe
<1>10. CASE (Arrive \/ Deliver) /\ ~BeginSync /\ ~Connected
  BY <1>5, <1>10, ArriveSafe, DeliverSafe
<1>11. CASE RunQuery \/ Evaluate
  BY <1>11, RunQuerySafe, EvaluateSafe
<1>12. CASE (BaseAnswered \/ DeltaAnswered) /\ ~BeginSync /\ ~Connected
  BY <1>5, <1>12, AnsweredSafe
<1>13. ~BaseRejected
  BY RejectionWaits
<1>14. CASE /\ \/ Tick \/ Reconnect \/ Subscribed \/ TimerFires \/ SyncNotice
               \/ (\E j \in Items : Change(j)) \/ UNCHANGED vars
            /\ ~BeginSync /\ ~Connected
  BY <1>5, <1>14, ElsewhereSafe
<1> QED
  BY <1>2, <1>3, <1>4, <1>6, <1>7, <1>8, <1>9, <1>10, <1>11, <1>12, <1>13, <1>14 DEF Next

(* Apart from what an answer without data has left out, and until one that *)
(* waits has run, every change has been shown, is on its way to the app,   *)
(* is asked for, or may be missing and is asked for by the next sync.      *)
AllSafe ==
  Rejected \/ \A k \in DOMAIN log : k > unanswered => Safe(log[k].item, log[k].time, k)
GapInv == Level /\ AllSafe

LEMMA GapStep ==
  ASSUME TypeInv, TypeInv', Stopped, InQuery => Complete, Grown, Steady, [Next]_vars, GapInv
  PROVE  GapInv'
<1>1. Level /\ Level'
  BY LevelStep DEF GapInv
<1>2. CASE Rejected'
  BY <1>1, <1>2 DEF GapInv, AllSafe
<1>3. CASE DeltaRejected \/ RejectionRuns
  <2>1. unanswered' = Len(log) /\ log' = log
    <3>1. CASE DeltaRejected
      BY <3>1 DEF DeltaRejected, backend
    <3>2. CASE RejectionRuns
      BY <3>2, HandlerRuns DEF RejectionRuns
    <3> QED
      BY <1>3, <3>1, <3>2
  <2>2. DOMAIN log = 1..Len(log) /\ Len(log) \in Nat
    BY DEF TypeInv, World
  <2> QED
    BY <1>1, <2>1, <2>2 DEF GapInv, AllSafe
<1>4. CASE ~Rejected' /\ ~DeltaRejected /\ ~RejectionRuns
  <2>1. ~Rejected
    BY <1>1, <1>4, RejectionStays DEF Level
  <2>2. \A k \in DOMAIN log : k > unanswered => Safe(log[k].item, log[k].time, k)
    BY <2>1 DEF GapInv, AllSafe
  <2> SUFFICES ASSUME NEW k \in DOMAIN log', k > unanswered'
               PROVE  Safe(log[k].item, log[k].time, k)'
    BY <1>1 DEF GapInv, AllSafe
  <2>3. PICK i, t : i = log'[k].item /\ t = log'[k].time
    OBVIOUS
  <2>4. CASE k \in DOMAIN log /\ k > unanswered
    <3>1. i = log[k].item /\ t = log[k].time
      BY <2>3, <2>4 DEF Grown
    <3>2. Safe(i, t, k)
      BY <2>2, <2>4, <3>1
    <3>3. Safe(i, t, k)'
      BY <1>1, <1>4, <2>1, <2>4, <3>1, <3>2, SafeStep
    <3> QED
      BY <2>3, <3>3
  <2>5. CASE k \in DOMAIN log /\ ~(k > unanswered)
    <3>1. i = log[k].item
      BY <2>3, <2>5 DEF Grown
    <3>2. unanswered' # unanswered
      BY <2>5
    <3>3. RunHandler /\ Head(handlerQueue).kind = "base"
      BY <1>4, <3>2, <1>1, UnansweredStays DEF DeltaEnds, BaseEnds, Ends, RejectionRuns, DeltaAnswered,
         history
    <3>4. k =< unanswered
      BY <2>5, MarksAreNumbers
    <3>5. seen'[i] >= k
      BY <1>1, <2>5, <3>1, <3>3, <3>4, BaseShows DEF Level
    <3> QED
      BY <2>3, <3>5 DEF Safe, Lands
  <2>6. CASE k \notin DOMAIN log
    <3>1. PICK j \in Items : Change(j)
      <4>1. log' # log
        BY <2>6
      <4> QED
        BY <4>1 DEF Next, vars, backend, Tick, Drop, Reconnect, CloseOld, Connected, SubscribeFails,
           Subscribed, Arrive, Deliver, RunStore, RunHandler, BeginSync, RunQuery, SkipQuery,
           TimerFires, Evaluate, BaseAnswered, DeltaAnswered, BaseRejected, DeltaRejected, QueryFails,
           SyncNotice, Cancel, Restart
    <3>2. Safe(i, t, k)'
      BY <2>3, <2>6, <3>1, NewIsSafe
    <3> QED
      BY <2>3, <3>2
  <2> QED
    BY <2>4, <2>5, <2>6
<1> QED
  BY <1>2, <1>3, <1>4

(* Where moreover requests to subscribe succeed: the query is sent once    *)
(* SUBSCRIBE has been, so what was there by then is asked for or on its    *)
(* way, and what comes after the broker has taken the subscription is sent *)
(* over it.  Connections that are lost, and cancel(), leave what they lose *)
(* to the next sync; an answer without data leaves out what it passes for. *)
THEOREM NoneMissed == ASSUME Steady PROVE Spec => []NoGap
<1>1. Init => GapInv
  <2> SUFFICES ASSUME Init PROVE GapInv
    OBVIOUS
  <2>1. /\ DOMAIN log = {} /\ DOMAIN storeQueue = {} /\ DOMAIN handlerQueue = {} /\ wire = <<>>
        /\ crashes = 0 /\ ~watching /\ ~replacing /\ ~listening /\ ~subscribing
        /\ lastSyncTime = None /\ savedSyncTime = None
        /\ messages = <<>> /\ deliveries = <<>> /\ handlerQueue = <<>> /\ isDelivering = FALSE
    BY DEF Init
  <2>2. Counts /\ Saved /\ Fresh /\ Silent /\ Handing /\ BaseIs
    BY <2>1 DEF Counts, Saved, Fresh, Silent, Handing, NotBegun, BaseIs, Gone
  <2>3. AllSafe
    BY <2>1 DEF AllSafe
  <2> QED
    BY <2>2, <2>3 DEF GapInv, Level
<1>2. TypeInv /\ TypeInv' /\ IInv /\ CoverInv /\ GapInv /\ [Next]_vars => GapInv'
  BY WorldGrows, GapStep DEF TypeInv, IInv, CoverInv
<1>3. TypeInv /\ TypeInv' /\ CoverInv /\ [Next]_vars => CoverInv'
  BY WorldGrows, CoverStep DEF TypeInv, Steady
<1>4. TypeInv /\ GapInv => NoGap
  <2> SUFFICES ASSUME TypeInv, GapInv, Quiet, NEW k \in DOMAIN log, k > unanswered,
                      k =< sentFrom \/ k > heardFrom
               PROVE  seen[log[k].item] >= k
    BY DEF NoGap
  <2>1. /\ DOMAIN wire = {} /\ DOMAIN storeQueue = {} /\ DOMAIN handlerQueue = {}
        /\ DOMAIN messages = {} /\ DOMAIN deliveries = {} /\ pc = "idle" /\ listening
    BY DEF Quiet, Drained
  <2>2. ~Missed(k)
    <3>1. ~Gone
      BY <2>1 DEF GapInv, Level, Silent
    <3> QED
      BY <2>1, <3>1, MarksAreNumbers DEF Missed
  <2>3. Safe(log[k].item, log[k].time, k)
    BY <2>1 DEF GapInv, AllSafe, Rejected
  <2> QED
    BY <2>1, <2>2, <2>3 DEF Safe, ToBeAsked, Early, Lands, OnWire, ShownBy, Carried, Answered
<1> QED
  BY <1>1, <1>2, <1>3, <1>4, InitCover, TypeInvariant, Invariant, PTL DEF Spec
=============================================================================
