------------------------ MODULE QueryWatchers_proofs ------------------------
(***************************************************************************)
(* Type correctness of QueryWatchers, and that what a load reads in two    *)
(* batches is what the cache held at one moment, for any number of         *)
(* watchers and items.  The lock a load holds keeps publishers out; that   *)
(* the lock is not given up early needs that no operation is in two queues *)
(* at a time (Queued).                                                     *)
(***************************************************************************)
EXTENDS QueryWatchers, TLAPS

(* An operation's block is in the store's queue while the operation waits, *)
(* and its answer in the main queue while it is answering, once.           *)
Once(q, kind, stage, os) ==
  /\ \A n \in DOMAIN q : q[n].kind = kind => os[q[n].op].stage = stage
  /\ \A n, m \in DOMAIN q :
       q[n].kind = kind /\ q[m].kind = kind /\ q[n].op = q[m].op => n = m

Queued ==
  /\ Once(storeQueue, "load", "waiting", ops)
  /\ Once(handlerQueue, "operation", "answering", ops)

IInv == TypeOK /\ Queued /\ WholeAnswers

-----------------------------------------------------------------------------
(* Queues.                                                                 *)

LEMMA OnceAppendOther ==
  ASSUME NEW S, NEW q \in Seq(S), NEW kind, NEW stage, NEW os, NEW b \in S,
         Once(q, kind, stage, os), b.kind # kind
  PROVE  Once(Append(q, b), kind, stage, os)
BY DEF Once

LEMMA OnceAppend ==
  ASSUME NEW S, NEW q \in Seq(S), NEW kind, NEW stage, NEW os, NEW b \in S,
         Once(q, kind, stage, os), b.kind = kind, os[b.op].stage = stage,
         \A n \in DOMAIN q : q[n].kind = kind => q[n].op # b.op
  PROVE  Once(Append(q, b), kind, stage, os)
BY DEF Once

LEMMA OnceTail ==
  ASSUME NEW S, NEW q \in Seq(S), NEW kind, NEW stage, NEW os,
         Once(q, kind, stage, os), q # <<>>
  PROVE  /\ Once(Tail(q), kind, stage, os)
         /\ Head(q).kind = kind =>
              \A n \in DOMAIN Tail(q) : Tail(q)[n].kind = kind => Tail(q)[n].op # Head(q).op
BY DEF Once

LEMMA OnceOps ==
  ASSUME NEW q, NEW kind, NEW stage, NEW os, NEW os2,
         Once(q, kind, stage, os),
         \A n \in DOMAIN q : q[n].kind = kind /\ os[q[n].op].stage = stage
                             => os2[q[n].op].stage = stage
  PROVE  Once(q, kind, stage, os2)
BY DEF Once

-----------------------------------------------------------------------------
(* Operations.                                                             *)

LEMMA NoOpType == NoOp \in Operation /\ \A p \in CachePolicy : NewOp(p) \in Operation
BY DEF NoOp, NewOp, Operation, Nothing, Content, Stages, CachePolicy

Fetched ==
  /\ ops' \in [Operations -> Operation]
  /\ fetching' \in [Watchers -> Operations \cup {None}]
  /\ \A w \in Watchers : fetching'[w] # None =>
       fetching'[w][1] = w /\ ops'[fetching'[w]].stage # "none"

Busy == {"waiting", "reading", "answering"}
Calm(S) ==
  \A o \in Operations :
    \/ o \in S
    \/ ops'[o].stage = ops[o].stage /\ ops'[o].list = ops[o].list
    \/ ops[o].stage \notin Busy /\ ops'[o].stage \notin Busy

LEMMA SlotFree ==
  ASSUME TypeOK, NEW w \in Watchers, Free(w) # {}
  PROVE  Slot(w) \in Operations /\ Slot(w)[1] = w /\ ops[Slot(w)].stage = "none"
<1> DEFINE n == CHOOSE m \in Free(w) : TRUE
<1>1. n \in Free(w)
  OBVIOUS
<1>2. n \in 1..MaxFetches /\ ops[<<w, n>>].stage = "none"
  BY <1>1 DEF Free
<1>3. Slot(w) = <<w, n>>
  BY DEF Slot
<1> HIDE DEF n
<1> QED
  BY <1>2, <1>3 DEF Operations

LEMMA FetchStep ==
  ASSUME TypeOK, NEW ws \in SUBSET Watchers, NEW policy \in CachePolicy, fetch(ws, policy)
  PROVE  Fetched /\ Calm({})
<1>1. \A w \in ws : Slot(w) \in Operations /\ Slot(w)[1] = w /\ ops[Slot(w)].stage = "none"
  BY SlotFree DEF fetch
<1>2. NewOp(policy) \in Operation /\ NewOp(policy).stage \in {"added", "sent"}
  BY NoOpType DEF NewOp, NoOp
<1>3. \A o \in Operations :
        \/ ops'[o] = ops[o]
        \/ ops[o].stage = "none" /\ ops'[o] = NewOp(policy)
  BY <1>1 DEF fetch
<1>4. ops' \in [Operations -> Operation]
  BY <1>2, <1>3 DEF fetch, TypeOK
<1>5. fetching' \in [Watchers -> Operations \cup {None}]
  BY <1>1 DEF fetch, TypeOK
<1>6. ASSUME NEW w \in Watchers, fetching'[w] # None
      PROVE  fetching'[w][1] = w /\ ops'[fetching'[w]].stage # "none"
  <2>1. CASE w \in ws
    <3>1. fetching'[w] = Slot(w) /\ Slot(w) \in Operations /\ Slot(w)[1] = w
      BY <1>1, <2>1 DEF fetch
    <3>2. ops'[Slot(w)] = NewOp(policy)
      BY <3>1, <2>1 DEF fetch
    <3> QED
      BY <3>1, <3>2, <1>2
  <2>2. CASE w \notin ws
    <3>1. fetching'[w] = fetching[w] /\ fetching[w] \in Operations
      BY <2>2, <1>6 DEF fetch, TypeOK
    <3>2. fetching[w][1] = w /\ ops[fetching[w]].stage # "none"
      BY <3>1, <1>6 DEF TypeOK
    <3> QED
      BY <3>1, <3>2, <1>3
  <2> QED
    BY <2>1, <2>2
<1> QED
  BY <1>2, <1>3, <1>4, <1>5, <1>6 DEF Fetched, Calm, Busy

LEMMA FinishStep ==
  ASSUME TypeOK, NEW o \in Operations, Finish(o)
  PROVE  Fetched /\ Calm({o}) /\ ops'[o].stage = "none"
<1>1. ops' = [ops EXCEPT ![o] = NoOp] /\ ops \in [Operations -> Operation]
  BY DEF Finish, TypeOK
<1>2. ops'[o] = NoOp /\ \A p \in Operations : p # o => ops'[p] = ops[p]
  BY <1>1
<1>3. ops' \in [Operations -> Operation]
  BY <1>1, NoOpType
<1>4. o[1] \in Watchers
  BY DEF Operations
<1>5. fetching' \in [Watchers -> Operations \cup {None}]
  BY <1>4 DEF Finish, TypeOK
<1>6. ASSUME NEW w \in Watchers, fetching'[w] # None
      PROVE  fetching'[w][1] = w /\ ops'[fetching'[w]].stage # "none"
  <2>1. fetching'[w] = fetching[w] /\ fetching[w] \in Operations
    BY <1>4, <1>6 DEF Finish, TypeOK
  <2>2. fetching[w][1] = w /\ ops[fetching[w]].stage # "none"
    BY <2>1, <1>6 DEF TypeOK
  <2>3. fetching[w] # o
    BY <1>6, <2>1, <2>2, <1>4 DEF Finish, TypeOK
  <2> QED
    BY <2>1, <2>2, <2>3, <1>2
<1> QED
  BY <1>2, <1>3, <1>5, <1>6 DEF Fetched, Calm, NoOp

LEMMA MovedOp ==
  ASSUME TypeOK, NEW o \in Operations, NEW stage \in Stages, NEW list \in {None} \cup SUBSET Items,
         NEW answer \in Content, NEW e \in Nat
  PROVE  LET moved == Moved(o, stage, list, answer, e) IN
         /\ moved \in [Operations -> Operation]
         /\ moved[o].stage = stage /\ moved[o].list = list
         /\ \A p \in Operations : p # o => moved[p] = ops[p]
<1> DEFINE op == [stage |-> stage, policy |-> ops[o].policy, isCancelled |-> ops[o].isCancelled,
                  list |-> list, answer |-> answer, epoch |-> e]
<1>1. ops \in [Operations -> Operation] /\ ops[o] \in Operation
  BY DEF TypeOK
<1>2. op \in Operation /\ op.stage = stage /\ op.list = list
  BY <1>1 DEF Operation
<1>3. Moved(o, stage, list, answer, e) = [ops EXCEPT ![o] = op]
  BY DEF Moved
<1> HIDE DEF op
<1> QED
  BY <1>1, <1>2, <1>3

LEMMA StepStep ==
  ASSUME TypeOK, NEW o \in Operations, NEW stage \in Stages, stage # "none", Step(o, stage)
  PROVE  Fetched /\ Calm({o}) /\ ops'[o].stage = stage
<1>1. ops \in [Operations -> Operation] /\ ops[o] \in Operation
  BY DEF TypeOK
<1>2. ops' = Moved(o, stage, None, Nothing, 0) /\ fetching' = fetching
  BY DEF Step
<1>3. /\ ops' \in [Operations -> Operation] /\ ops'[o].stage = stage
      /\ \A p \in Operations : p # o => ops'[p] = ops[p]
  <2>1. Nothing \in Content /\ None \in {None} \cup SUBSET Items /\ 0 \in Nat
    BY DEF Nothing, Content
  <2> QED
    BY <1>2, <2>1, MovedOp
<1>6. \A w \in Watchers : fetching[w] # None =>
        fetching[w] \in Operations /\ fetching[w][1] = w /\ ops'[fetching[w]].stage # "none"
  BY <1>3 DEF TypeOK
<1> QED
  BY <1>2, <1>3, <1>6 DEF Fetched, Calm, TypeOK

-----------------------------------------------------------------------------
(* What a step that begins and ends no load keeps.                         *)

LEMMA BlockOps ==
  ASSUME TypeOK
  PROVE  /\ \A n \in DOMAIN storeQueue :
              /\ storeQueue[n] \in StoreBlock
              /\ storeQueue[n].kind = "load" => storeQueue[n].op \in Operations
         /\ \A n \in DOMAIN handlerQueue :
              /\ handlerQueue[n] \in HandlerBlock
              /\ handlerQueue[n].kind = "operation" => handlerQueue[n].op \in Operations
<1>1. /\ \A b \in StoreBlock : b.kind = "load" => b.op \in Operations
      /\ \A b \in HandlerBlock : b.kind = "operation" => b.op \in Operations
  BY DEF StoreBlock, HandlerBlock
<1>2. storeQueue \in Seq(StoreBlock) /\ handlerQueue \in Seq(HandlerBlock)
  BY DEF TypeOK
<1> QED
  BY <1>1, <1>2

LEMMA CalmLock ==
  ASSUME TypeOK, WholeAnswers, NEW S, Calm(S), cacheLock' = cacheLock,
         \A o \in S \cap Operations : ops[o].stage # "reading" /\ ops'[o].stage # "reading",
         cacheLock = {} \/ cache' = cache
  PROVE  cacheLock' = {o \in Operations : ops'[o].stage = "reading"} /\ WholeAnswers'
<1>1. \A o \in Operations :
        \/ ops'[o].stage = ops[o].stage /\ ops'[o].list = ops[o].list
        \/ ops[o].stage # "reading" /\ ops'[o].stage # "reading"
  BY DEF Calm, Busy
<1>2. cacheLock = {o \in Operations : ops[o].stage = "reading"}
  BY DEF TypeOK
<1>3. cacheLock' = {o \in Operations : ops'[o].stage = "reading"}
  BY <1>1, <1>2
<1>4. \A o \in Operations : ops'[o].stage = "reading" => ops'[o].list = cache'.list
  BY <1>1, <1>2, <1>3 DEF WholeAnswers
<1> QED
  BY <1>3, <1>4 DEF WholeAnswers

LEMMA CalmQueues ==
  ASSUME TypeOK, NEW S, Calm(S),
         \A o \in S \cap Operations : ops[o].stage \notin {"waiting", "answering"}
  PROVE  /\ Once(storeQueue, "load", "waiting", ops)
              => Once(storeQueue, "load", "waiting", ops')
         /\ Once(handlerQueue, "operation", "answering", ops)
              => Once(handlerQueue, "operation", "answering", ops')
<1>1. \A o \in Operations : ops[o].stage \in {"waiting", "answering"} => ops'[o].stage = ops[o].stage
  BY DEF Calm, Busy
<1>2. ASSUME Once(storeQueue, "load", "waiting", ops)
      PROVE  Once(storeQueue, "load", "waiting", ops')
  BY <1>1, <1>2, BlockOps, OnceOps
<1>3. ASSUME Once(handlerQueue, "operation", "answering", ops)
      PROVE  Once(handlerQueue, "operation", "answering", ops')
  BY <1>1, <1>3, BlockOps, OnceOps
<1> QED
  BY <1>2, <1>3

LEMMA AnswerType ==
  ASSUME NEW list \in {None} \cup SUBSET Items, NEW items \in [Items -> {None} \cup Nat]
  PROVE  Answer(list, items) \in Content
BY DEF Answer, Content, Nothing

LEMMA KeysType == \A answer \in Content : Keys(answer) \subseteq {Root} \cup Items
BY DEF Keys, Content

LEMMA MergedType ==
  ASSUME cache \in Content, NEW new \in Content
  PROVE  Merged(new) \in Content
BY DEF Merged, Content, Over

-----------------------------------------------------------------------------
(* The invariant.                                                          *)

LEMMA InitInv == Init => IInv
<1> SUFFICES ASSUME Init PROVE IInv
  OBVIOUS
<1>1. server \in [list : SUBSET Items, items : [Items -> Nat]]
  BY DEF Init
<1>2. cache \in Content
  <2>1. Answer(server.list, server.items) \in Content
    BY <1>1, AnswerType
  <2>2. Nothing \in Content
    BY DEF Nothing, Content
  <2> QED
    BY <2>1, <2>2 DEF Init
<1>3. ops \in [Operations -> Operation] /\ \A o \in Operations : ops[o].stage = "none"
  BY NoOpType DEF Init, NoOp
<1>4. storeQueue \in Seq(StoreBlock) /\ handlerQueue \in Seq(HandlerBlock)
  BY DEF Init
<1>5. fetching \in [Watchers -> Operations \cup {None}] /\ \A w \in Watchers : fetching[w] = None
  BY DEF Init
<1>6. TypeOK
  BY <1>1, <1>2, <1>3, <1>4, <1>5 DEF TypeOK, Init
<1>7. Queued
  BY DEF Queued, Once, Init
<1>8. WholeAnswers
  BY <1>3 DEF WholeAnswers
<1> QED
  BY <1>6, <1>7, <1>8 DEF IInv

(* The conjuncts of TypeOK that are not about the operations.              *)
Plain ==
  /\ server \in [list : SUBSET Items, items : [Items -> Nat]] /\ cache \in Content
  /\ storeQueue \in Seq(StoreBlock) /\ handlerQueue \in Seq(HandlerBlock)
  /\ subscribers \subseteq Watchers /\ cancelled \subseteq Watchers /\ watched \subseteq Watchers
  /\ dependentKeys \in [Watchers -> SUBSET ({Root} \cup Items)]
  /\ epoch \in Nat /\ heard \in [Watchers -> Nat] /\ due \in [Watchers -> Nat]
  /\ events \in Nat

(* A step of operations S, none of them holding the lock before or after.  *)
LEMMA CalmStep ==
  ASSUME IInv, NEW S, Calm(S), Fetched, Plain', Queued', cacheLock' = cacheLock,
         \A o \in S \cap Operations : ops[o].stage # "reading" /\ ops'[o].stage # "reading",
         cacheLock = {} \/ cache' = cache
  PROVE  IInv'
<1>1. cacheLock' = {o \in Operations : ops'[o].stage = "reading"} /\ WholeAnswers'
  BY CalmLock DEF IInv
<1>2. TypeOK'
  BY <1>1 DEF Plain, Fetched, TypeOK
<1> QED
  BY <1>1, <1>2 DEF IInv

LEMMA Same ==
  ASSUME IInv, UNCHANGED watchers
  PROVE  Fetched /\ Calm({})
BY DEF IInv, TypeOK, watchers, Fetched, Calm

Quiet(q, q2, S, kind) ==
  \/ q2 = q
  \/ \E b \in S : b.kind # kind /\ q2 = Append(q, b)
  \/ q # <<>> /\ q2 = Tail(q)

LEMMA QuietQueue ==
  ASSUME NEW S, NEW q \in Seq(S), NEW q2, NEW kind, NEW stage, NEW os,
         Once(q, kind, stage, os), Quiet(q, q2, S, kind)
  PROVE  q2 \in Seq(S) /\ Once(q2, kind, stage, os)
<1>1. CASE q2 = q
  BY <1>1
<1>2. ASSUME NEW b \in S, b.kind # kind, q2 = Append(q, b)
      PROVE  q2 \in Seq(S) /\ Once(q2, kind, stage, os)
  BY <1>2, OnceAppendOther
<1>3. CASE q # <<>> /\ q2 = Tail(q)
  BY <1>3, OnceTail
<1> QED
  BY <1>1, <1>2, <1>3 DEF Quiet

(* Such a step puts no load and no answer in a queue.                      *)
LEMMA QueuesKept ==
  ASSUME IInv, NEW S, Calm(S),
         \A o \in S \cap Operations : ops[o].stage \notin {"waiting", "answering"}
  PROVE  /\ Quiet(storeQueue, storeQueue', StoreBlock, "load") =>
              storeQueue' \in Seq(StoreBlock) /\ Once(storeQueue', "load", "waiting", ops')
         /\ Quiet(handlerQueue, handlerQueue', HandlerBlock, "operation") =>
              handlerQueue' \in Seq(HandlerBlock)
                /\ Once(handlerQueue', "operation", "answering", ops')
<1>1. /\ Once(storeQueue, "load", "waiting", ops')
      /\ Once(handlerQueue, "operation", "answering", ops')
  BY CalmQueues DEF IInv, Queued
<1>2. storeQueue \in Seq(StoreBlock) /\ handlerQueue \in Seq(HandlerBlock)
  BY DEF IInv, TypeOK
<1> QED
  BY <1>1, <1>2, QuietQueue

LEMMA StartInv ==
  ASSUME IInv, NEW o \in Operations, Start(o)
  PROVE  IInv'
<1>0. TypeOK /\ Plain /\ ops[o].stage = "added" /\ storeQueue \in Seq(StoreBlock)
      /\ Once(storeQueue, "load", "waiting", ops)
  BY DEF IInv, Queued, TypeOK, Plain, Start
<1>1. CASE Finish(o) /\ UNCHANGED storeQueue
  <2>1. Fetched /\ Calm({o}) /\ ops'[o].stage = "none"
    BY <1>0, <1>1, FinishStep
  <2>2. Queued'
    BY <1>0, <1>1, <2>1, QueuesKept DEF Start, Quiet, Queued
  <2> QED
    BY <1>0, <1>1, <2>1, <2>2, CalmStep DEF Start, Plain
<1>2. CASE Step(o, "waiting") /\ Block([kind |-> "load", op |-> o])
  <2> DEFINE b == [kind |-> "load", op |-> o]
  <2>1. Fetched /\ Calm({o}) /\ ops'[o].stage = "waiting"
    BY <1>0, <1>2, StepStep DEF Stages
  <2>2. b \in StoreBlock /\ b.kind = "load" /\ b.op = o /\ storeQueue' = Append(storeQueue, b)
    BY <1>2 DEF StoreBlock, Block
  <2>3. \A n \in DOMAIN storeQueue : storeQueue[n].kind = "load" => storeQueue[n].op # o
    BY <1>0 DEF Once
  <2> HIDE DEF b
  <2>4. Once(storeQueue, "load", "waiting", ops')
    BY <1>0, <2>1, CalmQueues
  <2>5. Once(storeQueue', "load", "waiting", ops')
    BY <1>0, <2>1, <2>2, <2>3, <2>4, OnceAppend
  <2>6. Once(handlerQueue', "operation", "answering", ops')
    BY <1>0, <2>1, QueuesKept DEF Start, Quiet
  <2>7. Plain'
    BY <1>0, <2>2 DEF Start, Plain
  <2> QED
    BY <1>0, <2>1, <2>5, <2>6, <2>7, CalmStep DEF Start, Queued
<1> QED
  BY <1>1, <1>2 DEF Start

LEMMA BeginLoadInv ==
  ASSUME IInv, BeginLoad
  PROVE  IInv'
<1> DEFINE o == Head(storeQueue).op
<1>0. TypeOK /\ Plain /\ WholeAnswers /\ storeQueue \in Seq(StoreBlock) /\ storeQueue # <<>>
      /\ Once(storeQueue, "load", "waiting", ops) /\ Head(storeQueue).kind = "load"
      /\ Once(handlerQueue, "operation", "answering", ops)
  BY DEF IInv, Queued, TypeOK, Plain, BeginLoad
<1>1. o \in Operations /\ ops[o].stage = "waiting"
  <2>1. Head(storeQueue) = storeQueue[1] /\ 1 \in DOMAIN storeQueue
    BY <1>0
  <2> QED
    BY <1>0, <2>1, BlockOps DEF Once
<1>2. ops' = Moved(o, "reading", cache.list, Nothing, 0) /\ cacheLock' = cacheLock \cup {o}
      /\ fetching' = fetching /\ cache' = cache /\ storeQueue' = Tail(storeQueue)
  BY DEF BeginLoad
<1>3. \A n \in DOMAIN Tail(storeQueue) :
        Tail(storeQueue)[n].kind = "load" => Tail(storeQueue)[n].op # o
  BY <1>0, OnceTail
<1>4. cache.list \in {None} \cup SUBSET Items /\ Nothing \in Content /\ "reading" \in Stages
  BY <1>0 DEF Plain, Content, Nothing, Stages
<1> HIDE DEF o
<1>5. /\ ops' \in [Operations -> Operation]
      /\ ops'[o].stage = "reading" /\ ops'[o].list = cache.list
      /\ \A p \in Operations : p # o => ops'[p] = ops[p]
  <2> DEFINE list == cache.list
  <2>1. list \in {None} \cup SUBSET Items /\ 0 \in Nat
    BY <1>4
  <2>2. ops' = Moved(o, "reading", list, Nothing, 0)
    BY <1>2
  <2> HIDE DEF list
  <2>3. /\ ops' \in [Operations -> Operation]
        /\ ops'[o].stage = "reading" /\ ops'[o].list = list
        /\ \A p \in Operations : p # o => ops'[p] = ops[p]
    <3>1. TypeOK /\ o \in Operations
      BY <1>0, <1>1
    <3> DEFINE moved == Moved(o, "reading", list, Nothing, 0)
    <3>2. /\ moved \in [Operations -> Operation]
          /\ moved[o].stage = "reading" /\ moved[o].list = list
          /\ \A p \in Operations : p # o => moved[p] = ops[p]
      BY <3>1, <1>4, <2>1, MovedOp
    <3> QED
      BY <3>2, <2>2
  <2> QED
    BY <2>3 DEF list
<1>6. Fetched
  BY <1>0, <1>2, <1>5 DEF TypeOK, Fetched
<1>7. cacheLock' = {p \in Operations : ops'[p].stage = "reading"}
  BY <1>0, <1>1, <1>2, <1>5 DEF TypeOK
<1>8. WholeAnswers'
  BY <1>0, <1>2, <1>5 DEF WholeAnswers
<1>9. Once(storeQueue', "load", "waiting", ops')
  <2>1. Tail(storeQueue) \in Seq(StoreBlock)
        /\ \A b \in StoreBlock : b.kind = "load" => b.op \in Operations
    BY <1>0 DEF StoreBlock
  <2>2. Once(Tail(storeQueue), "load", "waiting", ops)
    BY <1>0, OnceTail
  <2>3. \A n \in DOMAIN Tail(storeQueue) : Tail(storeQueue)[n].kind = "load" =>
          Tail(storeQueue)[n].op \in Operations
    BY <2>1
  <2>4. Once(Tail(storeQueue), "load", "waiting", ops')
    <3>1. \A n \in DOMAIN Tail(storeQueue) :
            Tail(storeQueue)[n].kind = "load" /\ ops[Tail(storeQueue)[n].op].stage = "waiting"
              => ops'[Tail(storeQueue)[n].op].stage = "waiting"
      BY <1>3, <1>5, <2>3
    <3> QED
      BY <2>2, <3>1, OnceOps
  <2> QED
    BY <1>2, <2>4
<1>10. Once(handlerQueue', "operation", "answering", ops')
  <2>1. \A n \in DOMAIN handlerQueue :
          handlerQueue[n].kind = "operation" /\ ops[handlerQueue[n].op].stage = "answering"
            => ops'[handlerQueue[n].op].stage = "answering"
    BY <1>0, <1>1, <1>5, BlockOps
  <2> QED
    BY <1>0, <2>1, OnceOps DEF BeginLoad
<1>11. Plain'
  BY <1>0 DEF Plain, BeginLoad
<1> QED
  BY <1>6, <1>7, <1>8, <1>9, <1>10, <1>11 DEF IInv, Queued, TypeOK, Fetched, Plain

LEMMA EndLoadInv ==
  ASSUME IInv, NEW o \in Operations, EndLoad(o)
  PROVE  IInv'
<1>0. TypeOK /\ Plain /\ WholeAnswers /\ ops[o].stage = "reading"
      /\ ops' = Moved(o, "loaded", None, Answer(ops[o].list, cache.items), epoch)
      /\ cacheLock' = cacheLock \ {o} /\ fetching' = fetching /\ cache' = cache
  BY DEF IInv, TypeOK, Plain, EndLoad, Unlocked
<1>1. Answer(ops[o].list, cache.items) \in Content /\ epoch \in Nat /\ "loaded" \in Stages
  <2>1. ops[o] \in Operation /\ cache \in Content
    BY <1>0 DEF TypeOK
  <2>2. ops[o].list \in {None} \cup SUBSET Items /\ cache.items \in [Items -> {None} \cup Nat]
    BY <2>1 DEF Operation, Content
  <2> QED
    BY <1>0, <2>2, AnswerType DEF Plain, Stages
<1>2. /\ ops' \in [Operations -> Operation] /\ ops'[o].stage = "loaded"
      /\ \A p \in Operations : p # o => ops'[p] = ops[p]
  <2> DEFINE answer == Answer(ops[o].list, cache.items)
  <2>1. answer \in Content /\ None \in {None} \cup SUBSET Items
    BY <1>1
  <2>2. ops' = Moved(o, "loaded", None, answer, epoch)
    BY <1>0
  <2> HIDE DEF answer
  <2>3. TypeOK /\ epoch \in Nat /\ "loaded" \in Stages
    BY <1>0, <1>1
  <2> DEFINE moved == Moved(o, "loaded", None, answer, epoch)
  <2>4. /\ moved \in [Operations -> Operation] /\ moved[o].stage = "loaded"
        /\ \A p \in Operations : p # o => moved[p] = ops[p]
    BY <2>1, <2>3, MovedOp
  <2> QED
    BY <2>2, <2>4
<1>3. Fetched
  BY <1>0, <1>2 DEF TypeOK, Fetched
<1>4. cacheLock' = {p \in Operations : ops'[p].stage = "reading"}
  BY <1>0, <1>2 DEF TypeOK
<1>5. WholeAnswers'
  BY <1>0, <1>2 DEF WholeAnswers
<1>6. Calm({o})
  BY <1>2 DEF Calm
<1>7. Queued'
  BY <1>0, <1>6, QueuesKept DEF EndLoad, Queued, Quiet
<1>8. Plain'
  BY <1>0 DEF Plain, EndLoad
<1> QED
  BY <1>3, <1>4, <1>5, <1>7, <1>8 DEF IInv, TypeOK, Fetched, Plain

LEMMA ResultType ==
  \A w \in Watchers, answer \in Content, e \in Nat :
    Result(w, answer, e) \in HandlerBlock /\ Result(w, answer, e).kind # "operation"
BY DEF Result, HandlerBlock

LEMMA LoadedInv ==
  ASSUME IInv, NEW o \in Operations, Loaded(o)
  PROVE  IInv'
<1>0. TypeOK /\ Plain /\ ops[o].stage = "loaded" /\ UNCHANGED <<cache, cacheLock, storeQueue>>
  BY DEF IInv, TypeOK, Plain, Loaded, store
<1>1. Fetched /\ Calm({o}) /\ ops'[o].stage # "reading"
  <2>1. Finish(o) \/ Step(o, "sent")
    BY DEF Loaded
  <2> QED
    BY <1>0, <2>1, FinishStep, StepStep DEF Stages
<1>2. Result(o[1], ops[o].answer, ops[o].epoch) \in HandlerBlock
      /\ Result(o[1], ops[o].answer, ops[o].epoch).kind # "operation"
  <2>1. ops[o] \in Operation /\ o[1] \in Watchers
    BY <1>0 DEF TypeOK, Operations
  <2>2. ops[o].answer \in Content /\ ops[o].epoch \in Nat
    BY <2>1 DEF Operation
  <2> QED
    BY <2>1, <2>2, ResultType
<1>3. Quiet(handlerQueue, handlerQueue', HandlerBlock, "operation")
  BY <1>2 DEF Loaded, Quiet
<1>4. handlerQueue' \in Seq(HandlerBlock) /\ Queued'
  BY <1>0, <1>1, <1>3, QueuesKept DEF Queued, Quiet
<1>5. Plain'
  BY <1>0, <1>4 DEF Plain, Loaded, store
<1> QED
  BY <1>0, <1>1, <1>4, <1>5, CalmStep

(* A merge, with the lock held for writing.                                *)
LEMMA MergeStep ==
  ASSUME TypeOK, NEW records \in Content, NEW context, merge(records, context)
  PROVE  /\ Fetched /\ Calm({})
         /\ cache' \in Content /\ epoch' \in Nat /\ due' \in [Watchers -> Nat]
<1>1. cache' \in Content
  BY MergedType DEF merge, TypeOK
<1>2. Notified(Changed(records), context) \in SUBSET Watchers
  BY DEF Notified, TypeOK
<1>3. Fetched /\ Calm({})
  BY <1>2, FetchStep DEF merge, didChangeKeys, CachePolicy
<1>4. epoch \in Nat /\ due \in [Watchers -> Nat]
  BY DEF TypeOK
<1>5. epoch' \in Nat
  BY <1>4 DEF merge, didChangeKeys
<1>6. due' \in [Watchers -> Nat]
  BY <1>4, <1>5 DEF merge, didChangeKeys
<1> QED
  BY <1>1, <1>3, <1>5, <1>6

LEMMA HeadBlock ==
  ASSUME TypeOK, storeQueue # <<>>
  PROVE  /\ Head(storeQueue).kind = "publish" => Head(storeQueue).records \in Content
         /\ Head(storeQueue).kind = "update" => Head(storeQueue).item \in Items
         /\ Head(storeQueue).kind \in {"subscribe", "unsubscribe"} => Head(storeQueue).watcher \in Watchers
<1>1. Head(storeQueue) \in StoreBlock
  BY DEF TypeOK
<1> QED
  BY <1>1 DEF StoreBlock

LEMMA PublishInv == IInv /\ Publish => IInv'
<1> SUFFICES ASSUME IInv, Publish PROVE IInv'
  OBVIOUS
<1>0. TypeOK /\ Plain /\ cacheLock = {} /\ cacheLock' = cacheLock
  BY DEF IInv, TypeOK, Plain, Publish
<1>1. /\ Fetched /\ Calm({})
      /\ cache' \in Content /\ epoch' \in Nat /\ due' \in [Watchers -> Nat]
  BY <1>0, HeadBlock, MergeStep DEF Publish
<1>2. storeQueue' \in Seq(StoreBlock) /\ Queued'
  BY <1>1, QueuesKept DEF Queued, Quiet, Publish
<1>3. Plain'
  BY <1>0, <1>1, <1>2 DEF Plain, Publish
<1> QED
  BY <1>0, <1>1, <1>2, <1>3, CalmStep

LEMMA RunUpdateInv == IInv /\ RunUpdate => IInv'
<1> SUFFICES ASSUME IInv, RunUpdate PROVE IInv'
  OBVIOUS
<1>0. TypeOK /\ Plain /\ cacheLock = {} /\ cacheLock' = cacheLock
  BY DEF IInv, TypeOK, Plain, RunUpdate
<1>1. /\ Fetched /\ Calm({})
      /\ cache' \in Content /\ epoch' \in Nat /\ due' \in [Watchers -> Nat]
  <2> DEFINE answer == Answer(cache.list, cache.items)
             item   == Head(storeQueue).item
             new    == [list |-> answer.list \cup {item},
                        items |-> [answer.items EXCEPT ![item] = server.items[item]]]
  <2>1. CASE answer = Nothing
    BY <1>0, <2>1, Same DEF RunUpdate, Plain, watchers
  <2>2. CASE answer # Nothing
    <3>1. item \in Items /\ cache \in Content /\ server.items \in [Items -> Nat]
      BY <1>0, HeadBlock DEF RunUpdate, Plain
    <3>2. cache.list \in {None} \cup SUBSET Items /\ cache.items \in [Items -> {None} \cup Nat]
      BY <3>1 DEF Content
    <3>3. answer.list \in SUBSET Items /\ answer.items \in [Items -> {None} \cup Nat]
      BY <3>2, <2>2 DEF Answer
    <3>4. merge(new, None)
      BY <2>2 DEF RunUpdate
    <3> HIDE DEF answer, item
    <3>5. new \in Content
      BY <3>1, <3>3 DEF Content
    <3> HIDE DEF new
    <3> QED
      BY <1>0, <3>4, <3>5, MergeStep
  <2> QED
    BY <2>1, <2>2
<1>2. storeQueue' \in Seq(StoreBlock) /\ Queued'
  BY <1>1, QueuesKept DEF Queued, Quiet, RunUpdate
<1>3. Plain'
  BY <1>0, <1>1, <1>2 DEF Plain, RunUpdate
<1> QED
  BY <1>0, <1>1, <1>2, <1>3, CalmStep

LEMMA RepliedInv ==
  ASSUME IInv, NEW o \in Operations, Replied(o)
  PROVE  IInv'
<1> DEFINE answer == Answer(server.list, server.items)
<1>0. TypeOK /\ Plain /\ ops[o].stage = "sent" /\ ops' = Moved(o, "replied", None, answer, epoch)
      /\ UNCHANGED <<fetching, cache, cacheLock, storeQueue, handlerQueue>>
  BY DEF IInv, TypeOK, Plain, Replied, store
<1>1. answer \in Content /\ epoch \in Nat /\ "replied" \in Stages /\ None \in {None} \cup SUBSET Items
  <2>1. server.list \in {None} \cup SUBSET Items /\ server.items \in [Items -> {None} \cup Nat]
    BY <1>0 DEF Plain
  <2> QED
    BY <1>0, <2>1, AnswerType DEF Plain, Stages
<1> HIDE DEF answer
<1>2. /\ ops' \in [Operations -> Operation] /\ ops'[o].stage = "replied"
      /\ \A p \in Operations : p # o => ops'[p] = ops[p]
  <2> DEFINE moved == Moved(o, "replied", None, answer, epoch)
  <2>1. TypeOK
    BY <1>0
  <2>2. /\ moved \in [Operations -> Operation] /\ moved[o].stage = "replied"
        /\ \A p \in Operations : p # o => moved[p] = ops[p]
    BY <1>1, <2>1, MovedOp
  <2> QED
    BY <1>0, <2>2
<1>3. Fetched /\ Calm({o})
  BY <1>0, <1>2 DEF TypeOK, Fetched, Calm
<1>4. Queued'
  BY <1>0, <1>3, QueuesKept DEF Queued, Quiet
<1>5. Plain'
  BY <1>0 DEF Plain, Replied, store
<1> QED
  BY <1>0, <1>2, <1>3, <1>4, <1>5, CalmStep

LEMMA NotifyInv ==
  ASSUME IInv, NEW o \in Operations, NEW answer \in Content, NEW e \in Nat,
         ops[o].stage \in {"sent", "replied"}, Notify(o, answer, e),
         Quiet(storeQueue, storeQueue', StoreBlock, "load"),
         UNCHANGED <<server, cache, cacheLock, subscribers, dependentKeys, cancelled, watched,
                     epoch, due, heard, events>>
  PROVE  IInv'
<1>0. TypeOK /\ Plain /\ handlerQueue \in Seq(HandlerBlock) /\ o[1] \in Watchers
      /\ Once(handlerQueue, "operation", "answering", ops)
  BY DEF IInv, Queued, TypeOK, Plain, Operations
<1>1. /\ Fetched /\ Calm({o}) /\ ops'[o].stage # "reading"
      /\ ops[o].policy # "ignore" => ops'[o].stage = "answering"
  BY <1>0, FinishStep, StepStep DEF Notify, Stages
<1>2. storeQueue' \in Seq(StoreBlock) /\ Once(storeQueue', "load", "waiting", ops')
  BY <1>1, QueuesKept
<1>3. handlerQueue' \in Seq(HandlerBlock) /\ Once(handlerQueue', "operation", "answering", ops')
  <2>1. CASE ops[o].policy = "ignore"
    <3>1. Quiet(handlerQueue, handlerQueue', HandlerBlock, "operation")
      BY <1>0, <2>1, ResultType DEF Notify, Quiet
    <3> QED
      BY <3>1, <1>1, QueuesKept
  <2>2. CASE ops[o].policy # "ignore"
    <3> DEFINE b == [kind |-> "operation", op |-> o, answer |-> answer, epoch |-> e]
    <3>1. b \in HandlerBlock /\ b.kind = "operation" /\ b.op = o
          /\ handlerQueue' = Append(handlerQueue, b)
      BY <1>0, <2>2 DEF Notify, HandlerBlock
    <3>2. \A n \in DOMAIN handlerQueue : handlerQueue[n].kind = "operation" => handlerQueue[n].op # o
      BY <1>0 DEF Once
    <3>3. Once(handlerQueue, "operation", "answering", ops')
      BY <1>0, <1>1, CalmQueues
    <3> HIDE DEF b
    <3> QED
      BY <1>0, <1>1, <2>2, <3>1, <3>2, <3>3, OnceAppend
  <2> QED
    BY <2>1, <2>2
<1>4. Plain'
  BY <1>0, <1>2, <1>3 DEF Plain
<1> QED
  BY <1>1, <1>2, <1>3, <1>4, CalmStep DEF Queued

LEMMA RunHandlerInv == IInv /\ RunHandler => IInv'
<1> SUFFICES ASSUME IInv, RunHandler PROVE IInv'
  OBVIOUS
<1> DEFINE b == Head(handlerQueue)
<1>0. TypeOK /\ Plain /\ handlerQueue \in Seq(HandlerBlock) /\ handlerQueue # <<>>
      /\ Once(handlerQueue, "operation", "answering", ops)
      /\ UNCHANGED <<server, store, cancelled, watched, epoch, due, events>>
  BY DEF IInv, Queued, TypeOK, Plain, RunHandler
<1>1. b \in HandlerBlock /\ b = handlerQueue[1] /\ 1 \in DOMAIN handlerQueue
  BY <1>0
<1>2. CASE b.kind = "operation"
  <2> DEFINE o == b.op
  <2>1. o \in Operations /\ b.answer \in Content /\ b.epoch \in Nat
    BY <1>1, <1>2 DEF HandlerBlock
  <2>2. ops[o].stage = "answering"
    BY <1>0, <1>1, <1>2 DEF Once
  <2>3. /\ handlerQueue' = Append(Tail(handlerQueue), Result(o[1], b.answer, b.epoch))
        /\ Finish(o) /\ UNCHANGED <<dependentKeys, heard>>
    BY <1>2 DEF RunHandler
  <2>4. /\ Once(Tail(handlerQueue), "operation", "answering", ops)
        /\ Tail(handlerQueue) \in Seq(HandlerBlock)
        /\ \A n \in DOMAIN Tail(handlerQueue) :
             Tail(handlerQueue)[n].kind = "operation" => Tail(handlerQueue)[n].op # o
    BY <1>0, <1>2, OnceTail
  <2> HIDE DEF b, o
  <2>5. Fetched /\ Calm({o}) /\ ops'[o].stage = "none"
    BY <1>0, <2>1, <2>3, FinishStep
  <2>6. \A p \in Operations : p # o => ops'[p] = ops[p]
    BY <1>0, <2>3 DEF Finish, TypeOK
  <2>7. Result(o[1], b.answer, b.epoch) \in HandlerBlock
        /\ Result(o[1], b.answer, b.epoch).kind # "operation"
    <3>1. o[1] \in Watchers
      BY <2>1 DEF Operations
    <3> QED
      BY <2>1, <3>1, ResultType
  <2>8. handlerQueue' \in Seq(HandlerBlock) /\ Once(handlerQueue', "operation", "answering", ops')
    <3>1. \A c \in HandlerBlock : c.kind = "operation" => c.op \in Operations
      BY DEF HandlerBlock
    <3>2. \A n \in DOMAIN Tail(handlerQueue) : Tail(handlerQueue)[n].kind = "operation" =>
            Tail(handlerQueue)[n].op \in Operations
      BY <2>4, <3>1
    <3>3. Once(Tail(handlerQueue), "operation", "answering", ops')
      BY <2>4, <2>6, <3>2, OnceOps
    <3> DEFINE r == Result(o[1], b.answer, b.epoch)
               q == Tail(handlerQueue)
    <3>4. r \in HandlerBlock /\ r.kind # "operation" /\ q \in Seq(HandlerBlock)
          /\ Once(q, "operation", "answering", ops') /\ handlerQueue' = Append(q, r)
      BY <2>3, <2>4, <2>7, <3>3
    <3> HIDE DEF r, q
    <3> QED
      BY <3>4, OnceAppendOther
  <2>9. Once(storeQueue', "load", "waiting", ops')
    <3>1. \A n \in DOMAIN storeQueue :
            storeQueue[n].kind = "load" /\ ops[storeQueue[n].op].stage = "waiting"
              => ops'[storeQueue[n].op].stage = "waiting"
      BY <1>0, <2>2, <2>6, BlockOps
    <3> QED
      BY <1>0, <3>1, OnceOps DEF IInv, Queued, store
  <2>10. Plain'
    BY <1>0, <2>3, <2>8 DEF Plain, store
  <2> QED
    BY <1>0, <2>2, <2>5, <2>8, <2>9, <2>10, CalmStep DEF Queued, store
<1>3. CASE b.kind = "result"
  <2>1. b.watcher \in Watchers /\ b.answer \in Content /\ b.epoch \in Nat
    BY <1>1, <1>3 DEF HandlerBlock
  <2>2. /\ handlerQueue' = Tail(handlerQueue) /\ UNCHANGED watchers
        /\ dependentKeys' = [dependentKeys EXCEPT ![b.watcher] = Keys(b.answer)]
        /\ heard' = [heard EXCEPT ![b.watcher] = IF @ < b.epoch THEN b.epoch ELSE @]
    BY <1>3 DEF RunHandler
  <2> HIDE DEF b
  <2>3. Fetched /\ Calm({})
    BY <2>2, Same
  <2>4. Quiet(handlerQueue, handlerQueue', HandlerBlock, "operation") /\ storeQueue' = storeQueue
    BY <1>0, <2>2 DEF Quiet, store
  <2>5. handlerQueue' \in Seq(HandlerBlock) /\ Queued'
    BY <2>3, <2>4, QueuesKept DEF Queued, Quiet
  <2>6. dependentKeys' \in [Watchers -> SUBSET ({Root} \cup Items)]
    BY <1>0, <2>1, <2>2, KeysType DEF Plain
  <2>7. heard' \in [Watchers -> Nat]
    BY <1>0, <2>1, <2>2 DEF Plain
  <2>8. Plain'
    BY <1>0, <2>5, <2>6, <2>7 DEF Plain, store
  <2> QED
    BY <1>0, <2>3, <2>5, <2>8, CalmStep DEF store
<1> QED
  BY <1>2, <1>3 DEF RunHandler

LEMMA NextInv == IInv /\ [Next]_vars => IInv'
<1> SUFFICES ASSUME IInv, [Next]_vars PROVE IInv'
  OBVIOUS
<1>0. TypeOK /\ WholeAnswers /\ Plain
  BY DEF IInv, TypeOK, Plain
<1>1. ASSUME NEW w \in Watchers, Watch(w) PROVE IInv'
  <2>1. Fetched /\ Calm({})
    BY <1>0, <1>1, WatchersAssumption, FetchStep DEF Watch
  <2>2. [kind |-> "subscribe", watcher |-> w] \in StoreBlock
    BY DEF StoreBlock
  <2>3. Quiet(storeQueue, storeQueue', StoreBlock, "load")
    BY <1>1, <2>2 DEF Watch, Block, Quiet
  <2>4. storeQueue' \in Seq(StoreBlock) /\ Queued'
    BY <1>1, <2>1, <2>3, QueuesKept DEF Queued, Quiet, Watch
  <2>5. Plain'
    BY <1>0, <1>1, <2>4 DEF Plain, Watch
  <2> QED
    BY <1>1, <2>1, <2>4, <2>5, CalmStep DEF Watch
<1>2. ASSUME NEW w \in Watchers, Refetch(w) PROVE IInv'
  <2>1. Fetched /\ Calm({})
    BY <1>0, <1>2, FetchStep DEF Refetch, CachePolicy
  <2>2. Queued'
    BY <1>2, <2>1, QueuesKept DEF Queued, Quiet, Refetch, store
  <2>3. events' \in Nat
    BY <1>0, <1>2 DEF Plain, Refetch, Event
  <2>4. Plain'
    BY <1>0, <1>2, <2>3 DEF Plain, Refetch, store
  <2> QED
    BY <1>2, <2>1, <2>2, <2>4, CalmStep DEF Refetch, store
<1>3. ASSUME NEW w \in Watchers, Cancel(w) PROVE IInv'
  <2>1. Fetched /\ Calm({})
    <3>1. CASE fetching[w] = None
      BY <1>0, <1>3, <3>1 DEF Cancel, TypeOK, Fetched, Calm
    <3>2. CASE fetching[w] # None
      <4> DEFINE o == fetching[w]
      <4>1. o \in Operations /\ ops \in [Operations -> Operation] /\ ops[o] \in Operation
        BY <1>0, <3>2 DEF TypeOK
      <4>2. ops' = [ops EXCEPT ![o] = [ops[o] EXCEPT !.isCancelled = TRUE]]
        BY <1>3, <3>2 DEF Cancel
      <4>3. /\ [ops[o] EXCEPT !.isCancelled = TRUE] \in Operation
            /\ [ops[o] EXCEPT !.isCancelled = TRUE].stage = ops[o].stage
            /\ [ops[o] EXCEPT !.isCancelled = TRUE].list = ops[o].list
        BY <4>1 DEF Operation
      <4> HIDE DEF o
      <4>4. /\ ops' \in [Operations -> Operation]
            /\ \A p \in Operations : ops'[p].stage = ops[p].stage /\ ops'[p].list = ops[p].list
        BY <4>1, <4>2, <4>3
      <4>5. fetching' = fetching
        BY <1>3 DEF Cancel
      <4> QED
        BY <1>0, <4>4, <4>5 DEF TypeOK, Fetched, Calm
    <3> QED
      BY <3>1, <3>2
  <2>2. [kind |-> "unsubscribe", watcher |-> w] \in StoreBlock
    BY DEF StoreBlock
  <2>3. Quiet(storeQueue, storeQueue', StoreBlock, "load")
    BY <1>3, <2>2 DEF Cancel, Block, Quiet
  <2>4. storeQueue' \in Seq(StoreBlock) /\ Queued'
    BY <1>3, <2>1, <2>3, QueuesKept DEF Queued, Quiet, Cancel
  <2>5. Plain'
    BY <1>0, <1>3, <2>4 DEF Plain, Cancel
  <2> QED
    BY <1>3, <2>1, <2>4, <2>5, CalmStep DEF Cancel
<1>4. ASSUME NEW o \in Operations, Start(o) PROVE IInv'
  BY <1>4, StartInv
<1>5. ASSUME NEW o \in Operations, EndLoad(o) PROVE IInv'
  BY <1>5, EndLoadInv
<1>6. ASSUME NEW o \in Operations, Loaded(o) PROVE IInv'
  BY <1>6, LoadedInv
<1>7. ASSUME NEW o \in Operations, Answered(o) PROVE IInv'
  <2> DEFINE b == [kind |-> "publish", records |-> ops[o].answer, context |-> o[1]]
  <2>1. ops[o].answer \in Content /\ ops[o].epoch \in Nat
    <3>1. ops[o] \in Operation
      BY <1>0 DEF TypeOK
    <3> QED
      BY <3>1 DEF Operation
  <2>2. b \in StoreBlock
    <3>1. o[1] \in Watchers
      BY DEF Operations
    <3> QED
      BY <2>1, <3>1 DEF StoreBlock
  <2>3. Quiet(storeQueue, storeQueue', StoreBlock, "load")
    BY <1>7, <2>2 DEF Answered, Block, Quiet
  <2> QED
    BY <1>7, <2>1, <2>3, NotifyInv DEF Answered
<1>8. ASSUME NEW o \in Operations, Failed(o) PROVE IInv'
  <2>1. Nothing \in Content /\ epoch \in Nat
    BY <1>0 DEF Nothing, Content, Plain
  <2> QED
    BY <1>8, <2>1, NotifyInv DEF Failed, Quiet, store
<1>13. ASSUME NEW o \in Operations, Replied(o) PROVE IInv'
  BY <1>13, RepliedInv
<1>9. CASE RunSubscribe
  <2>1. Fetched /\ Calm({})
    BY <1>9, Same DEF RunSubscribe
  <2>2. storeQueue' \in Seq(StoreBlock) /\ Queued'
    BY <1>9, <2>1, QueuesKept DEF RunSubscribe, Queued, Quiet
  <2>3. subscribers' \subseteq Watchers
    BY <1>0, <1>9, HeadBlock DEF RunSubscribe, Unsubscribed, Plain
  <2>4. Plain'
    BY <1>0, <1>9, <2>2, <2>3 DEF RunSubscribe, Plain
  <2> QED
    BY <1>9, <2>1, <2>2, <2>4, CalmStep DEF RunSubscribe
<1>10. ASSUME NEW i \in Items, Change(i) PROVE IInv'
  <2> DEFINE version == server.items[i] + (IF i \in server.list THEN 1 ELSE 0)
             new     == [list |-> None, items |-> [Nothing.items EXCEPT ![i] = version]]
             b       == [kind |-> "publish", context |-> None, records |-> new]
  <2>1. version \in Nat /\ server.list \subseteq Items /\ server.items \in [Items -> Nat]
    BY <1>0 DEF Plain
  <2>2. /\ server' = [list |-> server.list \cup {i}, items |-> [server.items EXCEPT ![i] = version]]
        /\ storeQueue' = Append(storeQueue, b) /\ events' = events + 1
    BY <1>10 DEF Change, Block, Event
  <2> HIDE DEF version
  <2>3. new \in Content
    BY <2>1 DEF Content, Nothing
  <2>4. b \in StoreBlock /\ b.kind # "load"
    <3> HIDE DEF new
    <3> QED
      BY <2>3 DEF StoreBlock
  <2> HIDE DEF b, new
  <2>5. Fetched /\ Calm({})
    BY <1>10, Same DEF Change
  <2>6. storeQueue' \in Seq(StoreBlock) /\ Queued'
    BY <1>10, <2>2, <2>4, <2>5, QueuesKept DEF Change, Queued, Quiet
  <2>7. server' \in [list : SUBSET Items, items : [Items -> Nat]]
    BY <2>1, <2>2
  <2>8. Plain'
    BY <1>0, <1>10, <2>2, <2>6, <2>7 DEF Change, Plain
  <2> QED
    BY <1>10, <2>5, <2>6, <2>8, CalmStep DEF Change
<1>11. ASSUME NEW i \in Items, Update(i) PROVE IInv'
  <2>1. [kind |-> "update", item |-> i] \in StoreBlock
    BY DEF StoreBlock
  <2>2. Fetched /\ Calm({})
    BY <1>11, Same DEF Update
  <2>3. storeQueue' \in Seq(StoreBlock) /\ Queued'
    BY <1>11, <2>1, <2>2, QueuesKept DEF Update, Block, Queued, Quiet
  <2>4. Plain'
    BY <1>0, <1>11, <2>3 DEF Update, Event, Plain
  <2> QED
    BY <1>11, <2>2, <2>3, <2>4, CalmStep DEF Update
<1>12. CASE UNCHANGED vars
  <2>1. Fetched /\ Calm({})
    BY <1>12, Same DEF vars
  <2>2. Queued'
    BY <1>12, <2>1, QueuesKept DEF vars, store, Queued, Quiet
  <2>3. Plain'
    BY <1>0, <1>12 DEF vars, store, Plain
  <2> QED
    BY <1>12, <2>1, <2>2, <2>3, CalmStep DEF vars, store
<1> QED
  BY <1>1, <1>2, <1>3, <1>4, <1>5, <1>6, <1>7, <1>8, <1>9, <1>10, <1>11, <1>12, <1>13,
     BeginLoadInv, PublishInv, RunUpdateInv, RunHandlerInv DEF Next, RunStore

LEMMA Invariant == Spec => []IInv
BY InitInv, NextInv, PTL DEF Spec

(* The variables keep their types: the read lock is held by exactly the    *)
(* loads between their two batches, and a watcher only ever cancels a      *)
(* fetch of its own (ApolloStore.load, GraphQLQueryWatcher.cancel).        *)
THEOREM TypeCorrect == Spec => []TypeOK
BY Invariant, PTL DEF IInv

(* What a load reads in two batches is what the cache held at one moment,  *)
(* however many watchers, loads, publications and updates there are        *)
(* (ApolloStore.load, publish, withinReadWriteTransaction).                *)
THEOREM AnswersAreWhole == Spec => []WholeAnswers
BY Invariant, PTL DEF IInv
=============================================================================
