----------------------- MODULE MutationDelivery_proofs -----------------------
(* MutationExecutor implements MutationDelivery, for every set of mutations *)
(* and every bound.                                                         *)
EXTENDS MutationExecutor_proofs

-----------------------------------------------------------------------------
(* What the refinement needs beyond IInv: only performed mutations are     *)
(* answered, and a record that is about to be deleted belongs to a mutation*)
(* that is on its way or answered.                                         *)
Answers ==
  /\ answered \subseteq ToSet(performed)
  /\ main \in {"submitted", "executed"} => current \in InFlight \cup answered

RInv == IInv /\ Answers

LEMMA AnswersUntouched ==
  ASSUME Answers, InFlight \subseteq InFlight', UNCHANGED <<answered, performed, current>>,
         main' = main \/ main' \notin {"submitted", "executed"}
  PROVE  Answers'
  BY DEF Answers

LEMMA AnswersSent ==
  ASSUME RInv, NEW m \in Mutations, NEW enters, NEW next, SendFromMemory(m, enters, next)
  PROVE  Answers'
<1>1. m \in InFlight'
  BY DEF RInv, IInv, TypeOK, SendFromMemory, Send, InFlight
<1>2. current' = m /\ UNCHANGED <<answered, performed>>
  BY DEF SendFromMemory
<1>. QED BY <1>1, <1>2 DEF RInv, Answers

LEMMA AnswersStep ==
  ASSUME RInv, [Next]_vars
  PROVE  Answers'
<1>. USE DEF network, records, thread, traffic, history
<1>0. TypeOK /\ Records /\ Traffic /\ Answers
  BY DEF RInv, IInv
<1>1. CASE ChangeLink \/ Notice \/ Observe \/ WaitOver \/ DrainOver \/ UNCHANGED vars
  BY <1>0, <1>1, AnswersUntouched
     DEF ChangeLink, Notice, Observe, WaitOver, DrainOver, vars, InFlight
<1>2. CASE HandleNotice
  BY <1>0, <1>2, AnswersUntouched DEF HandleNotice, InFlight
<1>3. CASE Restart
  BY <1>0, <1>3 DEF Restart, Answers
<1>4. CASE Submit
  <2>1. current \in Mutations /\ SendFromMemory(current, 1, "submitted")
    BY <1>0, <1>4 DEF Submit, Records
  <2>. QED BY <2>1, AnswersSent
<1>5. CASE ExecuteInMemory
  <2>1. mutationQueue # <<>> /\ SendFromMemory(Head(mutationQueue), 2, "executed")
    BY <1>5 DEF ExecuteInMemory
  <2>2. Head(mutationQueue) \in Mutations
    BY <1>0, <2>1, HeadTailProperties DEF TypeOK
  <2>. QED BY <2>1, <2>2, AnswersSent
<1>6. CASE DeleteSent
  <2>1. main' \in {"idle", "draining"} /\ UNCHANGED <<answered, performed>>
    BY <1>6, Zenon DEF DeleteSent
  <2>. QED BY <1>0, <2>1 DEF Answers
<1>7. CASE ExecutePersistent
  BY <1>0, <1>7 DEF ExecutePersistent, PersistentNext, Answers
<1>8. CASE \E m \in Mutations : QueueMutation(m)
  <2>1. PICK m \in Mutations : QueueMutation(m)
    BY <1>8
  <2>2. performed' = Append(performed, m) /\ UNCHANGED answered
    BY <2>1 DEF QueueMutation
  <2>3. ToSet(performed') = ToSet(performed) \cup {m}
    BY <1>0, <2>2, AppendElements DEF TypeOK
  <2>4. main' \notin {"submitted", "executed"}
    BY <2>1 DEF QueueMutation
  <2>. QED BY <1>0, <2>2, <2>3, <2>4 DEF Answers
<1>9. CASE \E m \in Mutations : Execute(m) \/ Retry(m)
  <2>1. InFlight' = InFlight
    BY <1>0, <1>9 DEF Execute, Retry, InFlight, TypeOK
  <2>. QED BY <1>0, <1>9, <2>1, AnswersUntouched DEF Execute, Retry
<1>10. CASE \E m \in Mutations : Complete(m)
  <2>1. PICK m \in Mutations : Complete(m)
    BY <1>10
  <2>2. /\ m \in InFlight /\ InFlight' = InFlight \ {m}
        /\ answered' = answered \cup {m} /\ UNCHANGED <<performed, main, current>>
    BY <1>0, <2>1 DEF Complete, Answered, InFlight, TypeOK
  <2>. QED BY <1>0, <2>2 DEF Answers, Traffic
<1>. QED
  BY <1>1, <1>2, <1>3, <1>4, <1>5, <1>6, <1>7, <1>8, <1>9, <1>10 DEF Next, Drain

LEMMA RInvariant == Spec => []RInv
<1>1. Init => RInv
  <2>1. Init => Answers
    BY DEF Init, Answers
  <2>. QED BY <2>1, InitInv DEF RInv
<1>2. RInv /\ [Next]_vars => RInv'
  BY AnswersStep, TypeStep, RecordsStep, TrafficStep DEF RInv, IInv
<1>. QED BY <1>1, <1>2, PTL DEF Spec

-----------------------------------------------------------------------------
(* The line.                                                               *)

(* Only the first record can be on its way, while the main thread waits.   *)
LineFacts ==
  /\ line \in Seq(Mutations)
  /\ InFlight \cap ToSet(line) = {}
  /\ \/ line = mutationQueue
     \/ /\ mutationQueue # <<>> /\ Head(mutationQueue) \in InFlight
        /\ path[Head(mutationQueue)] = "queued"
        /\ main = "waiting" /\ line = Tail(mutationQueue)

LEMMA LineIsQueue == IInv => LineFacts
<1>. SUFFICES ASSUME IInv PROVE LineFacts
  OBVIOUS
<1>0. /\ mutationQueue \in Seq(Mutations)
      /\ \A m \in InFlight : path[m] \in {"memory", "queued"}
      /\ \A m \in InFlight : path[m] = "queued" =>
           main = "waiting" /\ mutationQueue # <<>> /\ m = Head(mutationQueue)
      /\ \A m \in InFlight : path[m] = "memory" => m \notin ToSet(mutationQueue)
      /\ DiskMirrorsQueue /\ IsInjective(disk)
  BY DEF IInv, TypeOK, Records, Traffic
<1>1. mutationQueue # <<>> =>
        /\ Tail(mutationQueue) \in Seq(Mutations)
        /\ Head(mutationQueue) \in ToSet(mutationQueue)
  BY <1>0, HeadTailProperties DEF ToSet
<1>2. CASE mutationQueue # <<>> /\ Head(mutationQueue) \in InFlight
  <2>1. line = Tail(mutationQueue)
    BY <1>2 DEF line
  <2>2. path[Head(mutationQueue)] = "queued" /\ main = "waiting"
    BY <1>0, <1>1, <1>2
  <2>3. IsInjective(mutationQueue)
    BY <1>0, <2>2 DEF DiskMirrorsQueue
  <2>4. ToSet(line) = ToSet(mutationQueue) \ {Head(mutationQueue)}
    BY <1>0, <1>2, <2>1, <2>3, TailElements
  <2>5. InFlight \cap ToSet(line) = {}
    BY <1>0, <2>4
  <2>. QED BY <1>1, <1>2, <2>1, <2>2, <2>5 DEF LineFacts
<1>3. CASE ~(mutationQueue # <<>> /\ Head(mutationQueue) \in InFlight)
  <2>1. line = mutationQueue
    BY <1>3 DEF line
  <2>2. InFlight \cap ToSet(mutationQueue) = {}
    BY <1>0, <1>3
  <2>. QED BY <1>0, <2>1, <2>2 DEF LineFacts
<1>. QED BY <1>2, <1>3

-----------------------------------------------------------------------------
(* Every step is a step of MutationDelivery, or leaves it alone.           *)

LEMMA LineUntouched ==
  ASSUME InFlight' = InFlight, UNCHANGED <<mutationQueue, answered, server>>
  PROVE  UNCHANGED Delivery!vars
<1>1. line' = line
  BY DEF line
<1>. QED BY <1>1 DEF Delivery!vars

LEMMA LineIsQueueNext ==
  ASSUME IInv'
  PROVE  LineFacts'
  BY LineIsQueue, PTL

(* A request for the first record takes it out of the line.                *)
LEMMA Dispatched ==
  ASSUME IInv, IInv', mutationQueue # <<>>, main # "waiting",
         NEW m, m = Head(mutationQueue), InFlight' = InFlight \cup {m},
         UNCHANGED <<answered, server>>,
         \/ /\ mutationQueue' = mutationQueue
         \/ /\ mutationQueue' = Tail(mutationQueue) /\ main' # "waiting"
  PROVE  Delivery!Dispatch
<1>1. line = mutationQueue
  BY LineIsQueue DEF LineFacts
<1>2. line' = Tail(mutationQueue)
  <2>1. CASE mutationQueue' = mutationQueue
    BY <2>1 DEF line
  <2>2. CASE mutationQueue' = Tail(mutationQueue) /\ main' # "waiting"
    <3>1. (line = mutationQueue \/ main = "waiting")'
      BY LineIsQueueNext DEF LineFacts
    <3>. QED BY <2>2, <3>1
  <2>. QED BY <2>1, <2>2
<1>. QED BY <1>1, <1>2 DEF Delivery!Dispatch

LEMMA RefinementStep ==
  ASSUME RInv, RInv', [Next]_vars
  PROVE  [Delivery!Next]_Delivery!vars
<1>. USE DEF network, records, thread, traffic, history
<1>0. TypeOK /\ Records /\ Traffic /\ Answers /\ IInv /\ IInv'
  BY DEF RInv, IInv
<1>1. CASE ChangeLink \/ Notice \/ Observe \/ HandleNotice \/ DeleteSent
           \/ WaitOver \/ DrainOver \/ UNCHANGED vars
  BY <1>1, LineUntouched
     DEF ChangeLink, Notice, Observe, HandleNotice, DeleteSent, WaitOver, DrainOver, vars, InFlight
<1>2. CASE Submit
  <2>1. /\ main = "submitting" /\ main' = "submitted" /\ current \in Mutations
        /\ mutationQueue = <<current>>
        /\ mutationQueue' = Tail(mutationQueue) /\ UNCHANGED <<answered, server>>
        /\ request' = [request EXCEPT ![current] = "sent"]
    BY <1>0, <1>2 DEF Submit, SendFromMemory, Send, Records
  <2>2. InFlight' = InFlight \cup {current}
    BY <1>0, <2>1 DEF InFlight, TypeOK
  <2>3. mutationQueue # <<>> /\ Head(mutationQueue) = current
    BY <2>1
  <2>4. Delivery!Dispatch
    BY <1>0, <2>1, <2>2, <2>3, Dispatched
  <2>. QED BY <2>4 DEF Delivery!Next
<1>3. CASE ExecuteInMemory
  <2>1. /\ main = "draining" /\ main' = "executed" /\ mutationQueue # <<>>
        /\ mutationQueue' = Tail(mutationQueue) /\ UNCHANGED <<answered, server>>
        /\ request' = [request EXCEPT ![Head(mutationQueue)] = "sent"]
    BY <1>3 DEF ExecuteInMemory, SendFromMemory, Send
  <2>2. InFlight' = InFlight \cup {Head(mutationQueue)}
    <3>1. Head(mutationQueue) \in Mutations
      BY <1>0, <2>1, HeadTailProperties DEF TypeOK
    <3>. QED BY <1>0, <2>1, <3>1 DEF InFlight, TypeOK
  <2>4. Delivery!Dispatch
    BY <1>0, <2>1, <2>2, Dispatched
  <2>. QED BY <2>4 DEF Delivery!Next
<1>4. CASE ExecutePersistent
  <2>1. /\ main = "draining" /\ mutationQueue # <<>>
        /\ mutationQueue' = mutationQueue /\ UNCHANGED <<answered, server>>
        /\ request' = [request EXCEPT ![Head(mutationQueue)] = "sent"]
    BY <1>4 DEF ExecutePersistent, PersistentNext, Send
  <2>2. InFlight' = InFlight \cup {Head(mutationQueue)}
    <3>1. Head(mutationQueue) \in Mutations
      BY <1>0, <2>1, HeadTailProperties DEF TypeOK
    <3>. QED BY <1>0, <2>1, <3>1 DEF InFlight, TypeOK
  <2>4. Delivery!Dispatch
    BY <1>0, <2>1, <2>2, Dispatched
  <2>. QED BY <2>4 DEF Delivery!Next
<1>5. CASE \E m \in Mutations : QueueMutation(m)
  <2>1. PICK m \in Mutations : QueueMutation(m)
    BY <1>5
  <2>2. /\ main = "idle" /\ m \notin ToSet(performed)
        /\ mutationQueue' = Append(mutationQueue, m)
        /\ InFlight' = InFlight /\ UNCHANGED <<answered, server>>
    BY <2>1 DEF QueueMutation, InFlight
  <2>3. line = mutationQueue /\ line' = mutationQueue'
    <3>1. main' # "waiting"
      BY <2>1 DEF QueueMutation
    <3>2. (line = mutationQueue \/ main = "waiting")'
      BY <1>0, LineIsQueueNext DEF LineFacts
    <3>. QED BY <1>0, <2>2, <3>1, <3>2, LineIsQueue DEF LineFacts
  <2>4. m \notin ToSet(line) \cup InFlight \cup answered
    <3>1. ToSet(line) \subseteq ToSet(performed)
      BY <1>0, <2>2, <2>3 DEF Records, DiskMirrorsQueue
    <3>. QED BY <1>0, <2>2, <3>1 DEF Traffic, Answers
  <2>5. Delivery!Perform(m)
    BY <2>2, <2>3, <2>4 DEF Delivery!Perform, Delivery!ToSet, ToSet
  <2>. QED BY <2>5 DEF Delivery!Next
<1>6. CASE \E m \in Mutations : Execute(m)
  <2>1. PICK m \in Mutations : Execute(m)
    BY <1>6
  <2>2. /\ InFlight' = InFlight /\ m \in InFlight /\ server' = Append(server, m)
        /\ UNCHANGED <<mutationQueue, answered>>
    BY <1>0, <2>1 DEF Execute, InFlight, TypeOK
  <2>3. Delivery!Execute(m)
    BY <2>2 DEF Delivery!Execute, line
  <2>. QED BY <2>3 DEF Delivery!Next
<1>7. CASE \E m \in Mutations : Retry(m)
  <2>1. InFlight' = InFlight
    BY <1>0, <1>7 DEF Retry, InFlight, TypeOK
  <2>. QED BY <1>7, <2>1, LineUntouched DEF Retry
<1>8. CASE \E m \in Mutations : Complete(m)
  <2>1. PICK m \in Mutations : Complete(m)
    BY <1>8
  <2>2. /\ m \in InFlight /\ InFlight' = InFlight \ {m} /\ Answered(m)
        /\ answered' = answered \cup {m} /\ UNCHANGED <<server, path>>
    BY <1>0, <2>1 DEF Complete, Answered, InFlight, TypeOK
  <2>3. line' = line
    <3>1. CASE path[m] = "queued" /\ RemoveFirstRecord
      <4>1. /\ m = Head(mutationQueue) /\ mutationQueue # <<>>
            /\ mutationQueue' = Tail(mutationQueue)
        BY <2>2, <3>1, <1>0, QueuedAnswer
      <4>2. line = Tail(mutationQueue)
        BY <2>2, <4>1 DEF line
      <4>3. \A k \in InFlight' : path'[k] # "queued"
        BY <1>0, <2>2, <4>1 DEF Traffic
      <4>4. (line = mutationQueue
             \/ (Head(mutationQueue) \in InFlight /\ path[Head(mutationQueue)] = "queued"))'
        BY <1>0, LineIsQueueNext DEF LineFacts
      <4>. QED BY <4>1, <4>2, <4>3, <4>4
    <3>2. CASE path[m] = "memory" /\ UNCHANGED records
      <4>1. m \notin ToSet(mutationQueue)
        BY <1>0, <2>2, <3>2 DEF Traffic
      <4>2. mutationQueue # <<>> => Head(mutationQueue) # m
        <5>0. mutationQueue \in Seq(Mutations)
          BY <1>0 DEF TypeOK
        <5>1. mutationQueue # <<>> => Head(mutationQueue) \in ToSet(mutationQueue)
          BY <5>0, HeadTailProperties DEF ToSet
        <5>. QED BY <4>1, <5>1
      <4>. QED BY <2>2, <3>2, <4>2 DEF line
    <3>. QED BY <2>1, <3>1, <3>2 DEF Complete
  <2>4. Delivery!Settle(m)
    BY <2>2, <2>3 DEF Delivery!Settle
  <2>. QED BY <2>4 DEF Delivery!Next
<1>9. CASE Restart
  <2>1. /\ mutationQueue' = disk /\ InFlight' = {} /\ UNCHANGED <<answered, server>>
    BY <1>9 DEF Restart, InFlight
  <2>2. line' = disk
    BY <2>1 DEF line
  <2>3. \/ line' = line
        \/ \E m \in (InFlight \cup answered) \ ToSet(line) : line' = <<m>> \o line
    <3>1. CASE main \in {"submitted", "executed"}
      <4>1. /\ disk = <<current>> \o mutationQueue /\ line = mutationQueue
            /\ IsInjective(disk) /\ current \in InFlight \cup answered
            /\ current \in Mutations /\ mutationQueue \in Seq(Mutations)
        BY <1>0, <3>1, LineIsQueue DEF Records, DiskMirrorsQueue, Answers, TypeOK, LineFacts
      <4>2. disk # <<>> /\ disk \in Seq(Mutations) /\ Head(disk) = current /\ Tail(disk) = line
        BY <4>1, ConsElements
      <4>3. current \notin ToSet(line)
        BY <4>1, <4>2, TailElements
      <4>. QED BY <2>2, <4>1, <4>3
    <3>2. CASE main \notin {"submitted", "executed"}
      <4>1. disk = mutationQueue
        BY <1>0, <3>2 DEF Records, DiskMirrorsQueue
      <4>2. CASE line = mutationQueue
        BY <2>2, <4>1, <4>2
      <4>3. CASE /\ mutationQueue # <<>> /\ Head(mutationQueue) \in InFlight
                 /\ line = Tail(mutationQueue)
        <5>0. mutationQueue \in Seq(Mutations)
          BY <1>0 DEF TypeOK
        <5>1. mutationQueue = <<Head(mutationQueue)>> \o line
          BY <4>3, <5>0, HeadThenTail
        <5>2. Head(mutationQueue) \notin ToSet(line)
          BY <1>0, <4>3, LineIsQueue DEF LineFacts
        <5>. QED BY <2>2, <4>1, <4>3, <5>1, <5>2
      <4>. QED BY <1>0, <4>2, <4>3, LineIsQueue DEF LineFacts
    <3>. QED BY <3>1, <3>2
  <2>4. Delivery!Crash
    BY <2>1, <2>3 DEF Delivery!Crash, Delivery!ToSet, ToSet
  <2>. QED BY <2>4 DEF Delivery!Next
<1>. QED
  BY <1>1, <1>2, <1>3, <1>4, <1>5, <1>6, <1>7, <1>8, <1>9 DEF Next, Drain

(* Whatever the connections, the operations the callers keep, the retries  *)
(* and the crashes, the queue delivers as MutationDelivery says: nothing   *)
(* leaves the line but from its front, and a crash puts back one mutation  *)
(* at most, at the front.                                                  *)
THEOREM Refinement == Spec => Delivers
<1>1. Init => Delivery!Init
  BY DEF Init, Delivery!Init, line, InFlight
<1>2. RInv /\ RInv' /\ [Next]_vars => [Delivery!Next]_Delivery!vars
  BY RefinementStep
<1>. QED BY <1>1, <1>2, RInvariant, PTL DEF Spec, Delivers, Delivery!Spec
=============================================================================
