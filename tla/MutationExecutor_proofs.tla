----------------------- MODULE MutationExecutor_proofs -----------------------
(* Safety of MutationExecutor, for every set of mutations and every bound.  *)
EXTENDS MutationExecutor, FiniteSetTheorems, SequenceTheorems, TLAPS

-----------------------------------------------------------------------------
(* The inductive invariant.                                                *)

(* The table holds each record once and mirrors the queue; the record the  *)
(* main thread sends from memory is the one it is about to delete.         *)
Records ==
  /\ DiskMirrorsQueue
  /\ IsInjective(disk)
  /\ ToSet(disk) \subseteq ToSet(performed)
  /\ main \in {"submitting", "submitted", "executed"} => current \in Mutations
  /\ main = "submitting" => mutationQueue = <<current>>
  /\ main \in {"submitted", "executed"} => current \in sentAtOnce

(* A request of the queued path is the one the main thread waits for.      *)
Traffic ==
  /\ \A m \in InFlight : /\ path[m] \in {"memory", "queued"}
                         /\ m \in ToSet(performed)
  /\ \A m \in InFlight : path[m] = "queued" =>
       main = "waiting" /\ mutationQueue # <<>> /\ m = Head(mutationQueue)
  /\ \A m \in InFlight : path[m] = "memory" => m \notin ToSet(mutationQueue)
  /\ group >= Cardinality(InFlight)

IInv == TypeOK /\ Records /\ Traffic

-----------------------------------------------------------------------------
(* Sequences.                                                              *)

LEMMA WithoutHead ==
  ASSUME NEW s \in Seq(Mutations), s # <<>>, IsInjective(s)
  PROVE  Without(s, Head(s)) = Tail(s)
<1>1. IndicesOf(s, Head(s)) = {1}
  BY DEF IndicesOf, IsInjective
<1>2. (CHOOSE i \in IndicesOf(s, Head(s)) : TRUE) = 1
  BY <1>1
<1>3. RemoveAt(s, 1) = Tail(s)
  <2>1. SubSeq(s, 1, 1 - 1) = <<>>
    BY SubSeqEmpty
  <2>2. Tail(s) = SubSeq(s, 1 + 1, Len(s)) /\ Tail(s) \in Seq(Mutations)
    BY TailIsSubSeq, HeadTailProperties
  <2>. QED BY <2>1, <2>2, ConcatEmptySeq DEF RemoveAt
<1>. QED BY <1>1, <1>2, <1>3 DEF Without

LEMMA TailElements ==
  ASSUME NEW s \in Seq(Mutations), s # <<>>, IsInjective(s)
  PROVE  /\ IsInjective(Tail(s))
         /\ ToSet(Tail(s)) = ToSet(s) \ {Head(s)}
<1>1. /\ Tail(s) \in Seq(Mutations) /\ Len(Tail(s)) = Len(s) - 1
      /\ \A i \in 1..Len(Tail(s)) : Tail(s)[i] = s[i + 1]
      /\ Len(s) >= 1 /\ Head(s) = s[1] /\ Len(s) \in Nat
  BY HeadTailProperties
<1>2. IsInjective(Tail(s))
  BY <1>1 DEF IsInjective
<1>3. ToSet(Tail(s)) \subseteq ToSet(s) \ {Head(s)}
  BY <1>1 DEF IsInjective, ToSet
<1>4. ASSUME NEW x \in ToSet(s) \ {Head(s)} PROVE x \in ToSet(Tail(s))
  <2>1. PICK i \in DOMAIN s : s[i] = x
    BY DEF ToSet
  <2>2. i - 1 \in DOMAIN Tail(s) /\ Tail(s)[i - 1] = x
    BY <1>1, <2>1
  <2>. QED BY <2>2 DEF ToSet
<1>. QED BY <1>2, <1>3, <1>4

LEMMA ConsElements ==
  ASSUME NEW m \in Mutations, NEW s \in Seq(Mutations)
  PROVE  /\ <<m>> \o s # <<>> /\ <<m>> \o s \in Seq(Mutations)
         /\ Head(<<m>> \o s) = m
         /\ Tail(<<m>> \o s) = s
  OBVIOUS

LEMMA HeadThenTail ==
  ASSUME NEW s \in Seq(Mutations), s # <<>>
  PROVE  s = <<Head(s)>> \o Tail(s)
  OBVIOUS

LEMMA AppendElements ==
  ASSUME NEW s \in Seq(Mutations), NEW m \in Mutations
  PROVE  /\ ToSet(Append(s, m)) = ToSet(s) \cup {m}
         /\ IsInjective(s) /\ m \notin ToSet(s) => IsInjective(Append(s, m))
<1>1. /\ Append(s, m) \in Seq(Mutations) /\ Len(Append(s, m)) = Len(s) + 1 /\ Len(s) \in Nat
      /\ \A i \in 1..Len(s) : Append(s, m)[i] = s[i]
      /\ Append(s, m)[Len(s) + 1] = m
  OBVIOUS
<1>2. ToSet(Append(s, m)) \subseteq ToSet(s) \cup {m}
  BY <1>1 DEF ToSet
<1>3. ToSet(s) \cup {m} \subseteq ToSet(Append(s, m))
  BY <1>1 DEF ToSet
<1>4. IsInjective(s) /\ m \notin ToSet(s) => IsInjective(Append(s, m))
  BY <1>1 DEF ToSet, IsInjective
<1>. QED BY <1>2, <1>3, <1>4

-----------------------------------------------------------------------------
(* Initially.                                                              *)

LEMMA InitInv == Init => IInv
<1>. SUFFICES ASSUME Init PROVE IInv
  OBVIOUS
<1>1. InFlight = {} /\ Cardinality(InFlight) = 0
  BY FS_EmptySet DEF Init, InFlight
<1>2. TypeOK
  BY BoundAssumption DEF Init, TypeOK
<1>3. Records
  BY DEF Init, Records, DiskMirrorsQueue, IsInjective, ToSet
<1>4. Traffic
  BY <1>1 DEF Init, Traffic
<1>. QED BY <1>2, <1>3, <1>4 DEF IInv

-----------------------------------------------------------------------------
(* Types.                                                                  *)

LEMMA FinitelyInFlight ==
  IsFiniteSet(InFlight) /\ Cardinality(InFlight) \in Nat
<1>1. InFlight \in SUBSET Mutations
  BY DEF InFlight
<1>. QED BY <1>1, MutationsAssumption, FS_Subset, FS_CardinalityType

(* An answer finds the group entered, so the count stays a natural number. *)
LEMMA GroupEntered ==
  ASSUME IInv, NEW m \in InFlight
  PROVE  group >= 1
<1>1. Cardinality(InFlight) # 0
  BY FinitelyInFlight, FS_EmptySet
<1>. QED BY <1>1, FinitelyInFlight DEF IInv, Traffic, TypeOK

(* An answer on the queued path finds its record at the head of the queue, *)
(* and the table agrees with the queue.                                    *)
LEMMA QueuedAnswer ==
  ASSUME IInv, NEW m \in Mutations, Answered(m), path[m] = "queued", RemoveFirstRecord
  PROVE  /\ main = "waiting" /\ mutationQueue # <<>> /\ m = Head(mutationQueue)
         /\ disk = mutationQueue
         /\ disk' = mutationQueue' /\ mutationQueue' = Tail(mutationQueue)
<1>1. m \in InFlight
  BY DEF Answered, InFlight
<1>2. main = "waiting" /\ mutationQueue # <<>> /\ m = Head(mutationQueue)
  BY <1>1 DEF IInv, Traffic
<1>3. disk = mutationQueue /\ IsInjective(disk) /\ mutationQueue \in Seq(Mutations)
  BY <1>2 DEF IInv, Records, DiskMirrorsQueue, TypeOK
<1>. QED BY <1>2, <1>3, WithoutHead DEF RemoveFirstRecord

(* The record that is deleted after its request is the first of the table. *)
LEMMA SentDeletion ==
  ASSUME IInv, DeleteSent
  PROVE  /\ current \in Mutations /\ current \in sentAtOnce
         /\ disk # <<>> /\ Head(disk) = current
         /\ disk' = Tail(disk) /\ disk' = mutationQueue
<1>1. main \in {"submitted", "executed"} /\ disk' = Without(disk, current)
  BY DEF DeleteSent
<1>2. /\ disk = <<current>> \o mutationQueue /\ IsInjective(disk)
      /\ current \in Mutations /\ current \in sentAtOnce
      /\ mutationQueue \in Seq(Mutations)
  BY <1>1 DEF IInv, Records, DiskMirrorsQueue, TypeOK
<1>3. disk # <<>> /\ disk \in Seq(Mutations) /\ Head(disk) = current /\ Tail(disk) = mutationQueue
  BY <1>2, ConsElements
<1>. QED BY <1>1, <1>2, <1>3, WithoutHead

LEMMA TypeStep ==
  ASSUME IInv, [Next]_vars
  PROVE  TypeOK'
<1>. USE DEF network, records, thread, traffic, history
<1>0. TypeOK
  BY DEF IInv
<1>1. CASE ChangeLink
  BY <1>0, <1>1 DEF ChangeLink, TypeOK
<1>2. CASE Notice
  BY <1>0, <1>2, BoundAssumption DEF Notice, TypeOK
<1>3. CASE Observe
  BY <1>0, <1>3 DEF Observe, TypeOK
<1>4. CASE HandleNotice
  <2>0. notices > 0 /\ notices' = notices - 1 /\ isInitialConnection' = FALSE
    BY <1>4, Zenon DEF HandleNotice
  <2>1. notices' \in 0..MaxNotices /\ isInitialConnection' \in BOOLEAN
    <3>1. notices \in 0..MaxNotices
      BY <1>0 DEF TypeOK
    <3>2. notices' \in 0..MaxNotices
      BY <2>0, <3>1, BoundAssumption
    <3>. QED BY <2>0, <3>2
  <2>2. shouldExecute' \in BOOLEAN
    BY <1>0, <1>4, Zenon DEF HandleNotice, TypeOK
  <2>3. main' \in {"idle", "draining"}
    BY <1>0, <1>4, Zenon DEF HandleNotice
  <2>. QED BY <1>0, <1>4, <2>1, <2>2, <2>3 DEF HandleNotice, TypeOK
<1>5. CASE Restart
  BY <1>0, <1>5, BoundAssumption DEF Restart, TypeOK
<1>6. CASE Submit
  <2>1. current \in Mutations /\ mutationQueue = <<current>>
    BY <1>6 DEF IInv, Records, Submit
  <2>. QED BY <1>0, <1>6, <2>1 DEF Submit, SendFromMemory, Send, TypeOK
<1>7. CASE DeleteSent
  <2>1. disk' = mutationQueue
    BY <1>7, SentDeletion
  <2>. QED BY <1>0, <1>7, <2>1 DEF DeleteSent, TypeOK
<1>8. CASE ExecuteInMemory
  <2>1. Head(mutationQueue) \in Mutations /\ Tail(mutationQueue) \in Seq(Mutations)
    BY <1>0, <1>8, HeadTailProperties DEF ExecuteInMemory, TypeOK
  <2>. QED BY <1>0, <1>8, <2>1 DEF ExecuteInMemory, SendFromMemory, Send, TypeOK
<1>9. CASE ExecutePersistent
  <2>1. Head(mutationQueue) \in Mutations
    BY <1>0, <1>9, HeadTailProperties DEF ExecutePersistent, PersistentNext, TypeOK
  <2>. QED BY <1>0, <1>9, <2>1 DEF ExecutePersistent, PersistentNext, Send, TypeOK
<1>10. CASE WaitOver
  BY <1>0, <1>10 DEF WaitOver, TypeOK
<1>11. CASE DrainOver
  BY <1>0, <1>11 DEF DrainOver, TypeOK
<1>12. CASE \E m \in Mutations : QueueMutation(m)
  BY <1>0, <1>12 DEF QueueMutation, TypeOK
<1>13. CASE \E m \in Mutations : Execute(m)
  BY <1>0, <1>13 DEF Execute, TypeOK
<1>14. CASE \E m \in Mutations : Retry(m)
  <2>1. PICK m \in Mutations : Retry(m)
    BY <1>14
  <2>2. retries[m] + 1 \in 0..MaxRetries
    BY <1>0, <2>1, BoundAssumption DEF Retry, TypeOK
  <2>. QED BY <1>0, <2>1, <2>2 DEF Retry, TypeOK
<1>15. CASE \E m \in Mutations : Complete(m)
  <2>1. PICK m \in Mutations : Complete(m)
    BY <1>15
  <2>2. group - 1 \in Nat
    <3>1. m \in InFlight
      BY <2>1 DEF Complete, Answered, InFlight
    <3>. QED BY <1>0, <3>1, GroupEntered DEF TypeOK
  <2>3. mutationQueue' \in Seq(Mutations) /\ disk' \in Seq(Mutations)
    <3>1. CASE path[m] = "queued" /\ RemoveFirstRecord
      <4>1. /\ mutationQueue # <<>> /\ disk' = mutationQueue'
            /\ mutationQueue' = Tail(mutationQueue)
        BY <2>1, <3>1, QueuedAnswer DEF Complete
      <4>. QED BY <1>0, <4>1, HeadTailProperties DEF TypeOK
    <3>2. CASE path[m] = "memory" /\ UNCHANGED records
      BY <1>0, <3>2 DEF TypeOK
    <3>. QED BY <2>1, <3>1, <3>2 DEF Complete
  <2>4. handled' \subseteq Mutations
    BY <1>0, <2>1 DEF Complete, Answered, TypeOK
  <2>. QED BY <1>0, <2>1, <2>2, <2>3, <2>4 DEF Complete, Answered, TypeOK
<1>16. CASE UNCHANGED vars
  BY <1>0, <1>16 DEF vars, TypeOK
<1>. QED
  BY <1>1, <1>2, <1>3, <1>4, <1>5, <1>6, <1>7, <1>8, <1>9, <1>10, <1>11, <1>12,
     <1>13, <1>14, <1>15, <1>16 DEF Next, Drain

-----------------------------------------------------------------------------
(* The table and the queue.                                                *)

LEMMA RecordsUntouched ==
  ASSUME IInv, UNCHANGED <<mutationQueue, disk, current, performed, sentAtOnce>>,
         \/ main' = main
         \/ {main, main'} \subseteq {"idle", "draining", "waiting"}
  PROVE  Records'
  BY DEF IInv, Records, DiskMirrorsQueue

LEMMA RecordsStep ==
  ASSUME IInv, [Next]_vars
  PROVE  Records'
<1>. USE DEF network, records, thread, traffic, history
<1>0. TypeOK /\ Records
  BY DEF IInv
<1>1. CASE ChangeLink \/ Notice \/ Observe \/ WaitOver \/ DrainOver \/ UNCHANGED vars
  BY <1>1, RecordsUntouched DEF ChangeLink, Notice, Observe, WaitOver, DrainOver, vars
<1>2. CASE HandleNotice
  <2>1. main' \in {"idle", "draining"} /\ main = "idle"
    BY <1>2, Zenon DEF HandleNotice
  <2>2. UNCHANGED <<mutationQueue, disk, current, performed, sentAtOnce>>
    BY <1>2 DEF HandleNotice
  <2>. QED BY <2>1, <2>2, RecordsUntouched
<1>3. CASE ExecutePersistent
  BY <1>3, RecordsUntouched DEF ExecutePersistent, PersistentNext
<1>4. CASE \E m \in Mutations : Execute(m) \/ Retry(m)
  BY <1>4, RecordsUntouched DEF Execute, Retry
<1>5. CASE Restart
  <2>1. UNCHANGED <<disk, performed, sentAtOnce>> /\ mutationQueue' = disk /\ main' = "idle"
    BY <1>5 DEF Restart
  <2>. QED BY <1>0, <2>1 DEF Records, DiskMirrorsQueue
<1>6. CASE Submit
  <2>1. /\ main = "submitting" /\ main' = "submitted"
        /\ current' = current /\ current \in Mutations
        /\ mutationQueue = <<current>> /\ disk = mutationQueue
        /\ mutationQueue' = Tail(mutationQueue)
        /\ UNCHANGED <<disk, performed>> /\ sentAtOnce' = sentAtOnce \cup {current}
    BY <1>0, <1>6 DEF Submit, SendFromMemory, Records, DiskMirrorsQueue
  <2>2. disk' = <<current'>> \o mutationQueue'
    BY <2>1
  <2>. QED BY <1>0, <2>1, <2>2 DEF Records, DiskMirrorsQueue
<1>7. CASE ExecuteInMemory
  <2>1. /\ main = "draining" /\ main' = "executed" /\ mutationQueue # <<>>
        /\ current' = Head(mutationQueue) /\ disk = mutationQueue
        /\ mutationQueue' = Tail(mutationQueue)
        /\ UNCHANGED <<disk, performed>> /\ sentAtOnce' = sentAtOnce \cup {current'}
    BY <1>0, <1>7 DEF ExecuteInMemory, SendFromMemory, Records, DiskMirrorsQueue
  <2>2. disk' = <<current'>> \o mutationQueue' /\ current' \in Mutations
    BY <1>0, <2>1, HeadThenTail, HeadTailProperties DEF TypeOK
  <2>. QED BY <1>0, <2>1, <2>2 DEF Records, DiskMirrorsQueue
<1>8. CASE DeleteSent
  <2>1. /\ disk # <<>> /\ disk' = Tail(disk) /\ disk' = mutationQueue
        /\ UNCHANGED <<mutationQueue, performed, sentAtOnce>>
        /\ main' \in {"idle", "draining"}
    BY <1>8, SentDeletion DEF DeleteSent
  <2>2. IsInjective(disk') /\ ToSet(disk') \subseteq ToSet(disk)
    BY <1>0, <2>1, TailElements DEF Records, TypeOK
  <2>. QED BY <1>0, <2>1, <2>2 DEF Records, DiskMirrorsQueue
<1>9. CASE \E m \in Mutations : QueueMutation(m)
  <2>1. PICK m \in Mutations : QueueMutation(m)
    BY <1>9
  <2>2. /\ main = "idle" /\ disk = mutationQueue /\ m \notin ToSet(performed)
        /\ mutationQueue' = Append(mutationQueue, m) /\ disk' = Append(disk, m)
        /\ performed' = Append(performed, m) /\ UNCHANGED sentAtOnce
    BY <1>0, <2>1 DEF QueueMutation, Records, DiskMirrorsQueue
  <2>3. \/ main' = "submitting" /\ current' = m /\ Len(mutationQueue') = 1
        \/ main' = "idle"
    BY <2>1, <2>2 DEF QueueMutation
  <2>4. IsInjective(disk') /\ ToSet(disk') \subseteq ToSet(performed')
    <3>1. m \notin ToSet(disk) /\ IsInjective(disk)
      BY <1>0, <2>2 DEF Records
    <3>2. IsInjective(disk') /\ ToSet(disk') = ToSet(disk) \cup {m}
      BY <1>0, <2>2, <3>1, AppendElements DEF TypeOK
    <3>3. ToSet(performed') = ToSet(performed) \cup {m}
      BY <1>0, <2>2, AppendElements DEF TypeOK
    <3>. QED BY <1>0, <3>2, <3>3 DEF Records
  <2>5. Len(mutationQueue') = 1 => mutationQueue' = <<m>>
    <3>1. mutationQueue \in Seq(Mutations)
      BY <1>0 DEF TypeOK
    <3>2. Len(mutationQueue') = Len(mutationQueue) + 1
      BY <2>2, <3>1
    <3>3. Len(mutationQueue) = 0 => mutationQueue = <<>>
      BY <3>1, EmptySeq
    <3>4. Len(mutationQueue) \in Nat
      BY <3>1
    <3>5. ASSUME Len(mutationQueue') = 1 PROVE mutationQueue' = <<m>>
      <4>1. Len(mutationQueue) + 1 = 1
        BY <3>2, <3>5, Zenon
      <4>2. Len(mutationQueue) = 0
        BY <3>4, <4>1
      <4>. QED BY <2>2, <3>3, <4>2
    <3>. QED BY <3>5
  <2>. QED BY <2>2, <2>3, <2>4, <2>5 DEF Records, DiskMirrorsQueue
<1>10. CASE \E m \in Mutations : Complete(m)
  <2>1. PICK m \in Mutations : Complete(m)
    BY <1>10
  <2>2. UNCHANGED <<main, current, performed, sentAtOnce>> /\ Answered(m)
    BY <2>1 DEF Complete, Answered
  <2>3. CASE path[m] = "memory" /\ UNCHANGED records
    BY <2>2, <2>3, RecordsUntouched
  <2>4. CASE path[m] = "queued" /\ RemoveFirstRecord
    <3>1. /\ main = "waiting" /\ mutationQueue # <<>> /\ disk = mutationQueue
          /\ disk' = mutationQueue' /\ disk' = Tail(disk)
      BY <2>2, <2>4, QueuedAnswer
    <3>2. IsInjective(disk') /\ ToSet(disk') \subseteq ToSet(disk)
      BY <1>0, <3>1, TailElements DEF Records, TypeOK
    <3>. QED BY <1>0, <2>2, <3>1, <3>2 DEF Records, DiskMirrorsQueue
  <2>. QED BY <2>1, <2>3, <2>4 DEF Complete
<1>. QED
  BY <1>1, <1>2, <1>3, <1>4, <1>5, <1>6, <1>7, <1>8, <1>9, <1>10 DEF Next, Drain

-----------------------------------------------------------------------------
(* The requests.                                                           *)

LEMMA TrafficUntouched ==
  ASSUME IInv, InFlight' = InFlight,
         UNCHANGED <<path, performed, group, mutationQueue>>,
         main = "waiting" /\ InFlight # {} => main' = "waiting"
  PROVE  Traffic'
  BY DEF IInv, Traffic

(* A request is sent for the first record of the queue.                    *)
LEMMA TrafficSent ==
  ASSUME IInv, NEW m \in Mutations, NEW how \in {"memory", "queued"}, NEW n \in Nat \ {0},
         Send(m, how, n), main # "waiting", UNCHANGED performed,
         mutationQueue # <<>>, m = Head(mutationQueue), disk = mutationQueue,
         \/ how = "queued" /\ main' = "waiting" /\ UNCHANGED mutationQueue
         \/ how = "memory" /\ mutationQueue' = Tail(mutationQueue)
  PROVE  Traffic'
<1>0. TypeOK /\ Records /\ Traffic
  BY DEF IInv
<1>1. /\ request' = [request EXCEPT ![m] = "sent"]
      /\ path' = [path EXCEPT ![m] = how] /\ group' = group + n
  BY DEF Send
<1>2. InFlight' = InFlight \cup {m}
  BY <1>0, <1>1 DEF InFlight, TypeOK
<1>3. \A k \in Mutations : path'[k] = IF k = m THEN how ELSE path[k]
  BY <1>0, <1>1 DEF TypeOK
<1>4. \A k \in InFlight : path[k] = "memory" /\ k \in Mutations
  BY <1>0 DEF Traffic, InFlight
<1>5. m \in ToSet(performed) /\ IsInjective(mutationQueue) /\ mutationQueue \in Seq(Mutations)
  <2>1. m \in ToSet(disk)
    BY <1>0 DEF TypeOK, ToSet
  <2>. QED BY <1>0, <2>1 DEF Records, TypeOK
<1>6. group' >= Cardinality(InFlight')
  <2>1. Cardinality(InFlight \cup {m})
          = IF m \in InFlight THEN Cardinality(InFlight) ELSE Cardinality(InFlight) + 1
    BY FinitelyInFlight, FS_AddElement, Zenon
  <2>. QED BY <1>0, <1>1, <1>2, <2>1, FinitelyInFlight DEF Traffic, TypeOK
<1>7. ASSUME NEW k \in InFlight'
      PROVE  path'[k] \in {"memory", "queued"} /\ k \in ToSet(performed')
  BY <1>0, <1>2, <1>3, <1>4, <1>5, <1>7 DEF Traffic
<1>8. ASSUME NEW k \in InFlight', path'[k] = "queued"
      PROVE  main' = "waiting" /\ mutationQueue' # <<>> /\ k = Head(mutationQueue')
  BY <1>2, <1>3, <1>4, <1>8
<1>9. ASSUME NEW k \in InFlight', path'[k] = "memory"
      PROVE  k \notin ToSet(mutationQueue')
  <2>1. CASE how = "queued"
    <3>1. k \in InFlight /\ mutationQueue' = mutationQueue
      BY <1>2, <1>3, <1>9, <2>1
    <3>. QED BY <1>0, <1>4, <3>1 DEF Traffic
  <2>2. CASE how = "memory"
    <3>1. ToSet(mutationQueue') = ToSet(mutationQueue) \ {m}
      BY <1>5, <2>2, TailElements
    <3>. QED BY <1>0, <1>2, <1>4, <3>1 DEF Traffic
  <2>. QED BY <2>1, <2>2
<1>. QED BY <1>6, <1>7, <1>8, <1>9 DEF Traffic

LEMMA TrafficStep ==
  ASSUME IInv, [Next]_vars
  PROVE  Traffic'
<1>. USE DEF network, records, thread, traffic, history
<1>0. TypeOK /\ Records /\ Traffic
  BY DEF IInv
<1>1. CASE ChangeLink \/ Notice \/ Observe \/ DrainOver \/ UNCHANGED vars
  BY <1>1, TrafficUntouched DEF ChangeLink, Notice, Observe, DrainOver, vars, InFlight
<1>2. CASE HandleNotice
  BY <1>2, TrafficUntouched DEF HandleNotice, InFlight
<1>3. CASE WaitOver
  <2>1. InFlight = {}
    <3>1. group = 0 /\ group >= Cardinality(InFlight)
      BY <1>0, <1>3 DEF WaitOver, Traffic
    <3>. QED BY <3>1, FinitelyInFlight, FS_EmptySet
  <2>. QED BY <1>3, <2>1, TrafficUntouched DEF WaitOver, InFlight
<1>4. CASE DeleteSent
  BY <1>4, TrafficUntouched DEF DeleteSent, InFlight
<1>5. CASE \E m \in Mutations : Execute(m) \/ Retry(m)
  <2>1. InFlight' = InFlight
    BY <1>0, <1>5 DEF Execute, Retry, InFlight, TypeOK
  <2>. QED BY <1>5, <2>1, TrafficUntouched DEF Execute, Retry
<1>6. CASE Restart
  <2>1. InFlight' = {} /\ group' = 0
    BY <1>6 DEF Restart, InFlight
  <2>2. Cardinality(InFlight') = 0
    BY <2>1, FS_EmptySet
  <2>. QED BY <2>1, <2>2 DEF Traffic
<1>7. CASE Submit
  <2>1. /\ main = "submitting" /\ current \in Mutations
        /\ mutationQueue = <<current>> /\ disk = mutationQueue
    BY <1>0, <1>7 DEF Submit, Records, DiskMirrorsQueue
  <2>2. /\ Send(current, "memory", 1) /\ UNCHANGED performed
        /\ mutationQueue' = Tail(mutationQueue)
    BY <1>7 DEF Submit, SendFromMemory
  <2>3. mutationQueue # <<>> /\ Head(mutationQueue) = current
    BY <2>1
  <2>. QED BY <2>1, <2>2, <2>3, TrafficSent
<1>8. CASE ExecuteInMemory
  <2>1. /\ main = "draining" /\ mutationQueue # <<>> /\ disk = mutationQueue
        /\ Send(Head(mutationQueue), "memory", 2) /\ UNCHANGED performed
        /\ mutationQueue' = Tail(mutationQueue)
    BY <1>0, <1>8 DEF ExecuteInMemory, SendFromMemory, Records, DiskMirrorsQueue
  <2>2. Head(mutationQueue) \in Mutations
    BY <1>0, <2>1, HeadTailProperties DEF TypeOK
  <2>. QED BY <2>1, <2>2, TrafficSent
<1>9. CASE ExecutePersistent
  <2>1. /\ main = "draining" /\ mutationQueue # <<>> /\ disk = mutationQueue
        /\ Send(Head(mutationQueue), "queued", 1) /\ UNCHANGED performed
        /\ main' = "waiting" /\ UNCHANGED mutationQueue
    BY <1>0, <1>9 DEF ExecutePersistent, PersistentNext, Records, DiskMirrorsQueue
  <2>2. Head(mutationQueue) \in Mutations
    BY <1>0, <2>1, HeadTailProperties DEF TypeOK
  <2>. QED BY <2>1, <2>2, TrafficSent
<1>10. CASE \E m \in Mutations : QueueMutation(m)
  <2>1. PICK m \in Mutations : QueueMutation(m)
    BY <1>10
  <2>2. /\ InFlight' = InFlight /\ UNCHANGED <<path, group>> /\ main = "idle"
        /\ m \notin ToSet(performed)
        /\ mutationQueue' = Append(mutationQueue, m) /\ performed' = Append(performed, m)
    BY <2>1 DEF QueueMutation, InFlight
  <2>3. /\ ToSet(performed') = ToSet(performed) \cup {m}
        /\ ToSet(mutationQueue') = ToSet(mutationQueue) \cup {m}
    BY <1>0, <2>2, AppendElements DEF TypeOK
  <2>. QED BY <1>0, <2>2, <2>3 DEF Traffic
<1>11. CASE \E m \in Mutations : Complete(m)
  <2>1. PICK m \in Mutations : Complete(m)
    BY <1>11
  <2>2. /\ m \in InFlight /\ InFlight' = InFlight \ {m}
        /\ group' = group - 1 /\ UNCHANGED <<path, performed, main>> /\ Answered(m)
    BY <1>0, <2>1 DEF Complete, Answered, InFlight, TypeOK
  <2>3. group' >= Cardinality(InFlight')
    <3>1. Cardinality(InFlight') = Cardinality(InFlight) - 1
      BY <2>2, FinitelyInFlight, FS_RemoveElement
    <3>. QED BY <1>0, <2>2, <3>1, FinitelyInFlight DEF Traffic, TypeOK
  <2>4. CASE path[m] = "memory" /\ UNCHANGED records
    BY <1>0, <2>2, <2>3, <2>4 DEF Traffic
  <2>5. CASE path[m] = "queued" /\ RemoveFirstRecord
    <3>1. /\ m = Head(mutationQueue) /\ mutationQueue # <<>> /\ disk = mutationQueue
          /\ mutationQueue' = Tail(mutationQueue)
      BY <2>2, <2>5, QueuedAnswer
    <3>2. ToSet(mutationQueue') \subseteq ToSet(mutationQueue)
      BY <1>0, <3>1, TailElements DEF TypeOK, Records
    <3>3. \A k \in InFlight' : path[k] # "queued"
      BY <1>0, <2>2, <3>1 DEF Traffic
    <3>. QED BY <1>0, <2>2, <2>3, <3>2, <3>3 DEF Traffic
  <2>. QED BY <2>1, <2>4, <2>5 DEF Complete
<1>. QED
  BY <1>1, <1>2, <1>3, <1>4, <1>5, <1>6, <1>7, <1>8, <1>9, <1>10, <1>11 DEF Next, Drain

-----------------------------------------------------------------------------
(* The invariant, and the safety it gives.                                 *)

(* What queueMutation, the drain and the completion handlers rely on       *)
(* without saying so holds at every step, crashes included.                *)
THEOREM Invariant == Spec => []IInv
<1>1. IInv /\ [Next]_vars => IInv'
  BY TypeStep, RecordsStep, TrafficStep DEF IInv
<1>. QED BY <1>1, InitInv, PTL DEF Spec

(* Every variable of the executor keeps its type; in particular no answer  *)
(* leaves the dispatch group more often than it was entered.               *)
THEOREM TypeCorrect == Spec => []TypeOK
<1>1. IInv => TypeOK
  BY DEF IInv
<1>. QED BY <1>1, Invariant, PTL

(* queueMutation, the drain, the answers and a restart keep the table      *)
(* mutation_records and the queue in memory in step.                       *)
THEOREM TableMirrorsQueue == Spec => []DiskMirrorsQueue
<1>1. IInv => DiskMirrorsQueue
  BY DEF IInv, Records
<1>. QED BY <1>1, Invariant, PTL

(* The completion handler's removeFirst() removes the record of the        *)
(* request that was answered.                                              *)
THEOREM RemovesItsOwn == Spec => []AnswerRemovesItsOwn
<1>1. IInv => AnswerRemovesItsOwn
  BY DEF IInv, Traffic, AnswerRemovesItsOwn
<1>. QED BY <1>1, Invariant, PTL

-----------------------------------------------------------------------------
(* No mutation is forgotten.                                               *)

LEMMA KeptStep ==
  ASSUME IInv, KeptUntilAnswered, [Next]_vars
  PROVE  KeptUntilAnswered'
<1>. USE DEF network, records, thread, traffic, history
<1>0. TypeOK /\ Records
  BY DEF IInv
<1>1. CASE UNCHANGED <<disk, performed, sentAtOnce, answered>>
  BY <1>1 DEF KeptUntilAnswered
<1>2. CASE Submit \/ ExecuteInMemory
  <2>1. UNCHANGED <<disk, performed, answered>> /\ sentAtOnce \subseteq sentAtOnce'
    BY <1>2 DEF Submit, ExecuteInMemory, SendFromMemory
  <2>. QED BY <2>1 DEF KeptUntilAnswered
<1>3. CASE DeleteSent
  <2>1. /\ current \in sentAtOnce /\ disk # <<>> /\ Head(disk) = current
        /\ disk' = Tail(disk) /\ UNCHANGED <<performed, answered, sentAtOnce>>
    BY <1>3, SentDeletion DEF DeleteSent
  <2>2. ToSet(disk') = ToSet(disk) \ {current}
    BY <1>0, <2>1, TailElements DEF Records, TypeOK
  <2>. QED BY <2>1, <2>2 DEF KeptUntilAnswered
<1>4. CASE \E m \in Mutations : QueueMutation(m)
  <2>1. PICK m \in Mutations : QueueMutation(m)
    BY <1>4
  <2>2. /\ disk' = Append(disk, m) /\ performed' = Append(performed, m)
        /\ UNCHANGED <<answered, sentAtOnce>>
    BY <2>1 DEF QueueMutation
  <2>3. /\ ToSet(disk') = ToSet(disk) \cup {m}
        /\ ToSet(performed') = ToSet(performed) \cup {m}
    BY <1>0, <2>2, AppendElements DEF TypeOK
  <2>. QED BY <2>2, <2>3 DEF KeptUntilAnswered
<1>5. CASE \E m \in Mutations : Complete(m)
  <2>1. PICK m \in Mutations : Complete(m)
    BY <1>5
  <2>2. /\ answered' = answered \cup {m} /\ UNCHANGED <<performed, sentAtOnce>>
        /\ Answered(m)
    BY <2>1 DEF Complete, Answered
  <2>3. CASE path[m] = "memory" /\ UNCHANGED records
    BY <2>2, <2>3 DEF KeptUntilAnswered
  <2>4. CASE path[m] = "queued" /\ RemoveFirstRecord
    <3>1. /\ m = Head(disk) /\ disk # <<>> /\ disk' = Tail(disk)
      BY <2>2, <2>4, QueuedAnswer
    <3>2. ToSet(disk') = ToSet(disk) \ {m}
      BY <1>0, <3>1, TailElements DEF Records, TypeOK
    <3>. QED BY <2>2, <3>2 DEF KeptUntilAnswered
  <2>. QED BY <2>1, <2>3, <2>4 DEF Complete
<1>6. CASE ChangeLink \/ Notice \/ Observe \/ HandleNotice \/ Restart
  BY <1>1, <1>6 DEF ChangeLink, Notice, Observe, HandleNotice, Restart
<1>7. CASE ExecutePersistent \/ WaitOver \/ DrainOver
  BY <1>1, <1>7 DEF ExecutePersistent, PersistentNext, WaitOver, DrainOver
<1>8. CASE \E m \in Mutations : Execute(m) \/ Retry(m)
  BY <1>1, <1>8 DEF Execute, Retry
<1>9. CASE UNCHANGED vars
  BY <1>1, <1>9 DEF vars
<1>. QED
  BY <1>2, <1>3, <1>4, <1>5, <1>6, <1>7, <1>8, <1>9 DEF Next, Drain

(* Whatever the network does and however often the app is killed, a        *)
(* mutation leaves the table only when it has been answered, or because    *)
(* its operation has sent it from memory.                                  *)
THEOREM NothingForgotten == Spec => []KeptUntilAnswered
<1>1. Init => KeptUntilAnswered
  BY DEF Init, KeptUntilAnswered, ToSet
<1>2. IInv /\ KeptUntilAnswered /\ [Next]_vars => KeptUntilAnswered'
  BY KeptStep
<1>. QED BY <1>1, <1>2, Invariant, PTL DEF Spec

-----------------------------------------------------------------------------
(* The queue is not overtaken.  The table, which a restart turns back into *)
(* the queue, is what the order has to be stated over.                     *)

Order ==
  /\ IsInjective(performed)
  /\ ToSet(server) \subseteq ToSet(performed)
  /\ \A a, b \in DOMAIN disk : \A i, j \in DOMAIN performed :
       a < b /\ performed[i] = disk[a] /\ performed[j] = disk[b] => i < j
  /\ \A i, j \in DOMAIN performed :
       i < j /\ performed[i] \in ToSet(disk)
       => request[performed[j]] = "none" /\ performed[j] \notin ToSet(server)

(* Nothing performed before the first record of the table is still in it.  *)
LEMMA FirstIsEarliest ==
  ASSUME IInv, Order, disk # <<>>, NEW i \in DOMAIN performed, NEW j \in DOMAIN performed,
         performed[j] = Head(disk), i < j
  PROVE  performed[i] \notin ToSet(disk)
<1>1. disk \in Seq(Mutations) /\ performed \in Seq(Mutations)
  BY DEF IInv, TypeOK
<1>2. SUFFICES ASSUME NEW b \in DOMAIN disk, performed[i] = disk[b] PROVE FALSE
  BY DEF ToSet
<1>3. 1 \in DOMAIN disk /\ Head(disk) = disk[1] /\ b \in Nat /\ b >= 1
  BY <1>1
<1>4. i \in Int /\ j \in Int
  BY <1>1
<1>5. CASE b = 1
  <2>1. i = j
    BY <1>2, <1>3, <1>5 DEF Order, IsInjective
  <2>. QED BY <2>1, <1>4
<1>6. CASE b > 1
  <2>1. j < i
    BY <1>2, <1>3, <1>6 DEF Order
  <2>. QED BY <2>1, <1>4
<1>. QED BY <1>3, <1>5, <1>6

LEMMA OrderSent ==
  ASSUME IInv, Order, NEW m \in Mutations, NEW how, NEW n, Send(m, how, n),
         disk # <<>>, m = Head(disk), UNCHANGED <<disk, performed, server>>
  PROVE  Order'
<1>1. request' = [request EXCEPT ![m] = "sent"] /\ request \in [Mutations -> {"none", "sent", "executed"}]
  BY DEF Send, IInv, TypeOK
<1>2. ASSUME NEW i \in DOMAIN performed, NEW j \in DOMAIN performed,
             i < j, performed[i] \in ToSet(disk)
      PROVE  request'[performed[j]] = "none"
  <2>1. performed[j] # m
    BY <1>2, FirstIsEarliest
  <2>2. request[performed[j]] = "none" /\ performed[j] \in Mutations
    BY <1>2 DEF Order, IInv, TypeOK
  <2>. QED BY <1>1, <2>1, <2>2
<1>. QED BY <1>2 DEF Order

LEMMA OrderShortened ==
  ASSUME IInv, Order, disk # <<>>, disk' = Tail(disk), UNCHANGED <<performed, server>>,
         \A m \in Mutations : request'[m] \in {"none", request[m]}
  PROVE  Order'
<1>1. disk \in Seq(Mutations) /\ performed \in Seq(Mutations) /\ IsInjective(disk)
  BY DEF IInv, TypeOK, Records
<1>2. ToSet(disk') \subseteq ToSet(disk)
  BY <1>1, TailElements
<1>3. \A a \in DOMAIN disk' : a + 1 \in DOMAIN disk /\ disk'[a] = disk[a + 1]
  BY <1>1, HeadTailProperties
<1>4. ASSUME NEW a \in DOMAIN disk', NEW b \in DOMAIN disk',
             NEW i \in DOMAIN performed, NEW j \in DOMAIN performed,
             a < b, performed[i] = disk'[a], performed[j] = disk'[b]
      PROVE  i < j
  <2>1. a \in Int /\ b \in Int
    BY <1>1, HeadTailProperties
  <2>. QED BY <1>3, <1>4, <2>1 DEF Order
<1>5. ASSUME NEW i \in DOMAIN performed, NEW j \in DOMAIN performed,
             i < j, performed[i] \in ToSet(disk')
      PROVE  request'[performed[j]] = "none" /\ performed[j] \notin ToSet(server)
  <2>1. performed[j] \in Mutations
    BY <1>1
  <2>. QED BY <1>2, <1>5, <2>1 DEF Order
<1>. QED BY <1>4, <1>5 DEF Order

LEMMA OrderQueued ==
  ASSUME IInv, Order, NEW m \in Mutations, QueueMutation(m)
  PROVE  Order'
<1>. DEFINE n == Len(performed) + 1
            k == Len(disk) + 1
<1>1. /\ disk \in Seq(Mutations) /\ performed \in Seq(Mutations)
      /\ disk' = Append(disk, m) /\ performed' = Append(performed, m)
      /\ m \notin ToSet(performed) /\ UNCHANGED <<request, server>>
  BY DEF IInv, TypeOK, QueueMutation, traffic
<1>2. /\ DOMAIN performed' = DOMAIN performed \cup {n} /\ performed'[n] = m
      /\ \A i \in DOMAIN performed : i < n /\ i \in Int /\ performed'[i] = performed[i]
                                   /\ performed[i] # m
      /\ n \in Int
  BY <1>1 DEF ToSet
<1>3. /\ DOMAIN disk' = DOMAIN disk \cup {k} /\ disk'[k] = m
      /\ \A a \in DOMAIN disk : a < k /\ a \in Int /\ disk'[a] = disk[a] /\ disk[a] # m
      /\ k \in Int
  <2>1. m \notin ToSet(disk)
    BY <1>1 DEF IInv, Records
  <2>. QED BY <1>1, <2>1 DEF ToSet
<1>. HIDE DEF n, k
<1>4. IsInjective(performed')
  BY <1>1, AppendElements DEF Order
<1>5. ToSet(server') \subseteq ToSet(performed')
  BY <1>1, AppendElements DEF Order
<1>6. ASSUME NEW a \in DOMAIN disk', NEW b \in DOMAIN disk',
             NEW i \in DOMAIN performed', NEW j \in DOMAIN performed',
             a < b, performed'[i] = disk'[a], performed'[j] = disk'[b]
      PROVE  i < j
  <2>1. a \in DOMAIN disk
    BY <1>3, <1>6
  <2>2. i \in DOMAIN performed /\ performed[i] = disk[a]
    BY <1>2, <1>3, <1>6, <2>1
  <2>3. CASE b = k
    BY <1>2, <1>3, <1>6, <2>2, <2>3
  <2>4. CASE b \in DOMAIN disk
    <3>1. j \in DOMAIN performed /\ performed[j] = disk[b]
      BY <1>2, <1>3, <1>6, <2>4
    <3>. QED BY <1>6, <2>1, <2>2, <2>4, <3>1 DEF Order
  <2>. QED BY <1>3, <2>3, <2>4
<1>7. ASSUME NEW i \in DOMAIN performed', NEW j \in DOMAIN performed',
             i < j, performed'[i] \in ToSet(disk')
      PROVE  request'[performed'[j]] = "none" /\ performed'[j] \notin ToSet(server')
  <2>1. i \in DOMAIN performed
    BY <1>2, <1>7
  <2>2. performed[i] \in ToSet(disk)
    <3>1. ToSet(disk') = ToSet(disk) \cup {m}
      BY <1>1, AppendElements
    <3>. QED BY <1>2, <1>7, <2>1, <3>1
  <2>3. CASE j \in DOMAIN performed
    BY <1>1, <1>2, <1>7, <2>1, <2>2, <2>3 DEF Order
  <2>4. CASE j = n
    <3>1. m \notin InFlight /\ m \notin ToSet(server)
      BY <1>1 DEF IInv, Traffic, Order
    <3>. QED BY <1>1, <1>2, <2>4, <3>1 DEF InFlight
  <2>. QED BY <1>2, <2>3, <2>4
<1>. QED BY <1>4, <1>5, <1>6, <1>7 DEF Order

LEMMA OrderStep ==
  ASSUME IInv, Order, [Next]_vars
  PROVE  Order'
<1>. USE DEF network, records, thread, traffic, history
<1>0. TypeOK /\ Records /\ Traffic
  BY DEF IInv
<1>1. CASE UNCHANGED <<disk, performed, server, request>>
  BY <1>1 DEF Order
<1>2. CASE ChangeLink \/ Notice \/ Observe \/ HandleNotice
  BY <1>1, <1>2 DEF ChangeLink, Notice, Observe, HandleNotice
<1>3. CASE WaitOver \/ DrainOver \/ UNCHANGED vars
  BY <1>1, <1>3 DEF WaitOver, DrainOver, vars
<1>4. CASE Restart
  <2>1. /\ UNCHANGED <<disk, performed, server>>
        /\ \A j \in DOMAIN performed : request'[performed[j]] = "none"
    BY <1>0, <1>4 DEF Restart, TypeOK
  <2>. QED BY <2>1 DEF Order
<1>5. CASE Submit
  <2>1. /\ disk = <<current>> /\ current \in Mutations /\ Send(current, "memory", 1)
        /\ UNCHANGED <<disk, performed, server>>
    BY <1>0, <1>5 DEF Submit, SendFromMemory, Records, DiskMirrorsQueue
  <2>2. disk # <<>> /\ Head(disk) = current
    BY <2>1
  <2>. QED BY <2>1, <2>2, OrderSent
<1>6. CASE ExecuteInMemory
  <2>1. /\ disk # <<>> /\ Send(Head(disk), "memory", 2)
        /\ UNCHANGED <<disk, performed, server>>
    BY <1>0, <1>6 DEF ExecuteInMemory, SendFromMemory, Records, DiskMirrorsQueue
  <2>2. Head(disk) \in Mutations
    BY <1>0, <2>1, HeadTailProperties DEF TypeOK
  <2>. QED BY <2>1, <2>2, OrderSent
<1>7. CASE ExecutePersistent
  <2>1. /\ disk # <<>> /\ Send(Head(disk), "queued", 1)
        /\ UNCHANGED <<disk, performed, server>>
    BY <1>0, <1>7 DEF ExecutePersistent, PersistentNext, Records, DiskMirrorsQueue
  <2>2. Head(disk) \in Mutations
    BY <1>0, <2>1, HeadTailProperties DEF TypeOK
  <2>. QED BY <2>1, <2>2, OrderSent
<1>8. CASE DeleteSent
  <2>1. disk # <<>> /\ disk' = Tail(disk) /\ UNCHANGED <<performed, server, request>>
    BY <1>8, SentDeletion DEF DeleteSent
  <2>. QED BY <2>1, OrderShortened
<1>9. CASE \E m \in Mutations : QueueMutation(m)
  BY <1>9, OrderQueued
<1>10. CASE \E m \in Mutations : Execute(m)
  <2>1. PICK m \in Mutations : Execute(m)
    BY <1>10
  <2>2. /\ m \in InFlight /\ server' = Append(server, m) /\ UNCHANGED <<disk, performed>>
        /\ request' = [request EXCEPT ![m] = "executed"]
    BY <2>1 DEF Execute, InFlight
  <2>3. ToSet(server') = ToSet(server) \cup {m}
    BY <1>0, <2>2, AppendElements DEF TypeOK
  <2>4. ASSUME NEW i \in DOMAIN performed, NEW j \in DOMAIN performed,
               i < j, performed[i] \in ToSet(disk)
        PROVE  performed[j] # m /\ performed[j] \in Mutations
    BY <1>0, <2>2, <2>4 DEF Order, InFlight, TypeOK
  <2>5. m \in ToSet(performed)
    BY <1>0, <2>2 DEF Traffic
  <2>6. ASSUME NEW i \in DOMAIN performed, NEW j \in DOMAIN performed,
               i < j, performed[i] \in ToSet(disk)
        PROVE  request'[performed[j]] = "none" /\ performed[j] \notin ToSet(server')
    BY <1>0, <2>2, <2>3, <2>4, <2>6 DEF Order, TypeOK
  <2>. QED BY <2>2, <2>3, <2>5, <2>6 DEF Order
<1>11. CASE \E m \in Mutations : Retry(m)
  <2>1. PICK m \in Mutations : Retry(m)
    BY <1>11
  <2>2. /\ m \in InFlight /\ UNCHANGED <<disk, performed, server>>
        /\ request' = [request EXCEPT ![m] = "sent"]
    BY <2>1 DEF Retry, InFlight
  <2>3. ASSUME NEW i \in DOMAIN performed, NEW j \in DOMAIN performed,
               i < j, performed[i] \in ToSet(disk)
        PROVE  request'[performed[j]] = "none"
    BY <1>0, <2>2, <2>3 DEF Order, InFlight, TypeOK
  <2>. QED BY <2>2, <2>3 DEF Order
<1>12. CASE \E m \in Mutations : Complete(m)
  <2>1. PICK m \in Mutations : Complete(m)
    BY <1>12
  <2>2. /\ \A k \in Mutations : request'[k] \in {"none", request[k]}
        /\ UNCHANGED <<performed, server>> /\ Answered(m)
    BY <1>0, <2>1 DEF Complete, Answered, TypeOK
  <2>3. CASE path[m] = "memory" /\ UNCHANGED records
    <3>1. \A j \in DOMAIN performed : performed[j] \in Mutations
      BY <1>0 DEF TypeOK
    <3>. QED BY <2>2, <2>3, <3>1 DEF Order
  <2>4. CASE path[m] = "queued" /\ RemoveFirstRecord
    <3>1. disk # <<>> /\ disk' = Tail(disk)
      BY <2>2, <2>4, QueuedAnswer
    <3>. QED BY <2>2, <3>1, OrderShortened
  <2>. QED BY <2>1, <2>3, <2>4 DEF Complete
<1>. QED
  BY <1>2, <1>3, <1>4, <1>5, <1>6, <1>7, <1>8, <1>9, <1>10, <1>11, <1>12 DEF Next, Drain

(* While a mutation waits in the queue, the backend has seen nothing of    *)
(* what was performed after it: not through the network, and not through   *)
(* a crash and a reload of the table.                                      *)
THEOREM QueueIsNotOvertaken == Spec => []NoOvertaking
<1>1. Init => Order
  BY DEF Init, Order, IsInjective, ToSet
<1>2. IInv /\ Order /\ [Next]_vars => Order'
  BY OrderStep
<1>3. IInv /\ Order => NoOvertaking
  <2>. SUFFICES ASSUME IInv, Order PROVE NoOvertaking
    OBVIOUS
  <2>1. ToSet(mutationQueue) \subseteq ToSet(disk)
    <3>1. CASE main \in {"submitted", "executed"}
      <4>1. /\ disk = <<current>> \o mutationQueue /\ current \in Mutations
            /\ mutationQueue \in Seq(Mutations) /\ IsInjective(disk)
        BY <3>1 DEF IInv, Records, DiskMirrorsQueue, TypeOK
      <4>2. disk # <<>> /\ disk \in Seq(Mutations) /\ Tail(disk) = mutationQueue
        BY <4>1, ConsElements
      <4>. QED BY <4>1, <4>2, TailElements
    <3>2. CASE main \notin {"submitted", "executed"}
      BY <3>2 DEF IInv, Records, DiskMirrorsQueue
    <3>. QED BY <3>1, <3>2
  <2>. QED BY <2>1 DEF Order, NoOvertaking
<1>. QED BY <1>1, <1>2, <1>3, Invariant, PTL DEF Spec

-----------------------------------------------------------------------------
(* If no caller keeps an operation, the group counts exactly the requests. *)

LEMMA NotYetSent ==
  ASSUME IInv, main # "waiting", mutationQueue # <<>>
  PROVE  Head(mutationQueue) \notin InFlight /\ Head(mutationQueue) \in Mutations
<1>1. /\ mutationQueue \in Seq(Mutations) /\ Head(mutationQueue) = mutationQueue[1]
      /\ 1 \in DOMAIN mutationQueue
  BY DEF IInv, TypeOK
<1>2. Head(mutationQueue) \in ToSet(mutationQueue) /\ Head(mutationQueue) \in Mutations
  BY <1>1 DEF ToSet
<1>. QED BY <1>2 DEF IInv, Traffic

LEMMA GroupSent ==
  ASSUME IInv, GroupCountsRequests, NEW m \in Mutations, m \notin InFlight,
         NEW how, Send(m, how, 1)
  PROVE  GroupCountsRequests'
<1>1. InFlight' = InFlight \cup {m} /\ group' = group + 1
  BY DEF Send, InFlight, IInv, TypeOK
<1>2. Cardinality(InFlight \cup {m}) = Cardinality(InFlight) + 1
  BY FinitelyInFlight, FS_AddElement, Zenon
<1>. QED BY <1>1, <1>2, FinitelyInFlight DEF GroupCountsRequests

LEMMA GroupStep ==
  ASSUME Held = {}, IInv, GroupCountsRequests, [Next]_vars
  PROVE  GroupCountsRequests'
<1>. USE DEF network, records, thread, traffic, history
<1>0. TypeOK /\ Records
  BY DEF IInv
<1>1. CASE UNCHANGED <<group, request>>
  BY <1>1 DEF GroupCountsRequests, InFlight
<1>2. CASE Submit
  <2>1. /\ main # "waiting" /\ mutationQueue # <<>> /\ Head(mutationQueue) = current
        /\ Send(current, "memory", 1)
    BY <1>0, <1>2 DEF Submit, SendFromMemory, Records
  <2>. QED BY <2>1, NotYetSent, GroupSent
<1>3. CASE ExecutePersistent
  <2>1. /\ main # "waiting" /\ mutationQueue # <<>>
        /\ Send(Head(mutationQueue), "queued", 1)
    BY <1>3 DEF ExecutePersistent, PersistentNext
  <2>. QED BY <2>1, NotYetSent, GroupSent
<1>4. CASE \E m \in Mutations : Complete(m)
  <2>1. PICK m \in Mutations : Complete(m)
    BY <1>4
  <2>2. m \in InFlight /\ InFlight' = InFlight \ {m} /\ group' = group - 1
    BY <1>0, <2>1 DEF Complete, Answered, InFlight, TypeOK
  <2>3. Cardinality(InFlight') = Cardinality(InFlight) - 1
    BY <2>2, FinitelyInFlight, FS_RemoveElement
  <2>. QED BY <2>2, <2>3, FinitelyInFlight DEF GroupCountsRequests
<1>5. CASE \E m \in Mutations : Execute(m) \/ Retry(m)
  <2>1. InFlight' = InFlight /\ group' = group
    BY <1>0, <1>5 DEF Execute, Retry, InFlight, TypeOK
  <2>. QED BY <2>1 DEF GroupCountsRequests
<1>6. CASE Restart
  <2>1. InFlight' = {} /\ group' = 0
    BY <1>6 DEF Restart, InFlight
  <2>. QED BY <2>1, FS_EmptySet DEF GroupCountsRequests
<1>7. CASE ExecuteInMemory
  BY <1>7 DEF ExecuteInMemory
<1>8. CASE ChangeLink \/ Notice \/ Observe \/ HandleNotice \/ UNCHANGED vars
  BY <1>1, <1>8 DEF ChangeLink, Notice, Observe, HandleNotice, vars
<1>9. CASE DeleteSent \/ WaitOver \/ DrainOver
  BY <1>1, <1>9 DEF DeleteSent, WaitOver, DrainOver
<1>10. CASE \E m \in Mutations : QueueMutation(m)
  BY <1>1, <1>10 DEF QueueMutation
<1>. QED
  BY <1>2, <1>3, <1>4, <1>5, <1>6, <1>7, <1>8, <1>9, <1>10 DEF Next, Drain

(* In the app, where nobody keeps the operation perform returns, the main  *)
(* thread waits in dispatchGroup.wait() only while a request is on its way.*)
THEOREM GroupIsExact ==
  ASSUME Held = {}
  PROVE  Spec => []GroupCountsRequests
<1>1. Init => GroupCountsRequests
  <2>1. Init => InFlight = {} /\ group = 0
    BY DEF Init, InFlight
  <2>. QED BY <2>1, FS_EmptySet DEF GroupCountsRequests
<1>2. IInv /\ GroupCountsRequests /\ [Next]_vars => GroupCountsRequests'
  BY GroupStep
<1>. QED BY <1>1, <1>2, Invariant, PTL DEF Spec

-----------------------------------------------------------------------------
(* The backend executes a mutation a bounded number of times.  What the    *)
(* count has to be stated with is whether the mutation can still reach the *)
(* backend without another retry or crash.                                 *)

Due(m) ==
  \/ request[m] = "sent"
  \/ request[m] = "none" /\ (m \in ToSet(mutationQueue) \/ m \notin ToSet(performed))

Budget ==
  \A m \in Mutations :
    Executions(m) + (IF Due(m) THEN 1 ELSE 0) =< 1 + retries[m] + crashes

LEMMA ExecutionsCounted ==
  ASSUME TypeOK, NEW m \in Mutations
  PROVE  IsFiniteSet({i \in DOMAIN server : server[i] = m}) /\ Executions(m) \in Nat
<1>1. IsFiniteSet(1..Len(server))
  BY FS_Interval DEF TypeOK
<1>2. {i \in DOMAIN server : server[i] = m} \in SUBSET (1..Len(server))
  BY DEF TypeOK
<1>. QED BY <1>1, <1>2, FS_Subset, FS_CardinalityType DEF Executions

LEMMA ExecutionCounted ==
  ASSUME TypeOK, NEW m \in Mutations, NEW k \in Mutations, server' = Append(server, m)
  PROVE  Executions(k)' = IF k = m THEN Executions(k) + 1 ELSE Executions(k)
<1>. DEFINE n == Len(server) + 1
            old == {i \in DOMAIN server : server[i] = k}
            new == {i \in DOMAIN server' : server'[i] = k}
<1>1. /\ DOMAIN server' = DOMAIN server \cup {n} /\ n \notin DOMAIN server
      /\ server'[n] = m /\ \A i \in DOMAIN server : server'[i] = server[i]
  BY DEF TypeOK
<1>2. IsFiniteSet(old) /\ n \notin old
  BY <1>1, ExecutionsCounted
<1>. HIDE DEF n
<1>3. CASE k = m
  <2>1. new = old \cup {n}
    BY <1>1, <1>3
  <2>2. Cardinality(old \cup {n}) = Cardinality(old) + 1
    <3>. HIDE DEF old
    <3>. QED BY <1>2, FS_AddElement, Zenon
  <2>. QED BY <1>3, <2>1, <2>2 DEF Executions
<1>4. CASE k # m
  <2>1. new = old
    BY <1>1, <1>4
  <2>. QED BY <1>4, <2>1 DEF Executions
<1>. QED BY <1>3, <1>4

LEMMA BudgetOf ==
  ASSUME TypeOK, Budget, NEW m \in Mutations
  PROVE  /\ Executions(m) + (IF Due(m) THEN 1 ELSE 0) =< 1 + retries[m] + crashes
         /\ Executions(m) \in Nat /\ retries[m] \in Nat /\ crashes \in Nat
<1>1. Executions(m) + (IF Due(m) THEN 1 ELSE 0) =< 1 + retries[m] + crashes
  BY Zenon DEF Budget
<1>2. Executions(m) \in Nat
  BY ExecutionsCounted
<1>3. retries[m] \in Nat /\ crashes \in Nat
  BY BoundAssumption DEF TypeOK
<1>. QED BY <1>1, <1>2, <1>3

LEMMA BudgetKept ==
  ASSUME TypeOK, Budget, UNCHANGED <<server, retries, crashes>>,
         \A m \in Mutations : Due(m)' => Due(m)
  PROVE  Budget'
<1>. SUFFICES ASSUME NEW m \in Mutations
              PROVE  Executions(m)' + (IF Due(m)' THEN 1 ELSE 0) =< 1 + retries'[m] + crashes'
  BY DEF Budget
<1>1. Executions(m)' = Executions(m) /\ (Due(m)' => Due(m))
  BY DEF Executions
<1>2. /\ Executions(m) + (IF Due(m) THEN 1 ELSE 0) =< 1 + retries[m] + crashes
      /\ Executions(m) \in Nat /\ retries[m] \in Nat /\ crashes \in Nat
  BY BudgetOf
<1>. HIDE DEF Due
<1>. QED BY <1>1, <1>2

LEMMA BudgetSent ==
  ASSUME IInv, Budget, NEW m \in Mutations, NEW how, NEW n, Send(m, how, n),
         main # "waiting", mutationQueue # <<>>, m = Head(mutationQueue),
         UNCHANGED <<performed, server, crashes>>,
         ToSet(mutationQueue') \subseteq ToSet(mutationQueue)
  PROVE  Budget'
<1>1. TypeOK /\ UNCHANGED retries /\ request' = [request EXCEPT ![m] = "sent"]
  BY DEF IInv, Send
<1>2. request[m] = "none" /\ m \in ToSet(mutationQueue)
  <2>1. 1 \in DOMAIN mutationQueue /\ m = mutationQueue[1]
    BY <1>1 DEF TypeOK
  <2>. QED BY <2>1, NotYetSent DEF InFlight, ToSet
<1>3. ASSUME NEW k \in Mutations, Due(k)' PROVE Due(k)
  BY <1>1, <1>2, <1>3 DEF Due, TypeOK
<1>. QED BY <1>1, <1>3, BudgetKept

LEMMA BudgetStep ==
  ASSUME IInv, Budget, [Next]_vars
  PROVE  Budget'
<1>. USE DEF network, records, thread, traffic, history
<1>0. TypeOK /\ Records /\ Traffic
  BY DEF IInv
<1>1. CASE UNCHANGED <<server, retries, crashes, request, mutationQueue, performed>>
  BY <1>0, <1>1, BudgetKept DEF Due
<1>2. CASE ChangeLink \/ Notice \/ Observe \/ HandleNotice \/ UNCHANGED vars
  BY <1>1, <1>2 DEF ChangeLink, Notice, Observe, HandleNotice, vars
<1>3. CASE DeleteSent \/ WaitOver \/ DrainOver
  BY <1>1, <1>3 DEF DeleteSent, WaitOver, DrainOver
<1>4. CASE Submit
  <2>1. /\ main # "waiting" /\ mutationQueue = <<current>> /\ current \in Mutations
        /\ Send(current, "memory", 1) /\ mutationQueue' = Tail(mutationQueue)
        /\ UNCHANGED <<performed, server, crashes>>
    BY <1>0, <1>4 DEF Submit, SendFromMemory, Records
  <2>2. ToSet(mutationQueue') \subseteq ToSet(mutationQueue)
    BY <2>1 DEF ToSet
  <2>3. mutationQueue # <<>> /\ current = Head(mutationQueue)
    BY <2>1
  <2>. QED BY <2>1, <2>2, <2>3, BudgetSent
<1>5. CASE ExecuteInMemory
  <2>1. /\ main = "draining" /\ mutationQueue # <<>>
        /\ Send(Head(mutationQueue), "memory", 2) /\ mutationQueue' = Tail(mutationQueue)
        /\ UNCHANGED <<performed, server, crashes>>
    BY <1>5 DEF ExecuteInMemory, SendFromMemory
  <2>2. mutationQueue \in Seq(Mutations) /\ IsInjective(mutationQueue)
    BY <1>0, <2>1 DEF TypeOK, Records, DiskMirrorsQueue
  <2>3. ToSet(mutationQueue') \subseteq ToSet(mutationQueue)
    BY <2>1, <2>2, TailElements
  <2>. QED BY <2>1, <2>3, NotYetSent, BudgetSent
<1>6. CASE ExecutePersistent
  <2>1. /\ main # "waiting" /\ mutationQueue # <<>>
        /\ Send(Head(mutationQueue), "queued", 1)
        /\ UNCHANGED <<mutationQueue, performed, server, crashes>>
    BY <1>6 DEF ExecutePersistent, PersistentNext
  <2>. QED BY <2>1, NotYetSent, BudgetSent
<1>7. CASE \E m \in Mutations : QueueMutation(m)
  <2>1. PICK m \in Mutations : QueueMutation(m)
    BY <1>7
  <2>2. /\ mutationQueue' = Append(mutationQueue, m) /\ performed' = Append(performed, m)
        /\ m \notin ToSet(performed) /\ UNCHANGED <<server, retries, crashes, request>>
    BY <2>1 DEF QueueMutation
  <2>3. /\ ToSet(mutationQueue') = ToSet(mutationQueue) \cup {m}
        /\ ToSet(performed') = ToSet(performed) \cup {m}
    BY <1>0, <2>2, AppendElements DEF TypeOK
  <2>4. request[m] = "none"
    BY <1>0, <2>2 DEF Traffic, InFlight
  <2>5. ASSUME NEW k \in Mutations, Due(k)' PROVE Due(k)
    BY <2>2, <2>3, <2>4, <2>5 DEF Due
  <2>. QED BY <1>0, <2>2, <2>5, BudgetKept
<1>8. CASE \E m \in Mutations : Execute(m)
  <2>1. PICK m \in Mutations : Execute(m)
    BY <1>8
  <2>2. /\ request[m] = "sent" /\ request' = [request EXCEPT ![m] = "executed"]
        /\ server' = Append(server, m)
        /\ UNCHANGED <<retries, crashes, mutationQueue, performed>>
    BY <2>1 DEF Execute
  <2>. SUFFICES ASSUME NEW k \in Mutations
                PROVE  Executions(k)' + (IF Due(k)' THEN 1 ELSE 0) =< 1 + retries[k] + crashes
    BY <2>2 DEF Budget
  <2>3. Executions(k)' = IF k = m THEN Executions(k) + 1 ELSE Executions(k)
    BY <1>0, <2>2, ExecutionCounted
  <2>4. /\ k = m => Due(k) /\ ~Due(k)'
        /\ k # m => (Due(k)' <=> Due(k))
    BY <1>0, <2>2 DEF Due, TypeOK
  <2>5. /\ Executions(k) + (IF Due(k) THEN 1 ELSE 0) =< 1 + retries[k] + crashes
        /\ Executions(k) \in Nat /\ retries[k] \in Nat /\ crashes \in Nat
    BY <1>0, BudgetOf
  <2>. HIDE DEF Due
  <2>6. CASE k = m
    BY <2>3, <2>4, <2>5, <2>6
  <2>7. CASE k # m
    BY <2>3, <2>4, <2>5, <2>7
  <2>. QED BY <2>6, <2>7
<1>9. CASE \E m \in Mutations : Retry(m)
  <2>1. PICK m \in Mutations : Retry(m)
    BY <1>9
  <2>2. /\ request' = [request EXCEPT ![m] = "sent"] /\ retries' = [retries EXCEPT ![m] = @ + 1]
        /\ UNCHANGED <<server, crashes, mutationQueue, performed>>
    BY <2>1 DEF Retry
  <2>. SUFFICES ASSUME NEW k \in Mutations
                PROVE  Executions(k)' + (IF Due(k)' THEN 1 ELSE 0) =< 1 + retries'[k] + crashes
    BY <2>2 DEF Budget
  <2>3. Executions(k)' = Executions(k)
    BY <2>2 DEF Executions
  <2>4. k # m => (Due(k)' <=> Due(k))
    BY <1>0, <2>2 DEF Due, TypeOK
  <2>5. /\ Executions(k) + (IF Due(k) THEN 1 ELSE 0) =< 1 + retries[k] + crashes
        /\ Executions(k) \in Nat /\ retries[k] \in Nat /\ crashes \in Nat
    BY <1>0, BudgetOf
  <2>6. retries'[k] = IF k = m THEN retries[k] + 1 ELSE retries[k]
    BY <1>0, <2>2 DEF TypeOK
  <2>. HIDE DEF Due
  <2>. QED BY <2>3, <2>4, <2>5, <2>6
<1>10. CASE \E m \in Mutations : Complete(m)
  <2>1. PICK m \in Mutations : Complete(m)
    BY <1>10
  <2>2. /\ m \in InFlight /\ request' = [request EXCEPT ![m] = "none"] /\ Answered(m)
        /\ UNCHANGED <<server, retries, crashes, performed>>
    BY <2>1 DEF Complete, Answered, InFlight
  <2>3. /\ ToSet(mutationQueue') \subseteq ToSet(mutationQueue)
        /\ m \notin ToSet(mutationQueue')
    <3>1. CASE path[m] = "memory" /\ UNCHANGED records
      BY <1>0, <2>2, <3>1 DEF Traffic
    <3>2. CASE path[m] = "queued" /\ RemoveFirstRecord
      <4>1. /\ mutationQueue # <<>> /\ m = Head(mutationQueue)
            /\ mutationQueue' = Tail(mutationQueue) /\ mutationQueue = disk
        BY <2>2, <3>2, QueuedAnswer
      <4>. QED BY <1>0, <4>1, TailElements DEF TypeOK, Records
    <3>. QED BY <2>1, <3>1, <3>2 DEF Complete
  <2>4. m \in ToSet(performed)
    BY <1>0, <2>2 DEF Traffic
  <2>5. ASSUME NEW k \in Mutations, Due(k)' PROVE Due(k)
    BY <1>0, <2>2, <2>3, <2>4, <2>5 DEF Due, TypeOK
  <2>. QED BY <1>0, <2>2, <2>5, BudgetKept
<1>11. CASE Restart
  <2>1. UNCHANGED <<server, retries>> /\ crashes' = crashes + 1
    BY <1>11 DEF Restart
  <2>. SUFFICES ASSUME NEW k \in Mutations
                PROVE  Executions(k)' + (IF Due(k)' THEN 1 ELSE 0) =< 1 + retries'[k] + crashes'
    BY DEF Budget
  <2>2. /\ Executions(k) + (IF Due(k) THEN 1 ELSE 0) =< 1 + retries[k] + crashes
        /\ Executions(k) \in Nat /\ retries[k] \in Nat /\ crashes \in Nat
    BY <1>0, BudgetOf
  <2>3. Executions(k)' = Executions(k)
    BY <2>1 DEF Executions
  <2>. HIDE DEF Due
  <2>. QED BY <2>1, <2>2, <2>3
<1>. QED
  BY <1>2, <1>3, <1>4, <1>5, <1>6, <1>7, <1>8, <1>9, <1>10, <1>11 DEF Next, Drain

(* The backend executes a mutation once, and beyond that at most once for  *)
(* each time the interceptor retried it and once for each crash, after     *)
(* which its record may be found in the table again.                       *)
THEOREM DuplicatesAreBounded == Spec => []BoundedDuplicates
<1>1. Init => Budget
  <2>. SUFFICES ASSUME Init, NEW m \in Mutations
                PROVE  Executions(m) + (IF Due(m) THEN 1 ELSE 0) =< 1 + retries[m] + crashes
    BY DEF Budget
  <2>1. {i \in DOMAIN server : server[i] = m} = {} /\ retries[m] = 0 /\ crashes = 0
    BY DEF Init
  <2>2. Executions(m) = 0
    BY <2>1, FS_EmptySet DEF Executions
  <2>. HIDE DEF Due
  <2>. QED BY <2>1, <2>2
<1>2. IInv /\ Budget /\ [Next]_vars => Budget'
  BY BudgetStep
<1>3. IInv /\ Budget => BoundedDuplicates
  <2>. SUFFICES ASSUME IInv, Budget, NEW m \in Mutations
                PROVE  Executions(m) =< 1 + retries[m] + crashes
    BY DEF BoundedDuplicates
  <2>1. /\ Executions(m) + (IF Due(m) THEN 1 ELSE 0) =< 1 + retries[m] + crashes
        /\ Executions(m) \in Nat /\ retries[m] \in Nat /\ crashes \in Nat
    BY BudgetOf DEF IInv
  <2>. HIDE DEF Due
  <2>. QED BY <2>1
<1>. QED BY <1>1, <1>2, <1>3, Invariant, PTL DEF Spec
=============================================================================
