---------------------- MODULE SubscriptionSync_proofs ----------------------
(***************************************************************************)
(* The messages queue of SubscriptionSync, for any number of changes, lost *)
(* connections, cancellations and restarts: every message appended is      *)
(* delivered once and in order (InOrderOnce), and none is handed out while *)
(* a query is on its way (HeldBack).                                       *)
(***************************************************************************)
EXTENDS SubscriptionSync, SequenceTheorems, TLAPS

IsSeq(q) == \E S : q \in Seq(S)
Changes(q) == [n \in DOMAIN q |-> q[n].change]
Held(q) == {n \in DOMAIN q : q[n].kind = "held"}

(* Every message is where it ought to be.                                  *)
QueueSeqs == IsSeq(appended) /\ IsSeq(delivered) /\ IsSeq(deliveries) /\ IsSeq(messages)
InOrder == appended = delivered \o Changes(deliveries) \o Changes(messages)
QueueInv == QueueSeqs /\ InOrder

(* The kinds of the blocks in the queues.                                  *)
StoreKinds == {"message", "unheard", "show", "publish", "held"}
HandlerKinds == {"message", "show", "base", "rejected"}
Kinds(q, K) == \A n \in DOMAIN q : q[n].kind \in K

(* A delivery that waits for the store is the first one.                   *)
OneHeld ==
  /\ \A n, m \in Held(storeQueue) : n = m
  /\ Held(storeQueue) # {} => deliveries # <<>>

(* Delivery is off from the beginning of a sync to its end.                *)
Stopped == pc # "idle" => ~isDelivering

Blocks ==
  /\ IsSeq(storeQueue) /\ Kinds(storeQueue, StoreKinds)
  /\ IsSeq(handlerQueue) /\ Kinds(handlerQueue, HandlerKinds)

IInv == QueueInv /\ Blocks /\ OneHeld /\ Stopped

-----------------------------------------------------------------------------
(* Sequences.                                                              *)

LEMMA SeqEmpty == IsSeq(<<>>) /\ Changes(<<>>) = <<>> /\ Held(<<>>) = {}
<1>1. <<>> \in Seq({})
  OBVIOUS
<1> QED
  BY <1>1 DEF IsSeq, Changes, Held

LEMMA SeqAppend ==
  ASSUME NEW q, IsSeq(q), NEW x
  PROVE  /\ IsSeq(Append(q, x))
         /\ Changes(Append(q, x)) = Append(Changes(q), x.change)
         /\ Held(Append(q, x)) = Held(q) \cup (IF x.kind = "held" THEN {Len(q) + 1} ELSE {})
         /\ \A K : Kinds(q, K) /\ x.kind \in K => Kinds(Append(q, x), K)
<1>1. PICK S : q \in Seq(S)
  BY DEF IsSeq
<1> DEFINE T == S \cup {x}
<1>2. q \in Seq(T)
  BY <1>1
<1>3. IsSeq(Append(q, x))
  <2>1. Append(q, x) \in Seq(T)
    BY <1>2
  <2> QED
    BY <2>1 DEF IsSeq
<1>4. /\ Len(q) \in Nat /\ DOMAIN q = 1..Len(q)
      /\ DOMAIN Append(q, x) = 1..(Len(q) + 1)
      /\ \A n \in 1..Len(q) : Append(q, x)[n] = q[n]
      /\ Append(q, x)[Len(q) + 1] = x
  BY <1>2
<1>5. Changes(Append(q, x)) = Append(Changes(q), x.change)
  <2> DEFINE U == {y.change : y \in T}
  <2>1. Changes(q) \in Seq(U) /\ Len(Changes(q)) = Len(q)
    <3>1. \A n \in 1..Len(q) : q[n] \in T
      BY <1>2
    <3>2. Changes(q) \in [1..Len(q) -> U]
      BY <1>4, <3>1 DEF Changes
    <3> QED
      BY <1>4, <3>2
  <2>2. Append(Changes(q), x.change) =
           [n \in 1..(Len(q) + 1) |-> IF n = Len(q) + 1 THEN x.change ELSE Changes(q)[n]]
    BY <2>1
  <2> QED
    BY <1>4, <2>2 DEF Changes
<1>6. Held(Append(q, x)) = Held(q) \cup (IF x.kind = "held" THEN {Len(q) + 1} ELSE {})
  BY <1>4 DEF Held
<1>7. \A K : Kinds(q, K) /\ x.kind \in K => Kinds(Append(q, x), K)
  BY <1>4 DEF Kinds
<1> QED
  BY <1>3, <1>5, <1>6, <1>7

LEMMA SeqChanges ==
  ASSUME NEW q, IsSeq(q)
  PROVE  IsSeq(Changes(q)) /\ Len(Changes(q)) = Len(q)
<1>1. PICK S : q \in Seq(S)
  BY DEF IsSeq
<1> DEFINE U == {y.change : y \in S}
<1>2. Changes(q) \in [1..Len(q) -> U] /\ Len(q) \in Nat
  BY <1>1 DEF Changes
<1>3. Changes(q) \in Seq(U) /\ Len(Changes(q)) = Len(q)
  BY <1>2
<1> QED
  BY <1>3 DEF IsSeq

LEMMA ConcatIsFunction ==
  ASSUME NEW S, NEW s \in Seq(S), NEW t \in Seq(S)
  PROVE  s \o t = [n \in 1..(Len(s) + Len(t)) |-> IF n <= Len(s) THEN s[n] ELSE t[n - Len(s)]]
<1> DEFINE N == Len(s) + Len(t)
           f == [n \in 1..N |-> IF n <= Len(s) THEN s[n] ELSE t[n - Len(s)]]
<1>1. /\ s \o t \in Seq(S) /\ Len(s \o t) = N /\ N \in Nat
      /\ \A n \in 1..N : (s \o t)[n] = IF n <= Len(s) THEN s[n] ELSE t[n - Len(s)]
  BY ConcatProperties
<1>2. s \o t \in [1..N -> S]
  <2> DEFINE u == s \o t
  <2>1. u \in Seq(S)
    BY <1>1
  <2>2. u \in [1..Len(u) -> S]
    <3> HIDE DEF u
    <3> QED BY <2>1, LenProperties
  <2> QED
    BY <1>1, <2>2, Zenon
<1>3. s \o t = [n \in 1..N |-> (s \o t)[n]]
  BY <1>2, Zenon
<1> QED
  BY <1>1, <1>3

LEMMA SeqConcat ==
  ASSUME NEW q, NEW r, IsSeq(q), IsSeq(r)
  PROVE  /\ IsSeq(q \o r)
         /\ Changes(q \o r) = Changes(q) \o Changes(r)
         /\ Held(r) = {} => Held(q \o r) = Held(q)
         /\ \A K : Kinds(q, K) /\ Kinds(r, K) => Kinds(q \o r, K)
<1>1. PICK S1 : q \in Seq(S1)
  BY DEF IsSeq
<1>2. PICK S2 : r \in Seq(S2)
  BY DEF IsSeq
<1> DEFINE T == S1 \cup S2
<1>3. q \in Seq(T) /\ r \in Seq(T)
  BY <1>1, <1>2
<1>4. IsSeq(q \o r)
  <2>1. q \o r \in Seq(T)
    BY <1>3
  <2> QED
    BY <2>1 DEF IsSeq
<1>5. /\ Len(q) \in Nat /\ DOMAIN q = 1..Len(q)
      /\ Len(r) \in Nat /\ DOMAIN r = 1..Len(r)
      /\ DOMAIN (q \o r) = 1..(Len(q) + Len(r))
      /\ \A n \in 1..(Len(q) + Len(r)) :
           (q \o r)[n] = IF n <= Len(q) THEN q[n] ELSE r[n - Len(q)]
  BY <1>3
<1>6. Changes(q \o r) = Changes(q) \o Changes(r)
  <2>1. IsSeq(Changes(q)) /\ IsSeq(Changes(r))
        /\ Len(Changes(q)) = Len(q) /\ Len(Changes(r)) = Len(r)
    BY SeqChanges
  <2>2. PICK U1 : Changes(q) \in Seq(U1)
    BY <2>1 DEF IsSeq
  <2>3. PICK U2 : Changes(r) \in Seq(U2)
    BY <2>1 DEF IsSeq
  <2>4. Changes(q) \in Seq(U1 \cup U2) /\ Changes(r) \in Seq(U1 \cup U2)
    BY <2>2, <2>3
  <2>5. Changes(q) \o Changes(r) =
          [n \in 1..(Len(q) + Len(r)) |->
             IF n <= Len(q) THEN Changes(q)[n] ELSE Changes(r)[n - Len(q)]]
    <3> DEFINE s == Changes(q)
               t == Changes(r)
               S == U1 \cup U2
    <3>1. s \in Seq(S) /\ t \in Seq(S) /\ Len(s) = Len(q) /\ Len(t) = Len(r)
      BY <2>1, <2>4
    <3> HIDE DEF s, t, S
    <3>2. s \o t = [n \in 1..(Len(s) + Len(t)) |-> IF n <= Len(s) THEN s[n] ELSE t[n - Len(s)]]
      BY <3>1, ConcatIsFunction
    <3>3. s \o t = [n \in 1..(Len(q) + Len(r)) |-> IF n <= Len(q) THEN s[n] ELSE t[n - Len(q)]]
      BY <3>1, <3>2
    <3> QED
      BY <3>3 DEF s, t
  <2>6. \A n \in 1..Len(q) : Changes(q)[n] = q[n].change
    BY <1>5 DEF Changes
  <2>7. \A n \in 1..Len(r) : Changes(r)[n] = r[n].change
    BY <1>5 DEF Changes
  <2>8. Changes(q \o r) = [n \in 1..(Len(q) + Len(r)) |-> (q \o r)[n].change]
    BY <1>5 DEF Changes
  <2>9. \A n \in 1..(Len(q) + Len(r)) :
          (q \o r)[n].change = IF n <= Len(q) THEN Changes(q)[n] ELSE Changes(r)[n - Len(q)]
    BY <1>5, <2>6, <2>7
  <2> QED
    BY <2>5, <2>8, <2>9
<1>7. Held(r) = {} => Held(q \o r) = Held(q)
  BY <1>5 DEF Held
<1>8. \A K : Kinds(q, K) /\ Kinds(r, K) => Kinds(q \o r, K)
  BY <1>5 DEF Kinds
<1> QED
  BY <1>4, <1>6, <1>7, <1>8

LEMMA SeqTail ==
  ASSUME NEW q, IsSeq(q), q # <<>>
  PROVE  /\ IsSeq(Tail(q))
         /\ Changes(q) = <<Head(q).change>> \o Changes(Tail(q))
         /\ Len(Tail(q)) <= Len(q)
         /\ Held(Tail(q)) = {n \in DOMAIN Tail(q) : n + 1 \in Held(q)}
         /\ Head(q).kind = "held" => 1 \in Held(q)
         /\ \A K : Kinds(q, K) => Kinds(Tail(q), K) /\ Head(q).kind \in K
<1>1. PICK S : q \in Seq(S)
  BY DEF IsSeq
<1>2. /\ Len(q) \in Nat \ {0} /\ DOMAIN q = 1..Len(q) /\ Head(q) = q[1]
      /\ Tail(q) \in Seq(S) /\ DOMAIN Tail(q) = 1..(Len(q) - 1) /\ Len(Tail(q)) = Len(q) - 1
      /\ \A n \in 1..(Len(q) - 1) : Tail(q)[n] = q[n + 1]
  BY <1>1
<1>3. IsSeq(Tail(q))
  BY <1>2 DEF IsSeq
<1>4. Changes(q) = <<Head(q).change>> \o Changes(Tail(q))
  <2>1. q = <<Head(q)>> \o Tail(q)
    BY <1>1
  <2>2. IsSeq(<<Head(q)>>)
    <3>1. <<Head(q)>> \in Seq({Head(q)})
      OBVIOUS
    <3> QED
      BY <3>1 DEF IsSeq
  <2>3. Changes(<<Head(q)>>) = <<Head(q).change>>
    BY DEF Changes
  <2>4. Changes(<<Head(q)>> \o Tail(q)) = Changes(<<Head(q)>>) \o Changes(Tail(q))
    BY <1>3, <2>2, SeqConcat
  <2> QED
    BY <2>1, <2>3, <2>4
<1>5. Held(Tail(q)) = {n \in DOMAIN Tail(q) : n + 1 \in Held(q)}
  BY <1>2 DEF Held
<1>6. Head(q).kind = "held" => 1 \in Held(q)
  BY <1>2 DEF Held
<1>7. \A K : Kinds(q, K) => Kinds(Tail(q), K) /\ Head(q).kind \in K
  BY <1>2 DEF Kinds
<1> QED
  BY <1>2, <1>3, <1>4, <1>5, <1>6, <1>7

LEMMA SeqAssociative ==
  ASSUME NEW a, NEW b, NEW c, IsSeq(a), IsSeq(b), IsSeq(c)
  PROVE  (a \o b) \o c = a \o (b \o c)
<1>1. PICK A, B, C : a \in Seq(A) /\ b \in Seq(B) /\ c \in Seq(C)
  BY DEF IsSeq
<1> DEFINE S == A \cup B \cup C
<1>2. a \in Seq(S) /\ b \in Seq(S) /\ c \in Seq(S)
  BY <1>1
<1> HIDE DEF S
<1> QED
  BY <1>2, ConcatAssociative

LEMMA SeqAlgebra ==
  ASSUME NEW a, IsSeq(a), NEW x
  PROVE  /\ a \o <<>> = a
         /\ IsSeq(<<x>>)
         /\ Append(a, x) = a \o <<x>>
         /\ Append(a, x) # <<>>
<1>1. PICK A : a \in Seq(A)
  BY DEF IsSeq
<1> DEFINE S == A \cup {x}
<1>2. a \in Seq(S) /\ x \in S /\ <<x>> \in Seq(S)
  BY <1>1
<1> HIDE DEF S
<1>3. a \o <<>> = a
  BY <1>2, ConcatEmptySeq
<1>4. Append(a, x) = a \o <<x>> /\ Append(a, x) # <<>>
  BY <1>2, AppendIsConcat, AppendProperties
<1>5. IsSeq(<<x>>)
  BY <1>2 DEF IsSeq
<1> QED
  BY <1>3, <1>4, <1>5

-----------------------------------------------------------------------------
(* What happens to the messages queue.                                     *)

(* A message is appended.                                                  *)
LEMMA Appended ==
  ASSUME QueueInv, NEW k, appendMessage(k), delivered' = delivered
  PROVE  QueueInv' /\ (deliveries # <<>> => deliveries' # <<>>)
<1> DEFINE D == Changes(deliveries)
           M == Changes(messages)
<1>1. IsSeq(D) /\ IsSeq(M)
  BY SeqChanges DEF QueueInv, QueueSeqs
<1>2. \A live : Delivery(k, live).change = k
  BY DEF Delivery
<1>3. appended' = Append(appended, k) /\ appended = (delivered \o D) \o M
  BY DEF QueueInv, InOrder, appendMessage
<1>4. IsSeq(delivered \o D) /\ IsSeq(appended) /\ IsSeq(delivered) /\ IsSeq(messages) /\ IsSeq(deliveries)
  BY <1>1, SeqConcat DEF QueueInv, QueueSeqs
<1>5. IsSeq(appended')
  BY <1>3, <1>4, SeqAppend
<1>6. CASE isDelivering /\ messages = <<>>
  <2>1. deliveries' = Append(deliveries, Delivery(k, TRUE)) /\ messages' = <<>>
    BY <1>6 DEF appendMessage
  <2>2. Changes(deliveries') = Append(D, k) /\ IsSeq(deliveries')
    BY <1>2, <1>4, <2>1, SeqAppend
  <2>3. M = <<>> /\ Changes(messages') = <<>> /\ IsSeq(messages')
    BY <1>6, <2>1, SeqEmpty
  <2>4. appended = delivered \o D
    BY <1>3, <1>4, <2>3, SeqAlgebra
  <2>5. IsSeq(<<k>>) /\ Append(D, k) = D \o <<k>>
        /\ Append(delivered \o D, k) = (delivered \o D) \o <<k>>
    BY <1>1, <1>4, SeqAlgebra
  <2>6. (delivered \o D) \o <<k>> = delivered \o (D \o <<k>>)
    <3> DEFINE u == <<k>>
    <3>1. IsSeq(delivered) /\ IsSeq(D) /\ IsSeq(u)
      BY <1>1, <1>4, <2>5
    <3> HIDE DEF D, M, u
    <3>2. (delivered \o D) \o u = delivered \o (D \o u)
      BY <3>1, SeqAssociative
    <3> QED
      BY <3>2 DEF u
  <2>7. IsSeq(delivered \o Append(D, k))
    BY <1>1, <1>4, SeqAppend, SeqConcat
  <2>8. (delivered \o Append(D, k)) \o <<>> = delivered \o Append(D, k)
    BY <2>7, SeqAlgebra
  <2>9. InOrder'
    BY <1>3, <2>2, <2>3, <2>4, <2>5, <2>6, <2>8 DEF InOrder
  <2>10. deliveries' # <<>>
    BY <1>4, <2>1, SeqAlgebra
  <2> QED
    BY <1>4, <1>5, <2>2, <2>3, <2>9, <2>10 DEF QueueInv, QueueSeqs
<1>7. CASE ~(isDelivering /\ messages = <<>>)
  <2>1. messages' = Append(messages, Delivery(k, FALSE)) /\ deliveries' = deliveries
    BY <1>7 DEF appendMessage
  <2>2. Changes(messages') = Append(M, k) /\ IsSeq(messages')
    BY <1>2, <1>4, <2>1, SeqAppend
  <2>3. IsSeq(<<k>>) /\ Append(M, k) = M \o <<k>> /\ Append(appended, k) = appended \o <<k>>
    BY <1>1, <1>4, SeqAlgebra
  <2>4. ((delivered \o D) \o M) \o <<k>> = (delivered \o D) \o (M \o <<k>>)
    <3> DEFINE u == <<k>>
    <3>1. IsSeq(delivered \o D) /\ IsSeq(M) /\ IsSeq(u)
      BY <1>1, <1>4, <2>3
    <3> HIDE DEF D, M, u
    <3>2. ((delivered \o D) \o M) \o u = (delivered \o D) \o (M \o u)
      BY <3>1, SeqAssociative
    <3> QED
      BY <3>2 DEF u
  <2>5. InOrder'
    BY <1>3, <2>1, <2>2, <2>3, <2>4 DEF InOrder
  <2> QED
    BY <1>4, <1>5, <2>1, <2>2, <2>5 DEF QueueInv, QueueSeqs
<1> QED
  BY <1>6, <1>7

(* The messages held back go to the delivery queue.                        *)
LEMMA Started ==
  ASSUME QueueInv, startDelivery, appended' = appended, delivered' = delivered
  PROVE  QueueInv' /\ (deliveries # <<>> => deliveries' # <<>>)
<1> DEFINE D == Changes(deliveries)
           M == Changes(messages)
<1>1. IsSeq(D) /\ IsSeq(M) /\ IsSeq(delivered) /\ IsSeq(deliveries) /\ IsSeq(messages)
  BY SeqChanges DEF QueueInv, QueueSeqs
<1>2. deliveries' = deliveries \o messages /\ messages' = <<>>
  BY DEF startDelivery
<1>3. Changes(deliveries') = D \o M /\ IsSeq(deliveries')
  BY <1>1, <1>2, SeqConcat
<1>4. Changes(messages') = <<>> /\ IsSeq(messages')
  BY <1>2, SeqEmpty
<1> HIDE DEF D, M
<1>5. (delivered \o D) \o M = delivered \o (D \o M)
  <2>1. IsSeq(delivered) /\ IsSeq(D) /\ IsSeq(M)
    BY <1>1
  <2> QED
    BY ONLY <2>1, SeqAssociative
<1>6. IsSeq(D \o M)
  BY <1>1, SeqConcat
<1>7. IsSeq(delivered \o (D \o M))
  BY <1>1, <1>6, SeqConcat
<1>8. (delivered \o (D \o M)) \o <<>> = delivered \o (D \o M)
  BY <1>7, SeqAlgebra
<1>9. InOrder'
  BY <1>3, <1>4, <1>5, <1>8 DEF QueueInv, InOrder, D, M
<1>10. deliveries # <<>> => deliveries' # <<>>
  <2>1. PICK S, T : deliveries \in Seq(S) /\ messages \in Seq(T)
    BY <1>1 DEF IsSeq
  <2>2. deliveries \in Seq(S \cup T) /\ messages \in Seq(S \cup T)
    BY <2>1
  <2> QED
    BY <1>2, <2>2, ConcatEqualIffEmpty
<1> QED
  BY <1>3, <1>4, <1>9, <1>10 DEF QueueInv, QueueSeqs

(* The first delivery is made.                                             *)
LEMMA Made ==
  ASSUME QueueInv, deliveries # <<>>, deliveries' = Tail(deliveries),
         delivered' = Append(delivered, Head(deliveries).change),
         appended' = appended, messages' = messages
  PROVE  QueueInv'
<1> DEFINE h == Head(deliveries).change
           D == Changes(Tail(deliveries))
           M == Changes(messages)
<1>1. IsSeq(delivered) /\ IsSeq(deliveries) /\ IsSeq(messages)
  BY DEF QueueInv, QueueSeqs
<1>2. IsSeq(Tail(deliveries)) /\ Changes(deliveries) = <<h>> \o D
  BY <1>1, SeqTail
<1>3. IsSeq(D)
  BY <1>2, SeqChanges
<1>4. IsSeq(<<h>>) /\ Append(delivered, h) = delivered \o <<h>>
  BY <1>1, SeqAlgebra
<1>5. (delivered \o <<h>>) \o D = delivered \o (<<h>> \o D)
  <2> HIDE DEF h, D
  <2> QED
    BY <1>1, <1>3, <1>4, SeqAssociative
<1>6. IsSeq(delivered')
  BY <1>1, SeqAppend
<1>7. InOrder'
  BY <1>2, <1>4, <1>5 DEF QueueInv, InOrder
<1> QED
  BY <1>1, <1>2, <1>6, <1>7 DEF QueueInv, QueueSeqs

-----------------------------------------------------------------------------
(* What happens to the queues of blocks.                                   *)

LEMMA MutedSame ==
  ASSUME IsSeq(storeQueue), Kinds(storeQueue, StoreKinds)
  PROVE  IsSeq(Muted) /\ Kinds(Muted, StoreKinds) /\ Held(Muted) = Held(storeQueue)
<1>1. PICK S : storeQueue \in Seq(S)
  BY DEF IsSeq
<1> DEFINE T == S \cup {[kind |-> "unheard"]}
<1>2. /\ Len(storeQueue) \in Nat /\ DOMAIN storeQueue = 1..Len(storeQueue)
      /\ \A n \in 1..Len(storeQueue) : storeQueue[n] \in S
  BY <1>1
<1>3. DOMAIN Muted = DOMAIN storeQueue
      /\ \A n \in DOMAIN storeQueue :
           Muted[n] = IF storeQueue[n].kind = "message" THEN [kind |-> "unheard"] ELSE storeQueue[n]
  BY DEF Muted
<1>4. Muted \in [1..Len(storeQueue) -> T]
  BY <1>2 DEF Muted
<1>5. IsSeq(Muted)
  <2>1. Muted \in Seq(T)
    BY <1>2, <1>4
  <2> QED
    BY <2>1 DEF IsSeq
<1>6. \A n \in DOMAIN storeQueue :
        Muted[n].kind = IF storeQueue[n].kind = "message" THEN "unheard" ELSE storeQueue[n].kind
  BY <1>3
<1>7. Kinds(Muted, StoreKinds)
  BY <1>3, <1>6 DEF Kinds, StoreKinds
<1>8. Held(Muted) = Held(storeQueue)
  BY <1>3, <1>6 DEF Held
<1> QED
  BY <1>5, <1>7, <1>8

LEMMA HeldKept ==
  ASSUME OneHeld, Held(storeQueue') = Held(storeQueue),
         deliveries # <<>> => deliveries' # <<>>
  PROVE  OneHeld'
BY DEF OneHeld

(* Blocks that are not of a message held back are added.                   *)
LEMMA Added ==
  ASSUME Blocks, NEW r, IsSeq(r), Kinds(r, {"message", "show", "publish"}),
         storeQueue' = storeQueue \o r
  PROVE  IsSeq(storeQueue') /\ Kinds(storeQueue', StoreKinds) /\ Held(storeQueue') = Held(storeQueue)
<1>1. Held(r) = {}
  BY DEF Held, Kinds
<1>2. Kinds(r, StoreKinds)
  BY DEF Kinds, StoreKinds
<1> QED
  BY <1>1, <1>2, SeqConcat DEF Blocks

LEMMA Single ==
  ASSUME NEW b, NEW K, b.kind \in K
  PROVE  IsSeq(<<b>>) /\ Kinds(<<b>>, K)
<1>1. IsSeq(<<b>>)
  BY SeqEmpty, SeqAlgebra
<1>2. DOMAIN <<b>> = {1} /\ <<b>>[1] = b
  OBVIOUS
<1> QED
  BY <1>1, <1>2 DEF Kinds

LEMMA Pair ==
  ASSUME NEW b, NEW c, NEW K, b.kind \in K, c.kind \in K
  PROVE  IsSeq(<<b, c>>) /\ Kinds(<<b, c>>, K)
<1>1. <<b, c>> \in Seq({b, c})
  OBVIOUS
<1>2. DOMAIN <<b, c>> = {1, 2} /\ <<b, c>>[1] = b /\ <<b, c>>[2] = c
  OBVIOUS
<1> QED
  BY <1>1, <1>2 DEF IsSeq, Kinds

LEMMA BlockKinds ==
  /\ \A v : Show(v).kind = "show" /\ Publish(v).kind = "publish"
  /\ \A k : Message(k).kind = "message"
BY DEF Show, Publish, Message

-----------------------------------------------------------------------------
(* The steps.                                                              *)

(* The queues are left alone.                                              *)
LEMMA Same ==
  ASSUME IInv, UNCHANGED <<messages, deliveries, queues, appended, delivered>>,
         Stopped'
  PROVE  IInv'
BY DEF IInv, queues, QueueInv, QueueSeqs, InOrder, Blocks, OneHeld

LEMMA StepBegin ==
  ASSUME IInv, BeginSync
  PROVE  IInv'
BY Same DEF BeginSync, stopDelivery, Stopped, queues

LEMMA StepConnected ==
  ASSUME IInv, Connected \/ Cancel
  PROVE  IInv'
<1>1. CASE storeQueue' = storeQueue
  BY <1>1, Same DEF Connected, Cancel, queue, queues, history, Stopped, IInv
<1>2. CASE storeQueue' = Muted
  <2>1. UNCHANGED <<messages, deliveries, isDelivering, appended, delivered, handlerQueue>>
        /\ (pc' # "idle" => pc # "idle")
    BY DEF Connected, Cancel, queue, queues, history
  <2>2. IsSeq(storeQueue') /\ Kinds(storeQueue', StoreKinds) /\ Held(storeQueue') = Held(storeQueue)
    BY <1>2, MutedSame DEF IInv, Blocks
  <2>3. OneHeld'
    BY <2>1, <2>2, HeldKept DEF IInv
  <2> QED
    BY <2>1, <2>2, <2>3 DEF IInv, QueueInv, QueueSeqs, InOrder, Blocks, Stopped
<1> QED
  BY <1>1, <1>2 DEF Connected, Cancel

(* A sync ends, with or without versions for the store.                    *)
LEMMA Finished ==
  ASSUME IInv, NEW successful, FinishSync(successful), UNCHANGED <<appended, delivered>>,
         IsSeq(storeQueue'), Kinds(storeQueue', StoreKinds), Held(storeQueue') = Held(storeQueue),
         IsSeq(handlerQueue'), Kinds(handlerQueue', HandlerKinds)
  PROVE  IInv'
<1>1. QueueInv' /\ (deliveries # <<>> => deliveries' # <<>>)
  BY Started DEF IInv, FinishSync
<1>2. OneHeld'
  BY <1>1, HeldKept DEF IInv
<1>3. Stopped'
  BY DEF FinishSync, Stopped
<1> QED
  BY <1>1, <1>2, <1>3 DEF IInv, Blocks

LEMMA StepFinish ==
  ASSUME IInv, SkipQuery \/ QueryFails \/ DeltaAnswered \/ DeltaRejected
  PROVE  IInv'
<1>1. CASE SkipQuery \/ QueryFails
  <2>1. UNCHANGED <<storeQueue, handlerQueue, appended, delivered>>
    BY <1>1 DEF SkipQuery, QueryFails, queues, history
  <2>2. IsSeq(storeQueue') /\ Kinds(storeQueue', StoreKinds) /\ Held(storeQueue') = Held(storeQueue)
        /\ IsSeq(handlerQueue') /\ Kinds(handlerQueue', HandlerKinds)
    BY <2>1 DEF IInv, Blocks
  <2>3. CASE SkipQuery
    BY <2>1, <2>2, <2>3, Finished DEF SkipQuery
  <2>4. CASE QueryFails
    BY <2>1, <2>2, <2>4, Finished DEF QueryFails
  <2> QED
    BY <1>1, <2>3, <2>4
<1>2. CASE DeltaAnswered
  <2> DEFINE r == <<Show(query.answer[1]), Publish(query.answer[1])>>
  <2>1. FinishSync(TRUE) /\ storeQueue' = storeQueue \o r /\ UNCHANGED <<handlerQueue, appended, delivered>>
    BY <1>2 DEF DeltaAnswered, history
  <2>2. IsSeq(r) /\ Kinds(r, {"message", "show", "publish"})
    BY BlockKinds, Pair
  <2> HIDE DEF r
  <2>3. IsSeq(storeQueue') /\ Kinds(storeQueue', StoreKinds) /\ Held(storeQueue') = Held(storeQueue)
    BY <2>1, <2>2, Added DEF IInv
  <2> QED
    BY <2>1, <2>3, Finished DEF IInv, Blocks
<1>3. CASE DeltaRejected
  <2> DEFINE b == Show(Nothing)
             r == <<b>>
  <2>1. /\ FinishSync(TRUE) /\ storeQueue' = Append(storeQueue, b)
        /\ UNCHANGED <<handlerQueue, appended, delivered>>
    BY <1>3 DEF DeltaRejected
  <2>2. b.kind = "show"
    BY BlockKinds
  <2> HIDE DEF b
  <2>3. IsSeq(storeQueue') /\ Kinds(storeQueue', StoreKinds) /\ Held(storeQueue') = Held(storeQueue)
    BY <2>1, <2>2, SeqAppend DEF IInv, Blocks, StoreKinds
  <2> QED
    BY <2>1, <2>3, Finished DEF IInv, Blocks
<1> QED
  BY <1>1, <1>2, <1>3

LEMMA StepBaseRejected ==
  ASSUME IInv, BaseRejected
  PROVE  IInv'
<1> DEFINE b == [kind |-> "rejected"]
<1>1. /\ handlerQueue' = Append(handlerQueue, b)
      /\ UNCHANGED <<storeQueue, messages, deliveries, isDelivering, appended, delivered>>
      /\ pc # "idle"
  BY DEF BaseRejected, queue, history
<1>2. b.kind = "rejected"
  OBVIOUS
<1> HIDE DEF b
<1>3. IsSeq(handlerQueue') /\ Kinds(handlerQueue', HandlerKinds)
  BY <1>1, <1>2, SeqAppend DEF IInv, Blocks, HandlerKinds
<1> QED
  BY <1>1, <1>3 DEF IInv, QueueInv, QueueSeqs, InOrder, Blocks, OneHeld, Stopped

LEMMA StepBaseAnswered ==
  ASSUME IInv, BaseAnswered
  PROVE  IInv'
<1> DEFINE b == [kind |-> "base", versions |-> query.answer[1]]
           p == Publish(query.answer[1])
<1>1. /\ handlerQueue' = Append(handlerQueue, b)
      /\ storeQueue' = Append(storeQueue, p)
      /\ UNCHANGED <<messages, deliveries, isDelivering, appended, delivered>>
      /\ pc # "idle"
  BY DEF BaseAnswered, queue, history
<1>2. b.kind = "base" /\ p.kind = "publish"
  BY BlockKinds
<1> HIDE DEF b, p
<1>3. IsSeq(storeQueue) /\ Kinds(storeQueue, StoreKinds) /\ IsSeq(handlerQueue) /\ Kinds(handlerQueue, HandlerKinds)
  BY DEF IInv, Blocks
<1>4. IsSeq(storeQueue') /\ Kinds(storeQueue', StoreKinds) /\ Held(storeQueue') = Held(storeQueue)
  BY <1>1, <1>2, <1>3, SeqAppend DEF StoreKinds
<1>5. IsSeq(handlerQueue') /\ Kinds(handlerQueue', HandlerKinds)
  BY <1>1, <1>2, <1>3, SeqAppend DEF HandlerKinds
<1>6. OneHeld'
  BY <1>1, <1>4, HeldKept DEF IInv
<1> QED
  BY <1>1, <1>4, <1>5, <1>6 DEF IInv, QueueInv, QueueSeqs, InOrder, Blocks, Stopped

LEMMA StepArrive ==
  ASSUME IInv, Arrive
  PROVE  IInv'
<1> DEFINE K == {"message", "show", "publish"}
<1>1. PICK r : IsSeq(r) /\ Kinds(r, K) /\ storeQueue' = storeQueue \o r
  <2>1. PICK n \in DOMAIN wire, copies \in 1..2 :
          LET k == wire[n]
              once == <<Message(k), Publish(Version(k))>>
          IN  storeQueue' = storeQueue \o (IF copies = 1 THEN once ELSE once \o once)
    BY DEF Arrive
  <2> DEFINE k == wire[n]
             once == <<Message(k), Publish(Version(k))>>
  <2>2. IsSeq(once) /\ Kinds(once, K)
    BY BlockKinds, Pair
  <2>3. storeQueue' = storeQueue \o (IF copies = 1 THEN once ELSE once \o once)
    BY <2>1
  <2> HIDE DEF once, K
  <2>4. IsSeq(once \o once) /\ Kinds(once \o once, K)
    BY <2>2, SeqConcat
  <2> QED
    BY <2>2, <2>3, <2>4
<1>2. UNCHANGED <<messages, deliveries, isDelivering, appended, delivered, handlerQueue, pc>>
  BY DEF Arrive, sync, queue, history
<1>3. IsSeq(storeQueue') /\ Kinds(storeQueue', StoreKinds) /\ Held(storeQueue') = Held(storeQueue)
  BY <1>1, Added DEF IInv
<1>4. OneHeld'
  BY <1>2, <1>3, HeldKept DEF IInv
<1> QED
  BY <1>2, <1>3, <1>4 DEF IInv, QueueInv, QueueSeqs, InOrder, Blocks, Stopped

LEMMA StepDeliver ==
  ASSUME IInv, Deliver
  PROVE  IInv'
<1> DEFINE m == Head(deliveries)
           s == Show(Version(m.change))
           h == [kind |-> "held"]
<1>1. /\ deliveries # <<>> /\ UNCHANGED <<messages, isDelivering, appended, pc>>
      /\ Held(storeQueue) = {}
  BY DEF Deliver, sync, Held
<1>2. /\ IsSeq(storeQueue) /\ Kinds(storeQueue, StoreKinds)
      /\ IsSeq(handlerQueue) /\ Kinds(handlerQueue, HandlerKinds) /\ QueueInv
  BY DEF IInv, Blocks
<1>3. Stopped'
  BY <1>1 DEF IInv, Stopped
<1>4. CASE m.live
  <2>1. /\ handlerQueue' = Append(handlerQueue, s) /\ UNCHANGED storeQueue
        /\ delivered' = Append(delivered, m.change) /\ deliveries' = Tail(deliveries)
    BY <1>4 DEF Deliver
  <2>2. QueueInv'
    BY <1>1, <1>2, <2>1, Made
  <2>3. s.kind = "show"
    BY BlockKinds
  <2>4. IsSeq(handlerQueue') /\ Kinds(handlerQueue', HandlerKinds)
    <3> HIDE DEF s
    <3> QED
      BY <1>2, <2>1, <2>3, SeqAppend DEF HandlerKinds
  <2>5. OneHeld'
    BY <1>1, <2>1 DEF OneHeld
  <2> QED
    BY <1>2, <1>3, <2>1, <2>2, <2>4, <2>5 DEF IInv, Blocks
<1>5. CASE ~m.live
  <2>1. storeQueue' = Append(storeQueue, h) /\ UNCHANGED <<handlerQueue, delivered, deliveries>>
    BY <1>5 DEF Deliver
  <2>2. h.kind = "held"
    OBVIOUS
  <2> HIDE DEF h
  <2>3. IsSeq(storeQueue') /\ Kinds(storeQueue', StoreKinds)
        /\ Held(storeQueue') = {Len(storeQueue) + 1}
    BY <1>1, <1>2, <2>1, <2>2, SeqAppend DEF StoreKinds
  <2>4. OneHeld'
    BY <1>1, <2>1, <2>3 DEF OneHeld
  <2>5. QueueInv'
    BY <1>1, <1>2, <2>1 DEF QueueInv, QueueSeqs, InOrder
  <2> QED
    BY <1>2, <1>3, <2>1, <2>3, <2>4, <2>5 DEF IInv, Blocks
<1> QED
  BY <1>4, <1>5

LEMMA StepRunStore ==
  ASSUME IInv, RunStore
  PROVE  IInv'
<1> DEFINE b == Head(storeQueue)
           m == Head(deliveries)
           s == Show(Version(m.change))
<1>1. storeQueue # <<>> /\ storeQueue' = Tail(storeQueue)
      /\ UNCHANGED <<messages, isDelivering, appended, pc>>
  BY DEF RunStore, sync
<1>2. /\ IsSeq(storeQueue) /\ Kinds(storeQueue, StoreKinds)
      /\ IsSeq(handlerQueue) /\ Kinds(handlerQueue, HandlerKinds) /\ QueueInv
  BY DEF IInv, Blocks
<1>3. /\ IsSeq(storeQueue') /\ Kinds(storeQueue', StoreKinds) /\ b.kind \in StoreKinds
      /\ Held(storeQueue') = {n \in DOMAIN storeQueue' : n + 1 \in Held(storeQueue)}
      /\ b.kind = "held" => 1 \in Held(storeQueue)
  BY <1>1, <1>2, SeqTail
<1>4. DOMAIN storeQueue' \subseteq Nat \ {0}
  BY <1>3 DEF IsSeq
<1>5. Stopped'
  BY <1>1 DEF IInv, Stopped
<1>6. \A n, l \in Held(storeQueue') : n = l
  <2> SUFFICES ASSUME NEW n \in Held(storeQueue'), NEW l \in Held(storeQueue')
               PROVE  n = l
    OBVIOUS
  <2>1. n + 1 \in Held(storeQueue) /\ l + 1 \in Held(storeQueue) /\ n \in Nat /\ l \in Nat
    BY <1>3, <1>4
  <2>2. n + 1 = l + 1
    BY <2>1 DEF IInv, OneHeld
  <2> QED
    BY <2>1, <2>2
<1>7. CASE b.kind # "held"
  <2>1. UNCHANGED <<deliveries, delivered>>
        /\ (handlerQueue' = handlerQueue
            \/ (b.kind \in {"message", "show"} /\ handlerQueue' = Append(handlerQueue, b)))
    BY <1>3, <1>7 DEF RunStore, StoreKinds
  <2>2. IsSeq(handlerQueue') /\ Kinds(handlerQueue', HandlerKinds)
    <3> HIDE DEF b
    <3>1. b.kind \in {"message", "show"} => b.kind \in HandlerKinds
      BY DEF HandlerKinds
    <3>2. IsSeq(Append(handlerQueue, b))
      BY <1>2, SeqAppend
    <3>3. b.kind \in HandlerKinds => Kinds(Append(handlerQueue, b), HandlerKinds)
      BY <1>2, SeqAppend
    <3> QED
      BY <1>2, <2>1, <3>1, <3>2, <3>3
  <2>3. Held(storeQueue') # {} => deliveries' # <<>>
    BY <1>3, <2>1 DEF IInv, OneHeld
  <2>4. QueueInv'
    BY <1>1, <1>2, <2>1 DEF QueueInv, QueueSeqs, InOrder
  <2> QED
    BY <1>3, <1>5, <1>6, <2>2, <2>3, <2>4 DEF IInv, Blocks, OneHeld
<1>8. CASE b.kind = "held"
  <2>1. /\ handlerQueue' = Append(handlerQueue, s)
        /\ deliveries' = Tail(deliveries) /\ delivered' = Append(delivered, m.change)
    BY <1>8 DEF RunStore
  <2>2. deliveries # <<>>
    BY <1>3, <1>8 DEF IInv, OneHeld
  <2>3. QueueInv'
    BY <1>1, <1>2, <2>1, <2>2, Made
  <2>4. s.kind = "show"
    BY BlockKinds
  <2>5. IsSeq(handlerQueue') /\ Kinds(handlerQueue', HandlerKinds)
    <3> HIDE DEF s
    <3> QED
      BY <1>2, <2>1, <2>4, SeqAppend DEF HandlerKinds
  <2>6. Held(storeQueue') = {}
    <3> SUFFICES ASSUME NEW n \in Held(storeQueue')
                 PROVE  FALSE
      OBVIOUS
    <3>1. n + 1 \in Held(storeQueue) /\ 1 \in Held(storeQueue) /\ n \in Nat \ {0}
      BY <1>3, <1>4, <1>8
    <3>2. n + 1 = 1
      BY <3>1 DEF IInv, OneHeld
    <3> QED
      BY <3>1, <3>2
  <2> QED
    BY <1>3, <1>5, <2>3, <2>5, <2>6 DEF IInv, Blocks, OneHeld
<1> QED
  BY <1>7, <1>8

LEMMA StepRunHandler ==
  ASSUME IInv, RunHandler
  PROVE  IInv'
<1> DEFINE b == Head(handlerQueue)
<1>1. handlerQueue # <<>> /\ handlerQueue' = Tail(handlerQueue)
      /\ UNCHANGED <<storeQueue, delivered>>
  BY DEF RunHandler
<1>2. /\ IsSeq(storeQueue) /\ Kinds(storeQueue, StoreKinds)
      /\ IsSeq(handlerQueue) /\ Kinds(handlerQueue, HandlerKinds) /\ QueueInv
  BY DEF IInv, Blocks
<1>3. /\ IsSeq(storeQueue') /\ Kinds(storeQueue', StoreKinds) /\ Held(storeQueue') = Held(storeQueue)
      /\ IsSeq(handlerQueue') /\ Kinds(handlerQueue', HandlerKinds) /\ b.kind \in HandlerKinds
  BY <1>1, <1>2, SeqTail
<1>4. CASE b.kind = "message"
  <2>1. appendMessage(b.change) /\ UNCHANGED <<pc, isDelivering>>
    BY <1>4 DEF RunHandler, sync, appendMessage
  <2>2. QueueInv' /\ (deliveries # <<>> => deliveries' # <<>>)
    BY <1>1, <1>2, <2>1, Appended
  <2>3. OneHeld'
    BY <1>3, <2>2, HeldKept DEF IInv
  <2> QED
    BY <1>3, <2>1, <2>2, <2>3 DEF IInv, Blocks, Stopped
<1>5. CASE b.kind = "show"
  <2>1. UNCHANGED <<pc, isDelivering, messages, deliveries, appended>>
    BY <1>5 DEF RunHandler, sync, queue
  <2>2. OneHeld'
    BY <1>3, <2>1, HeldKept DEF IInv
  <2> QED
    BY <1>1, <1>3, <2>1, <2>2 DEF IInv, Blocks, Stopped, QueueInv, QueueSeqs, InOrder
<1>6. CASE b.kind \in {"base", "rejected"}
  <2>1. FinishSync(TRUE) /\ UNCHANGED appended
    BY <1>6 DEF RunHandler
  <2> QED
    BY <1>1, <1>3, <2>1, Finished
<1> QED
  BY <1>3, <1>4, <1>5, <1>6 DEF HandlerKinds

(* The queues of an app just launched.                                     *)
LEMMA Launched ==
  ASSUME appended = <<>>, delivered = <<>>, deliveries = <<>>, messages = <<>>,
         storeQueue = <<>>, handlerQueue = <<>>, pc = "idle"
  PROVE  IInv
<1>1. QueueInv
  <2>1. <<>> = <<>> \o <<>> \o <<>>
    BY SeqEmpty, SeqAlgebra
  <2> QED
    BY <2>1, SeqEmpty DEF QueueInv, QueueSeqs, InOrder
<1>2. Blocks
  BY SeqEmpty DEF Blocks, Kinds
<1>3. OneHeld /\ Stopped
  BY SeqEmpty DEF OneHeld, Stopped
<1> QED
  BY <1>1, <1>2, <1>3 DEF IInv

LEMMA StepRestart ==
  ASSUME Restart
  PROVE  IInv'
<1>1. appended' = <<>> /\ delivered' = <<>> /\ deliveries' = <<>> /\ messages' = <<>>
      /\ storeQueue' = <<>> /\ handlerQueue' = <<>> /\ pc' = "idle"
  BY DEF Restart
<1>2. QueueInv'
  <2>1. <<>> = <<>> \o <<>> \o <<>>
    BY SeqEmpty, SeqAlgebra
  <2> QED
    BY <1>1, <2>1, SeqEmpty DEF QueueInv, QueueSeqs, InOrder
<1>3. Blocks'
  BY <1>1, SeqEmpty DEF Blocks, Kinds
<1>4. OneHeld' /\ Stopped'
  BY <1>1, SeqEmpty DEF OneHeld, Stopped
<1> QED
  BY <1>2, <1>3, <1>4 DEF IInv

(* A message that was appended is delivered or waits in its place, and the *)
(* store's queue waits for the first delivery at most.                     *)
THEOREM Invariant == Spec => []IInv
<1>1. Init => IInv
  BY Launched DEF Init
<1>2. IInv /\ [Next]_vars => IInv'
  <2> SUFFICES ASSUME IInv, [Next]_vars PROVE IInv'
    OBVIOUS
  <2>1. CASE Tick \/ Drop \/ Reconnect \/ CloseOld \/ Subscribed \/ Evaluate \/ TimerFires
             \/ SyncNotice \/ (\E i \in Items : Change(i)) \/ UNCHANGED vars
    <3>1. UNCHANGED <<pc, isDelivering, messages, deliveries, queues, appended, delivered>>
      BY <2>1 DEF Tick, Drop, Reconnect, CloseOld, Subscribed, Evaluate, TimerFires, SyncNotice, Change,
                  sync, queue, history, vars
    <3> QED
      BY <3>1, Same DEF IInv, Stopped
  <2>2. CASE RunQuery \/ SubscribeFails
    <3>1. UNCHANGED <<isDelivering, messages, deliveries, queues, appended, delivered>>
          /\ (pc' # "idle" => pc # "idle")
      BY <2>2 DEF RunQuery, SubscribeFails, queue, history
    <3> QED
      BY <3>1, Same DEF IInv, Stopped
  <2> QED
    BY <2>1, <2>2, StepBegin, StepConnected, StepFinish, StepBaseAnswered, StepBaseRejected,
       StepArrive, StepDeliver, StepRunStore, StepRunHandler, StepRestart
       DEF Next
<1> QED
  BY <1>1, <1>2, PTL DEF Spec

-----------------------------------------------------------------------------
(* Every message appended is delivered once, in the order it was appended, *)
(* however syncs, cancellations and restarts fall between                  *)
(* (SubscriptionMessagesQueue).                                            *)
THEOREM DeliveredInOrder == Spec => []InOrderOnce
<1>1. IInv => InOrderOnce
  BY DEF IInv, QueueInv, InOrder, InOrderOnce, Changes
<1> QED
  BY <1>1, Invariant, PTL

(* While a query is on its way or its result waits for the handler, no     *)
(* message is handed out for delivery (stopDelivery in performSync, drain  *)
(* in its defer).                                                          *)
THEOREM NoneHandedOut == Spec => HeldBack
<1>1. IInv /\ [Next]_vars => [InQuery /\ InQuery' => Len(deliveries') =< Len(deliveries)]_vars
  <2> SUFFICES ASSUME IInv, Next, InQuery, InQuery'
               PROVE  Len(deliveries') =< Len(deliveries)
    OBVIOUS
  <2>1. pc # "idle" /\ pc' # "idle" /\ ~isDelivering
    BY DEF InQuery, IInv, Stopped
  <2>2. IsSeq(deliveries)
    BY DEF IInv, QueueInv, QueueSeqs
  <2>3. Len(deliveries) \in Nat
    BY <2>2 DEF IsSeq
  <2>4. deliveries' = deliveries \/ (deliveries # <<>> /\ deliveries' = Tail(deliveries))
    <3>1. CASE Deliver
      BY <3>1 DEF Deliver
    <3>2. CASE RunStore
      <4>1. Head(storeQueue).kind \in StoreKinds
        BY <3>2, SeqTail DEF RunStore, IInv, Blocks
      <4>2. Head(storeQueue).kind = "held" => deliveries # <<>>
        BY <3>2, SeqTail DEF RunStore, IInv, Blocks, OneHeld
      <4> QED
        BY <3>2, <4>1, <4>2 DEF RunStore, StoreKinds
    <3>3. CASE RunHandler
      <4>1. Head(handlerQueue).kind \in HandlerKinds
        BY <3>3, SeqTail DEF RunHandler, IInv, Blocks
      <4>2. Head(handlerQueue).kind = "message" => deliveries' = deliveries
        BY <2>1, <3>3 DEF RunHandler, appendMessage
      <4>3. Head(handlerQueue).kind = "show" => deliveries' = deliveries
        BY <3>3 DEF RunHandler, queue
      <4>4. Head(handlerQueue).kind \notin {"base", "rejected"}
        BY <2>1, <3>3 DEF RunHandler, FinishSync
      <4> QED
        BY <4>1, <4>2, <4>3, <4>4 DEF HandlerKinds
    <3>4. ~(SkipQuery \/ QueryFails \/ DeltaAnswered \/ DeltaRejected \/ Restart \/ BeginSync)
      BY <2>1 DEF SkipQuery, QueryFails, DeltaAnswered, DeltaRejected, Restart, BeginSync, FinishSync
    <3>5. CASE ~(Deliver \/ RunStore \/ RunHandler)
      BY <3>4, <3>5 DEF Next, Tick, Drop, Reconnect, CloseOld, Connected, SubscribeFails, Subscribed,
           Arrive, BaseRejected, RunQuery, TimerFires, Evaluate, BaseAnswered, SyncNotice, Cancel, Change, queue
    <3> QED
      BY <3>1, <3>2, <3>3, <3>5
  <2> QED
    BY <2>2, <2>3, <2>4, SeqTail
<1> QED
  BY <1>1, Invariant, PTL DEF Spec, HeldBack
=============================================================================
