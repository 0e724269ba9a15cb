--------------------------- MODULE TaskLists_proofs ---------------------------
(* What the functions of TaskLists return, for any number of tasks.        *)
EXTENDS TaskLists, FiniteSetTheorems, SequenceTheorems, WellFoundedInduction, TLAPS

-----------------------------------------------------------------------------
(* Dictionaries.                                                           *)

Keyed(d) == DOMAIN d = Keys /\ \A k \in Keys : d[k] # NoTask => d[k].id = k

LEMMA ValuesAreTasks ==
  ASSUME NEW d \in Dictionary
  PROVE  Values(d) \subseteq Task /\ IsFiniteSet(Values(d))
<1>1. Values(d) \subseteq Task
  BY DEF Values, Dictionary
<1>. DEFINE f == [k \in Keys |-> d[k]]
            T == {d[k] : k \in Keys}
<1>2. IsFiniteSet(Keys)
  BY IdsAssumption, FS_AddElement DEF Keys
<1>3. f \in Surjection(Keys, T)
  BY DEF Surjection
<1>4. IsFiniteSet(T)
  BY <1>2, <1>3, FS_Surjection
<1>5. Values(d) \in SUBSET T
  BY DEF Values
<1>. QED BY <1>1, <1>4, <1>5, FS_Subset

(* No two values of a dictionary keyed by id have the same id.             *)
LEMMA OneValuePerId ==
  ASSUME NEW d, Keyed(d), NEW u \in Values(d), NEW w \in Values(d), u.id = w.id
  PROVE  u = w
BY DEF Keyed, Values

LEMMA RekeyedIsKeyed ==
  ASSUME NEW d, NEW e \in Rekeyed(d)
  PROVE  Keyed(e)
BY DEF Rekeyed, Keyed

LEMMA RekeyedIsTyped ==
  ASSUME NEW d \in Dictionary, NEW e \in Rekeyed(d)
  PROVE  e \in Dictionary
BY DEF Rekeyed, Dictionary, Values

(* Rekeying a dictionary that is keyed by id changes nothing.              *)
LEMMA RekeyedIsSame ==
  ASSUME NEW d \in Dictionary, Keyed(d), NEW e \in Rekeyed(d)
  PROVE  e = d
<1>1. ASSUME NEW k \in Keys PROVE e[k] = d[k]
  <2>. DEFINE same == {v \in Values(d) : v.id = k}
  <2>1. IF same = {} THEN e[k] = NoTask ELSE e[k] \in same
    BY DEF Rekeyed
  <2>2. CASE d[k] = NoTask
    <3>1. same = {}
      BY <2>2 DEF Values, Keyed
    <3>. QED BY <2>1, <2>2, <3>1
  <2>3. CASE d[k] # NoTask
    <3>1. same = {d[k]}
      BY <2>3 DEF Values, Keyed
    <3>. QED BY <2>1, <3>1
  <2>. QED BY <2>2, <2>3
<1>2. e \in [Keys -> Values(d) \cup {NoTask}]
  BY DEF Rekeyed
<1>. QED BY <1>1, <1>2 DEF Dictionary

LEMMA LastTaskHasId ==
  ASSUME NEW s
  PROVE  Keyed(ToKeyedDictionary(s))
<1>. SUFFICES ASSUME NEW k \in Keys, ToKeyedDictionary(s)[k] # NoTask
              PROVE  ToKeyedDictionary(s)[k].id = k
  BY DEF Keyed, ToKeyedDictionary
<1>. DEFINE last == CHOOSE i \in DOMAIN s : IsLastWithId(s, k, i)
<1>1. (\E i \in DOMAIN s : IsLastWithId(s, k, i)) /\ ToKeyedDictionary(s)[k] = s[last]
  BY DEF ToKeyedDictionary
<1>2. IsLastWithId(s, k, last)
  BY <1>1
<1>. QED BY <1>1, <1>2 DEF IsLastWithId

(* What a keyed array holds under a key is an element of the array.        *)
LEMMA KeyedElement ==
  ASSUME NEW s, NEW k \in Keys, ToKeyedDictionary(s)[k] # NoTask
  PROVE  \E i \in DOMAIN s : ToKeyedDictionary(s)[k] = s[i] /\ s[i].id = k
<1>. DEFINE last == CHOOSE i \in DOMAIN s : IsLastWithId(s, k, i)
<1>1. (\E i \in DOMAIN s : IsLastWithId(s, k, i)) /\ ToKeyedDictionary(s)[k] = s[last]
  BY DEF ToKeyedDictionary
<1>2. last \in DOMAIN s /\ IsLastWithId(s, k, last)
  BY <1>1
<1>. QED BY <1>1, <1>2 DEF IsLastWithId

LEMMA KeyedArrayIsTyped ==
  ASSUME NEW s \in Seq(Task)
  PROVE  ToKeyedDictionary(s) \in Dictionary
<1>1. ASSUME NEW k \in Keys PROVE ToKeyedDictionary(s)[k] \in Task \cup {NoTask}
  BY KeyedElement, ElementOfSeq, LenProperties
<1>. QED BY <1>1 DEF Dictionary, ToKeyedDictionary

LEMMA MergeIsKeyed ==
  ASSUME NEW d, NEW e, Keyed(d), Keyed(e)
  PROVE  Keyed(Merge(d, e))
BY DEF Merge, Keyed

LEMMA MergeIsTyped ==
  ASSUME NEW d \in Dictionary, NEW e \in Dictionary
  PROVE  Merge(d, e) \in Dictionary
BY DEF Merge, Dictionary

-----------------------------------------------------------------------------
(* The reorderer.                                                          *)

IsPosition(position) == position.at \in {"first", "last", "between"}

LEMMA ArrangementIsASeq ==
  ASSUME NEW S, IsFiniteSet(S), NEW p \in Arrangements(S)
  PROVE  p \in Seq(S)
<1>1. Cardinality(S) \in Nat
  BY FS_CardinalityType
<1>2. p \in [1..Cardinality(S) -> S]
  BY DEF Arrangements
<1>. QED BY <1>1, <1>2, SeqDef

LEMMA SpliceIsASeq ==
  ASSUME NEW S, NEW ordered \in Seq(S), NEW updated \in S,
         NEW a \in DOMAIN ordered, NEW b \in DOMAIN ordered
  PROVE  Splice(ordered, updated, a, b) \in Seq(S)
<1>1. /\ Len(ordered) \in Nat /\ a \in 1..Len(ordered) /\ b \in 1..Len(ordered)
      /\ \A i \in 1..Len(ordered) : ordered[i] \in S
  BY LenProperties, ElementOfSeq
<1>2. SubSeq(ordered, 1, a) \in Seq(S) /\ SubSeq(ordered, b, Len(ordered)) \in Seq(S)
  BY <1>1, SubSeqProperties
<1>3. <<updated>> \in Seq(S)
  OBVIOUS
<1>. QED BY <1>2, <1>3, ConcatProperties DEF Splice

LEMMA PlacedIsASeq ==
  ASSUME NEW S, NEW ordered \in Seq(S), NEW updated \in S, NEW position, NEW d,
         IsPosition(position)
  PROVE  Placed(ordered, updated, position, d) \in Seq(S)
<1>1. <<updated>> \o ordered \in Seq(S) /\ Append(ordered, updated) \in Seq(S)
  BY ConcatProperties, AppendProperties
<1>2. CASE position.at = "first"
  BY <1>1, <1>2 DEF Placed
<1>3. CASE position.at = "last"
  BY <1>1, <1>3 DEF Placed
<1>4. CASE position.at = "between"
  <2>. DEFINE after  == d[position.after]
              before == d[position.before]
  <2>1. Placed(ordered, updated, position, d) =
          IF {after, before} \subseteq ToSet(ordered)
          THEN Splice(ordered, updated, IndexOf(ordered, after), IndexOf(ordered, before))
          ELSE <<updated>> \o ordered
    BY <1>4 DEF Placed
  <2>2. CASE {after, before} \subseteq ToSet(ordered)
    <3>1. IndexOf(ordered, after) \in DOMAIN ordered /\ IndexOf(ordered, before) \in DOMAIN ordered
      BY <2>2 DEF IndexOf, ToSet
    <3>. QED BY <2>1, <2>2, <3>1, SpliceIsASeq
  <2>. QED BY <1>1, <2>1, <2>2
<1>. QED BY <1>2, <1>3, <1>4 DEF IsPosition

(* Every task the reorderer returns is the moved one or one of the list,   *)
(* with nothing but its order changed.                                     *)
LEMMA ReorderElement ==
  ASSUME NEW d \in Dictionary, NEW S \in SUBSET Values(d), NEW task, NEW updated \in Task,
         NEW position, IsPosition(position),
         NEW s \in ReorderTasks(S, task, position, updated, d)
  PROVE  /\ s \in Seq(Task)
         /\ \A i \in DOMAIN s : \E u \in (S \ {task}) \cup {updated} :
              s[i].id = u.id /\ s[i].status = u.status /\ s[i].date = u.date
<1>. DEFINE T == (S \ {task}) \cup {updated}
<1>1. PICK ordered \in SortedByOrder(S \ {task}) :
        s = Renumbered(Placed(ordered, updated, position, d))
  BY DEF ReorderTasks
<1>. DEFINE placed == Placed(ordered, updated, position, d)
<1>2. T \subseteq Task
  BY ValuesAreTasks
<1>3. IsFiniteSet(S \ {task})
  BY ValuesAreTasks, FS_Subset
<1>4. ordered \in Seq(S \ {task})
  BY <1>3, ArrangementIsASeq DEF SortedByOrder
<1>5. ordered \in Seq(T)
  BY <1>4, SeqMonotonic
<1>6. placed \in Seq(T)
  BY <1>5, PlacedIsASeq
<1>7. Len(placed) \in Nat /\ \A i \in 1..Len(placed) : placed[i] \in T
  BY <1>6, LenProperties, ElementOfSeq
<1>. HIDE DEF placed, T
<1>8. ASSUME NEW i \in 1..Len(placed)
      PROVE  /\ s[i] \in Task
             /\ s[i].id = placed[i].id
             /\ s[i].status = placed[i].status
             /\ s[i].date = placed[i].date
  <2>1. placed[i] \in Task /\ i - 1 \in Nat
    BY <1>2, <1>7
  <2>2. s[i] = withOrder(placed[i], i - 1)
    BY <1>1 DEF Renumbered, placed
  <2>. QED BY <2>1, <2>2 DEF withOrder, Task
<1>9. DOMAIN s = 1..Len(placed) /\ s = [i \in 1..Len(placed) |-> s[i]]
  BY <1>1 DEF Renumbered, placed
<1>10. s \in Seq(Task)
  <2>1. s \in [1..Len(placed) -> Task]
    BY <1>8, <1>9
  <2>. QED BY <2>1, <1>7, SeqDef
<1>11. ASSUME NEW i \in DOMAIN s
       PROVE \E u \in T : s[i].id = u.id /\ s[i].status = u.status /\ s[i].date = u.date
  BY <1>7, <1>8, <1>9
<1>. QED BY <1>10, <1>11 DEF T

(* The moved task has a place, whatever the position.                      *)
Has(s, task) == \E i \in DOMAIN s : s[i] = task

LEMMA UpdatedIsPlaced ==
  ASSUME NEW S, NEW ordered \in Seq(S), NEW updated \in S, NEW position, NEW d,
         IsPosition(position)
  PROVE  Has(Placed(ordered, updated, position, d), updated)
<1>0. Len(ordered) \in Nat /\ <<updated>> \in Seq(S) /\ Len(<<updated>>) = 1
  BY LenProperties
<1>1. Has(<<updated>> \o ordered, updated)
  <2>. DEFINE s == <<updated>> \o ordered
  <2>1. Len(s) = 1 + Len(ordered) /\ s \in Seq(S) /\ s[1] = updated
    BY <1>0, ConcatProperties
  <2>. QED BY <1>0, <2>1, LenProperties DEF Has
<1>2. CASE position.at = "first"
  BY <1>1, <1>2 DEF Placed
<1>3. CASE position.at = "last"
  <2>1. Has(Append(ordered, updated), updated)
    BY <1>0, AppendProperties, LenProperties DEF Has
  <2>. QED BY <1>3, <2>1 DEF Placed
<1>4. CASE position.at = "between"
  <2>. DEFINE after  == d[position.after]
              before == d[position.before]
              a == IndexOf(ordered, after)
              b == IndexOf(ordered, before)
  <2>1. Placed(ordered, updated, position, d) =
          IF {after, before} \subseteq ToSet(ordered)
          THEN Splice(ordered, updated, a, b) ELSE <<updated>> \o ordered
    BY <1>4 DEF Placed
  <2>2. CASE {after, before} \subseteq ToSet(ordered)
    <3>1. a \in DOMAIN ordered /\ b \in DOMAIN ordered
      BY <2>2 DEF IndexOf, ToSet
    <3>. HIDE DEF a, b
    <3>2. a \in 1..Len(ordered) /\ b \in 1..Len(ordered)
          /\ \A i \in 1..Len(ordered) : ordered[i] \in S
      BY <1>0, <3>1, LenProperties, ElementOfSeq
    <3>. DEFINE p == SubSeq(ordered, 1, a)
                q == SubSeq(ordered, b, Len(ordered))
                m == p \o <<updated>>
                s == m \o q
    <3>3. p \in Seq(S) /\ q \in Seq(S) /\ Len(p) = a /\ Len(q) \in Nat
      BY <1>0, <3>2, SubSeqProperties, LenProperties
    <3>. HIDE DEF p, q
    <3>4. m \in Seq(S) /\ Len(m) = a + 1 /\ m[a + 1] = updated
      BY <1>0, <3>2, <3>3, ConcatProperties
    <3>. HIDE DEF m
    <3>5. s \in Seq(S) /\ Len(s) = Len(m) + Len(q)
          /\ \A i \in 1..Len(s) : s[i] = IF i =< Len(m) THEN m[i] ELSE q[i - Len(m)]
      BY <3>3, <3>4, ConcatProperties
    <3>6. a + 1 \in 1..Len(s)
      BY <3>2, <3>3, <3>4, <3>5
    <3>7. Has(s, updated)
      BY <3>2, <3>4, <3>5, <3>6, LenProperties DEF Has
    <3>. QED BY <2>1, <2>2, <3>7 DEF Splice, s, m, p, q
  <2>. QED BY <1>1, <2>1, <2>2
<1>. QED BY <1>2, <1>3, <1>4 DEF IsPosition

LEMMA UpdatedIsReturned ==
  ASSUME NEW d \in Dictionary, NEW S \in SUBSET Values(d), NEW task, NEW updated \in Task,
         NEW position, IsPosition(position),
         NEW s \in ReorderTasks(S, task, position, updated, d)
  PROVE  \E i \in DOMAIN s : s[i].id = updated.id
<1>1. PICK ordered \in SortedByOrder(S \ {task}) :
        s = Renumbered(Placed(ordered, updated, position, d))
  BY DEF ReorderTasks
<1>. DEFINE T == S \cup {updated}
            placed == Placed(ordered, updated, position, d)
<1>2. ordered \in Seq(T)
  <2>1. ordered \in Seq(S \ {task})
    BY ValuesAreTasks, FS_Subset, ArrangementIsASeq DEF SortedByOrder
  <2>. QED BY <2>1, SeqMonotonic
<1>. HIDE DEF T
<1>3. placed \in Seq(T) /\ Has(placed, updated)
  BY <1>2, PlacedIsASeq, UpdatedIsPlaced DEF T
<1>. HIDE DEF placed
<1>4. PICK i \in 1..Len(placed) : placed[i] = updated
  BY <1>3, LenProperties DEF Has
<1>5. i \in DOMAIN s /\ s[i] = withOrder(updated, i - 1)
  BY <1>1, <1>4 DEF Renumbered, placed
<1>. QED BY <1>5 DEF withOrder, Task

(* An array that has a task with an identifier has a last one.             *)
LEMMA ThereIsALast ==
  ASSUME NEW s \in Seq(Task), NEW k, NEW i \in DOMAIN s, s[i].id = k
  PROVE  \E j \in DOMAIN s : IsLastWithId(s, k, j)
<1>. DEFINE n == Len(s)
            W == {n - j : j \in {m \in 1..n : s[m].id = k}}
            R == {p \in Nat \X Nat : p[1] < p[2]}
<1>1. n \in Nat /\ DOMAIN s = 1..n
  BY LenProperties
<1>2. W \subseteq Nat /\ W # {}
  BY <1>1
<1>3. IsWellFoundedOn(R, Nat)
  BY NatLessThanWellFounded, Zenon DEF OpToRel
<1>. HIDE DEF R
<1>4. PICK w \in W : \A v \in W : <<v, w>> \notin R
  <2>. HIDE DEF W
  <2>. QED BY <1>2, <1>3, WFMin
<1>5. PICK j \in 1..n : w = n - j /\ s[j].id = k
  OBVIOUS
<1>6. ASSUME NEW m \in 1..n, m > j, s[m].id = k PROVE FALSE
  <2>1. n - m \in W /\ n - m \in Nat /\ w \in Nat /\ n - m < w
    BY <1>1, <1>5, <1>6
  <2>. QED BY <1>4, <2>1 DEF R
<1>. QED BY <1>1, <1>5, <1>6 DEF IsLastWithId

(* Once a move has been merged, the moved task is held as it was updated,  *)
(* also when the reorderer returns it more than once.                      *)
HeldAs(d, id, updated) ==
  d[id] # NoTask /\ d[id].status = updated.status /\ d[id].date = updated.date

LEMMA UpdatedIsHeld ==
  ASSUME NEW d \in Dictionary, Keyed(d), NEW S \in SUBSET Values(d), NEW task \in Values(d),
         NEW updated \in Task, updated.id = task.id, NEW position, IsPosition(position),
         NEW s \in ReorderTasks(S, task, position, updated, d),
         NEW e, e = Merge(d, ToKeyedDictionary(s))
  PROVE  HeldAs(e, task.id, updated)
<1>. DEFINE k == task.id
            new == ToKeyedDictionary(s)
<1>0. k \in Keys
  BY DEF Task
<1>1. /\ s \in Seq(Task)
      /\ \A i \in DOMAIN s : \E u \in (S \ {task}) \cup {updated} :
           s[i].id = u.id /\ s[i].status = u.status /\ s[i].date = u.date
  BY ReorderElement
<1>2. PICK i \in DOMAIN s : IsLastWithId(s, k, i)
  BY <1>1, UpdatedIsReturned, ThereIsALast
<1>. DEFINE j == CHOOSE j \in DOMAIN s : IsLastWithId(s, k, j)
<1>3. j \in DOMAIN s /\ IsLastWithId(s, k, j)
  BY <1>2
<1>4. new[k] = s[j]
  BY <1>0, <1>2 DEF ToKeyedDictionary
<1>. HIDE DEF j, new
<1>5. s[j] \in Task /\ s[j].id = k
  BY <1>1, <1>3, ElementOfSeq, LenProperties DEF IsLastWithId
<1>6. PICK u \in (S \ {task}) \cup {updated} :
        s[j].id = u.id /\ s[j].status = u.status /\ s[j].date = u.date
  BY <1>1, <1>3
<1>7. u = updated
  BY <1>5, <1>6, OneValuePerId
<1>8. e[k] = s[j] /\ s[j] # NoTask
  BY <1>0, <1>4, <1>5, NoTaskAssumption DEF Merge, new
<1>. QED BY <1>6, <1>7, <1>8 DEF HeldAs

-----------------------------------------------------------------------------
(* Rows.                                                                   *)

RowsOf(S) == [identifier : {u.id : u \in S}, actions : SUBSET Action]

LEMMA RowsOfTasks ==
  ASSUME NEW S \in SUBSET Task, IsFiniteSet(S),
         NEW actions \in [{"todo", "wip", "done"} -> SUBSET Action],
         NEW view \in ToViewModels(S, actions)
  PROVE  view \in Seq(RowsOf(S))
<1>1. PICK p \in SortedForDisplay(S) :
        view = [i \in 1..Len(p) |-> [identifier |-> p[i].id, actions |-> actions[p[i].status]]]
  BY DEF ToViewModels
<1>2. p \in Seq(S)
  BY ArrangementIsASeq DEF SortedForDisplay
<1>3. Len(p) \in Nat /\ \A i \in 1..Len(p) : p[i] \in S
  BY <1>2, LenProperties, ElementOfSeq
<1>4. \A i \in 1..Len(p) : [identifier |-> p[i].id, actions |-> actions[p[i].status]] \in RowsOf(S)
  BY <1>3 DEF RowsOf, Task
<1>5. view \in [1..Len(p) -> RowsOf(S)]
  BY <1>1, <1>4
<1>. QED BY <1>3, <1>5, SeqDef

(* The rows of a section stand for its tasks, each for another one.        *)
LEMMA RowsAreDistinct ==
  ASSUME NEW d \in Dictionary, Keyed(d), NEW S \in SUBSET Values(d), NEW actions,
         NEW view \in ToViewModels(S, actions)
  PROVE  /\ \A r \in DOMAIN view : \E u \in S : view[r].identifier = u.id
         /\ \A r, q \in DOMAIN view : view[r].identifier = view[q].identifier => r = q
<1>1. PICK p \in SortedForDisplay(S) :
        view = [i \in 1..Len(p) |-> [identifier |-> p[i].id, actions |-> actions[p[i].status]]]
  BY DEF ToViewModels
<1>2. IsFiniteSet(S) /\ p \in Arrangements(S)
  BY ValuesAreTasks, FS_Subset DEF SortedForDisplay
<1>3. p \in Seq(S)
  BY <1>2, ArrangementIsASeq
<1>4. DOMAIN view = DOMAIN p /\ \A r \in DOMAIN view : view[r].identifier = p[r].id /\ p[r] \in S
  BY <1>1, <1>3, LenProperties, ElementOfSeq
<1>5. \A r, q \in DOMAIN p : p[r] = p[q] => r = q
  BY <1>2 DEF Arrangements
<1>. QED BY <1>4, <1>5, OneValuePerId

(* Every task of a section has a row there.                                *)
LEMMA EveryTaskHasARow ==
  ASSUME NEW S, IsFiniteSet(S), NEW actions, NEW view \in ToViewModels(S, actions), NEW u \in S
  PROVE  \E r \in DOMAIN view : view[r].identifier = u.id
<1>1. PICK p \in SortedForDisplay(S) :
        view = [i \in 1..Len(p) |-> [identifier |-> p[i].id, actions |-> actions[p[i].status]]]
  BY DEF ToViewModels
<1>. DEFINE n == Cardinality(S)
            D == 1..n
<1>2. n \in Nat /\ p \in [D -> S] /\ (\A i, j \in DOMAIN p : p[i] = p[j] => i = j) /\ p \in Seq(S)
  BY <1>1, FS_CardinalityType, ArrangementIsASeq DEF SortedForDisplay, Arrangements
<1>3. IsFiniteSet(D) /\ Cardinality(D) = n
  BY <1>2, FS_Interval
<1>4. p \in Injection(D, S)
  BY <1>2 DEF Injection, IsInjective
<1>5. \E i \in D : p[i] = u
  <2>. SUFFICES ASSUME \A i \in D : p[i] # u PROVE FALSE
    OBVIOUS
  <2>1. p \in Injection(D, S \ {u})
    BY <1>2 DEF Injection, IsInjective
  <2>2. IsFiniteSet(S \ {u}) /\ Cardinality(S \ {u}) = n - 1
    BY FS_RemoveElement
  <2>3. Cardinality(D) =< Cardinality(S \ {u})
    <3>. HIDE DEF D, n
    <3>. QED BY <2>1, <2>2, FS_Injection
  <2>. QED BY <1>2, <1>3, <2>2, <2>3
<1>. QED BY <1>1, <1>2, <1>5, LenProperties

IsWithout(short, s, i) ==
  /\ Len(short) = Len(s) - 1
  /\ \A j \in 1..(Len(s) - 1) : short[j] = IF j < i THEN s[j] ELSE s[j + 1]

LEMMA RemovedElements ==
  ASSUME NEW R, NEW s \in Seq(R), NEW i \in DOMAIN s
  PROVE  RemoveAt(s, i) \in Seq(R) /\ IsWithout(RemoveAt(s, i), s, i)
<1>1. Len(s) \in Nat /\ i \in 1..Len(s)
  BY LenProperties
<1>. DEFINE a == SubSeq(s, 1, i - 1)
            b == SubSeq(s, i + 1, Len(s))
<1>2. /\ a \in Seq(R) /\ Len(a) = i - 1 /\ \A j \in 1..i - 1 : a[j] = s[j]
  BY <1>1, SubSeqProperties
<1>3. /\ b \in Seq(R) /\ Len(b) = Len(s) - i
      /\ \A j \in 1..Len(s) - i : b[j] = s[i + j]
  BY <1>1, SubSeqProperties
<1>. HIDE DEF a, b
<1>4. /\ a \o b \in Seq(R) /\ Len(a \o b) = Len(a) + Len(b)
      /\ \A j \in 1..Len(a) + Len(b) : (a \o b)[j] = IF j =< Len(a) THEN a[j] ELSE b[j - Len(a)]
  BY <1>2, <1>3, ConcatProperties
<1>5. ASSUME NEW j \in 1..(Len(s) - 1)
      PROVE  (a \o b)[j] = IF j < i THEN s[j] ELSE s[j + 1]
  <2>1. CASE j < i
    <3>1. j \in 1..i - 1 /\ j =< i - 1 /\ j \in 1..(i - 1) + (Len(s) - i)
      BY <1>1, <2>1
    <3>2. (a \o b)[j] = a[j]
      BY <1>2, <1>3, <1>4, <3>1
    <3>3. a[j] = s[j]
      BY <1>2, <3>1
    <3>. QED BY <2>1, <3>2, <3>3
  <2>2. CASE ~(j < i)
    <3>1. /\ j - (i - 1) \in 1..Len(s) - i /\ i + (j - (i - 1)) = j + 1
          /\ ~(j =< i - 1) /\ j \in 1..(i - 1) + (Len(s) - i)
      BY <1>1, <2>2
    <3>2. (a \o b)[j] = b[j - (i - 1)]
      BY <1>2, <1>3, <1>4, <3>1
    <3>3. b[j - (i - 1)] = s[j + 1]
      BY <1>3, <3>1
    <3>. QED BY <2>2, <3>2, <3>3
  <2>. QED BY <2>1, <2>2
<1>6. RemoveAt(s, i) = a \o b
  BY DEF RemoveAt, a, b
<1>7. Len(a) + Len(b) = Len(s) - 1
  BY <1>1, <1>2, <1>3
<1>. QED BY <1>4, <1>5, <1>6, <1>7 DEF IsWithout

IsWith(long, s, i, e) ==
  /\ Len(long) = Len(s) + 1
  /\ \A j \in 1..Len(s) + 1 : long[j] = IF j < i THEN s[j] ELSE IF j = i THEN e ELSE s[j - 1]

LEMMA InsertedElements ==
  ASSUME NEW R, NEW s \in Seq(R), NEW i \in 1..Len(s) + 1, NEW e \in R
  PROVE  InsertAt(s, i, e) \in Seq(R) /\ IsWith(InsertAt(s, i, e), s, i, e)
<1>1. Len(s) \in Nat
  BY LenProperties
<1>. DEFINE a == SubSeq(s, 1, i - 1)
            b == SubSeq(s, i, Len(s))
<1>2. /\ a \in Seq(R) /\ Len(a) = i - 1 /\ \A j \in 1..i - 1 : a[j] = s[j]
  BY <1>1, SubSeqProperties
<1>3. /\ b \in Seq(R) /\ Len(b) = Len(s) - i + 1
      /\ \A j \in 1..Len(s) - i + 1 : b[j] = s[i + j - 1]
  BY <1>1, SubSeqProperties
<1>. HIDE DEF a, b
<1>. DEFINE c == a \o <<e>>
<1>4. /\ c \in Seq(R) /\ Len(c) = i
      /\ \A j \in 1..i : c[j] = IF j < i THEN s[j] ELSE e
  BY <1>1, <1>2
<1>. HIDE DEF c
<1>5. /\ c \o b \in Seq(R) /\ Len(c \o b) = Len(c) + Len(b)
      /\ \A j \in 1..Len(c) + Len(b) : (c \o b)[j] = IF j =< Len(c) THEN c[j] ELSE b[j - Len(c)]
  BY <1>3, <1>4, ConcatProperties
<1>6. ASSUME NEW j \in 1..Len(s) + 1
      PROVE  (c \o b)[j] = IF j < i THEN s[j] ELSE IF j = i THEN e ELSE s[j - 1]
  <2>1. CASE j =< i
    <3>1. j \in 1..i /\ j \in 1..i + (Len(s) - i + 1)
      BY <1>1, <2>1
    <3>2. (c \o b)[j] = c[j]
      BY <1>3, <1>4, <1>5, <2>1, <3>1
    <3>. QED BY <1>1, <1>4, <2>1, <3>1, <3>2
  <2>2. CASE ~(j =< i)
    <3>1. /\ j - i \in 1..Len(s) - i + 1 /\ i + (j - i) - 1 = j - 1
          /\ j \in 1..i + (Len(s) - i + 1)
      BY <1>1, <2>2
    <3>2. (c \o b)[j] = b[j - i]
      BY <1>3, <1>4, <1>5, <2>2, <3>1
    <3>3. b[j - i] = s[j - 1]
      BY <1>3, <3>1
    <3>. QED BY <2>2, <3>2, <3>3
  <2>. QED BY <2>1, <2>2
<1>7. InsertAt(s, i, e) = c \o b
  BY DEF InsertAt, a, b, c
<1>8. Len(c) + Len(b) = Len(s) + 1
  BY <1>1, <1>3, <1>4
<1>. DEFINE d == c \o b
<1>9. d \in Seq(R) /\ Len(d) = Len(s) + 1
  BY <1>5, <1>8
<1>10. \A j \in 1..Len(s) + 1 : d[j] = IF j < i THEN s[j] ELSE IF j = i THEN e ELSE s[j - 1]
  BY <1>6
<1>11. InsertAt(s, i, e) = d
  BY <1>7
<1>. HIDE DEF d
<1>. QED BY <1>9, <1>10, <1>11 DEF IsWith
=============================================================================
