-------------------------- MODULE TaskScenes_proofs --------------------------
(* Safety of TaskScenes, for any number of tasks and any services.         *)
EXTENDS TaskScenes, TaskLists_proofs, FiniteSetTheorems, SequenceTheorems, TLAPS

-----------------------------------------------------------------------------
(* What the screens show, over any services: an interactor holds tasks by  *)
(* their own identifiers, a row stands for a task it holds, and no task    *)
(* has two rows.                                                           *)

HeldByKey == DOMAIN keyedTasks = Tabs /\ \A t \in Tabs : Keyed(keyedTasks[t])

LEMMA SetKeepsKeys ==
  ASSUME HeldByKey, NEW t, NEW d, t \in Tabs => Keyed(d), SetKeyedTasks(t, d)
  PROVE  HeldByKey'
BY DEF HeldByKey, SetKeyedTasks, Keyed

OneRowEach(view) ==
  \A x, y \in DOMAIN view : \A r \in DOMAIN view[x], q \in DOMAIN view[y] :
    view[x][r].identifier = view[y][q].identifier => x = y /\ r = q

Presents(view, d) == view \in Seq(Seq(RowsOf(Values(d)))) /\ OneRowEach(view)

Backstage ==
  /\ store \in [Holders -> Dictionary]
  /\ items \in ItemList
  /\ cache \in ItemList \cup {NotCached}
  /\ unused \subseteq Ids
  /\ calls \in Seq(Call)
  /\ visible \in Tabs \cup {NoTab}
  /\ now \in Nat

OnScreen ==
  /\ keyedTasks \in [Tabs -> Dictionary]
  /\ HeldByKey
  /\ sections \in [Tabs -> Seq(Seq(Row))]
  /\ \A t \in Tabs : Presents(sections[t], keyedTasks[t])

IInv == Backstage /\ OnScreen

LEMMA RowTables ==
  /\ actionsForTask \in [{"todo", "wip", "done"} -> SUBSET Action]
  /\ actionsForDoneTask \in [{"todo", "wip", "done"} -> SUBSET Action]
BY DEF actionsForTask, actionsForDoneTask, Action

(* One section of a screen, made from some of its tasks.                   *)
IsSection(rows, S, d) ==
  /\ rows \in Seq(RowsOf(Values(d)))
  /\ \A r \in DOMAIN rows : \E u \in S : rows[r].identifier = u.id
  /\ \A r, q \in DOMAIN rows : rows[r].identifier = rows[q].identifier => r = q

LEMMA SectionOfTasks ==
  ASSUME NEW d \in Dictionary, Keyed(d), NEW S \in SUBSET Values(d),
         NEW actions \in [{"todo", "wip", "done"} -> SUBSET Action],
         NEW view \in ToViewModels(S, actions)
  PROVE  IsSection(view, S, d)
<1>1. S \in SUBSET Task /\ IsFiniteSet(S)
  BY ValuesAreTasks, FS_Subset
<1>2. view \in Seq(RowsOf(S))
  BY <1>1, RowsOfTasks
<1>3. RowsOf(S) \subseteq RowsOf(Values(d))
  BY DEF RowsOf
<1>4. view \in Seq(RowsOf(Values(d)))
  BY <1>2, <1>3, SeqMonotonic
<1>. QED BY <1>4, RowsAreDistinct DEF IsSection

LEMMA OneSection ==
  ASSUME NEW d \in Dictionary, Keyed(d), NEW S \in SUBSET Values(d),
         NEW actions \in [{"todo", "wip", "done"} -> SUBSET Action],
         NEW rows \in ToViewModels(S, actions)
  PROVE  Presents(<<rows>>, d)
<1>. DEFINE R == RowsOf(Values(d))
            view == <<rows>>
<1>0. IsSection(rows, S, d)
  BY SectionOfTasks
<1>1. /\ rows \in Seq(R)
      /\ \A r, q \in DOMAIN rows : rows[r].identifier = rows[q].identifier => r = q
  BY <1>0 DEF IsSection
<1>. HIDE DEF R
<1>2. view \in Seq(Seq(R))
  BY <1>1
<1>3. OneRowEach(view)
  <2>1. DOMAIN view = {1} /\ view[1] = rows
    OBVIOUS
  <2>. HIDE DEF view
  <2>. QED BY <1>1, <2>1 DEF OneRowEach
<1>. QED BY <1>2, <1>3 DEF Presents, R

(* The dashboard's two sections have no task in common.                    *)
LEMMA TwoSections ==
  ASSUME NEW d \in Dictionary, Keyed(d), now \in Nat,
         NEW y \in ToViewModels(yesterdayTasks(Values(d), now), actionsForTask),
         NEW r \in ToViewModels(todayTasks(Values(d), now), actionsForTask)
  PROVE  Presents(<<y, r>>, d)
<1>. DEFINE R == RowsOf(Values(d))
            Y == yesterdayTasks(Values(d), now)
            T == todayTasks(Values(d), now)
            view == <<y, r>>
<1>1. Y \in SUBSET Values(d) /\ T \in SUBSET Values(d)
  BY DEF yesterdayTasks, todayTasks
<1>2. Y \cap T = {}
  <2>1. Day(now) \in Int /\ Day(now) # Day(now) - 1
    BY DayAssumption DEF Day
  <2>. QED BY <2>1, Zenon DEF yesterdayTasks, todayTasks, isDateInToday, isDateInYesterday
<1>3. /\ y \in Seq(R) /\ \A i \in DOMAIN y : \E u \in Y : y[i].identifier = u.id
      /\ \A i, j \in DOMAIN y : y[i].identifier = y[j].identifier => i = j
  <2>1. IsSection(y, Y, d)
    BY <1>1, RowTables, SectionOfTasks
  <2>. QED BY <2>1 DEF IsSection
<1>4. /\ r \in Seq(R) /\ \A i \in DOMAIN r : \E u \in T : r[i].identifier = u.id
      /\ \A i, j \in DOMAIN r : r[i].identifier = r[j].identifier => i = j
  <2>1. IsSection(r, T, d)
    BY <1>1, RowTables, SectionOfTasks
  <2>. QED BY <2>1 DEF IsSection
<1>5. ASSUME NEW i \in DOMAIN y, NEW j \in DOMAIN r PROVE y[i].identifier # r[j].identifier
  <2>1. PICK u \in Y : y[i].identifier = u.id
    BY <1>3
  <2>2. PICK w \in T : r[j].identifier = w.id
    BY <1>4
  <2>3. u \in Values(d) /\ w \in Values(d) /\ u # w
    BY <1>1, <1>2
  <2>. QED BY <2>1, <2>2, <2>3, OneValuePerId
<1>. HIDE DEF R
<1>6. view \in Seq(Seq(R))
  BY <1>3, <1>4
<1>7. OneRowEach(view)
  <2>1. DOMAIN view = {1, 2} /\ view[1] = y /\ view[2] = r
    OBVIOUS
  <2>. HIDE DEF view
  <2>. QED BY <1>3, <1>4, <1>5, <2>1 DEF OneRowEach
<1>. QED BY <1>6, <1>7 DEF Presents, R

(* Whatever an interactor is given, its didSet presents.                   *)
LEMMA DisplayPresents ==
  ASSUME NEW t \in Tabs, NEW d \in Dictionary, Keyed(d), now \in Nat,
         NEW shown \in displayTasks(t, d)
  PROVE  Presents(shown, d)
<1>1. CASE t = "dashboard"
  BY <1>1, TwoSections DEF displayTasks
<1>2. CASE t = "todo"
  <2>1. todoTasks(Values(d)) \in SUBSET Values(d)
    BY DEF todoTasks
  <2>. QED BY <1>2, <2>1, RowTables, OneSection DEF displayTasks
<1>3. CASE t = "done"
  <2>1. doneTasks(Values(d)) \in SUBSET Values(d)
    BY DEF doneTasks
  <2>. QED BY <1>3, <2>1, RowTables, OneSection DEF displayTasks
<1>. QED BY <1>1, <1>2, <1>3, TabsAssumption

LEMMA PresentsIsTyped ==
  ASSUME NEW d \in Dictionary, NEW view, Presents(view, d)
  PROVE  view \in Seq(Seq(Row))
<1>. DEFINE R == RowsOf(Values(d))
<1>1. view \in Seq(Seq(R))
  BY DEF Presents
<1>2. R \subseteq Row
  BY ValuesAreTasks DEF RowsOf, Row, Task
<1>. HIDE DEF R
<1>3. Seq(R) \subseteq Seq(Row)
  BY <1>2, SeqMonotonic
<1>4. Seq(Seq(R)) \subseteq Seq(Seq(Row))
  BY <1>3, SeqMonotonic
<1>. QED BY <1>1, <1>4

LEMMA SetOnScreen ==
  ASSUME OnScreen, now \in Nat, NEW t \in Tabs, NEW d \in Dictionary, Keyed(d),
         SetKeyedTasks(t, d)
  PROVE  OnScreen'
<1>1. PICK shown \in displayTasks(t, d) :
        /\ sections' = [sections EXCEPT ![t] = shown]
        /\ keyedTasks' = [keyedTasks EXCEPT ![t] = d]
  BY DEF SetKeyedTasks
<1>2. Presents(shown, d)
  BY DisplayPresents
<1>3. HeldByKey'
  BY SetKeepsKeys DEF OnScreen
<1>4. shown \in Seq(Seq(Row))
  BY <1>2, PresentsIsTyped
<1>. QED BY <1>1, <1>2, <1>3, <1>4 DEF OnScreen

LEMMA ShowOnScreen ==
  ASSUME OnScreen, NEW t \in Tabs, NEW view, Presents(view, keyedTasks[t]), Show(t, view)
  PROVE  OnScreen'
<1>1. view \in Seq(Seq(Row))
  BY PresentsIsTyped DEF OnScreen
<1>. QED BY <1>1 DEF OnScreen, Show, HeldByKey

(* The data source's move: the row is taken out and put in again.          *)
TakenOut(view, from, row) == [view EXCEPT ![from] = RemoveAt(@, row)]
PutIn(view, to, dest, e)  == [view EXCEPT ![to] = InsertAt(@, dest, e)]

(* The row is gone from its section, and the rest of the table is there.   *)
IsTakenOut(removed, view, from, row, R) ==
  /\ removed \in Seq(Seq(R)) /\ DOMAIN removed = DOMAIN view
  /\ Len(removed[from]) = Len(view[from]) - 1
  /\ \A x \in DOMAIN view \ {from} : removed[x] = view[x]
  /\ OneRowEach(removed)
  /\ \A x \in DOMAIN removed : \A r \in DOMAIN removed[x] :
       removed[x][r].identifier # view[from][row].identifier

LEMMA RowTakenOut ==
  ASSUME NEW R, NEW view \in Seq(Seq(R)), OneRowEach(view),
         NEW from \in DOMAIN view, NEW row \in DOMAIN view[from],
         NEW removed, removed = TakenOut(view, from, row)
  PROVE  IsTakenOut(removed, view, from, row, R)
<1>1. \A x \in DOMAIN view : view[x] \in Seq(R) /\ Len(view[x]) \in Nat
                             /\ DOMAIN view[x] = 1..Len(view[x])
  BY ElementOfSeq, LenProperties
<1>2. /\ RemoveAt(view[from], row) \in Seq(R)
      /\ Len(RemoveAt(view[from], row)) = Len(view[from]) - 1
      /\ \A j \in 1..(Len(view[from]) - 1) :
           RemoveAt(view[from], row)[j] = IF j < row THEN view[from][j] ELSE view[from][j + 1]
  <2>1. /\ RemoveAt(view[from], row) \in Seq(R)
        /\ IsWithout(RemoveAt(view[from], row), view[from], row)
    BY <1>1, RemovedElements
  <2>. QED BY <2>1 DEF IsWithout
<1>3. removed \in Seq(Seq(R)) /\ DOMAIN removed = DOMAIN view
  <2>1. removed = [view EXCEPT ![from] = RemoveAt(view[from], row)]
    BY DEF TakenOut
  <2>. QED BY <1>2, <2>1, ExceptSeq, LenProperties
<1>4. \A x \in DOMAIN view : removed[x] = IF x = from THEN RemoveAt(view[from], row) ELSE view[x]
  BY DEF TakenOut
<1>. DEFINE place(x, r) == IF x = from /\ r >= row THEN r + 1 ELSE r
<1>5. ASSUME NEW x \in DOMAIN view, NEW r \in DOMAIN removed[x]
      PROVE  /\ r \in Int /\ place(x, r) \in DOMAIN view[x]
             /\ removed[x][r] = view[x][place(x, r)]
             /\ ~(x = from /\ place(x, r) = row)
  <2>1. CASE x = from
    <3>1. r \in 1..(Len(view[from]) - 1) /\ row \in 1..Len(view[from]) /\ Len(view[from]) \in Nat
      BY <1>1, <1>2, <1>4, <2>1, LenProperties
    <3>2. removed[x][r] = IF r < row THEN view[from][r] ELSE view[from][r + 1]
      BY <1>2, <1>4, <2>1, <3>1
    <3>. QED BY <1>1, <2>1, <3>1, <3>2
  <2>2. CASE x # from
    BY <1>1, <1>4, <2>2
  <2>. QED BY <2>1, <2>2
<1>6. /\ Len(removed[from]) = Len(view[from]) - 1
      /\ \A x \in DOMAIN view \ {from} : removed[x] = view[x]
  BY <1>2, <1>4
<1>7. OneRowEach(removed)
  <2>. SUFFICES ASSUME NEW x \in DOMAIN view, NEW y \in DOMAIN view,
                       NEW r \in DOMAIN removed[x], NEW q \in DOMAIN removed[y],
                       removed[x][r].identifier = removed[y][q].identifier
                PROVE  x = y /\ r = q
    BY <1>3 DEF OneRowEach
  <2>1. /\ r \in Int /\ place(x, r) \in DOMAIN view[x] /\ removed[x][r] = view[x][place(x, r)]
        /\ q \in Int /\ place(y, q) \in DOMAIN view[y] /\ removed[y][q] = view[y][place(y, q)]
    BY <1>5
  <2>2. x = y /\ place(x, r) = place(y, q)
    <3>. HIDE DEF place
    <3>. QED BY <2>1 DEF OneRowEach
  <2>3. row \in Int
    BY <1>1
  <2>. QED BY <2>1, <2>2, <2>3
<1>8. ASSUME NEW x \in DOMAIN removed, NEW r \in DOMAIN removed[x]
      PROVE  removed[x][r].identifier # view[from][row].identifier
  <2>1. /\ place(x, r) \in DOMAIN view[x] /\ removed[x][r] = view[x][place(x, r)]
        /\ ~(x = from /\ place(x, r) = row) /\ x \in DOMAIN view
    BY <1>3, <1>5
  <2>. HIDE DEF place
  <2>. QED BY <2>1 DEF OneRowEach
<1>. QED BY <1>3, <1>6, <1>7, <1>8 DEF IsTakenOut

LEMMA RowPutIn ==
  ASSUME NEW R, NEW view \in Seq(Seq(R)), OneRowEach(view),
         NEW to \in DOMAIN view, NEW dest \in 1..Len(view[to]) + 1, NEW e \in R,
         \A x \in DOMAIN view : \A r \in DOMAIN view[x] : view[x][r].identifier # e.identifier,
         NEW put, put = PutIn(view, to, dest, e)
  PROVE  put \in Seq(Seq(R)) /\ OneRowEach(put)
<1>1. \A x \in DOMAIN view : view[x] \in Seq(R) /\ Len(view[x]) \in Nat
                             /\ DOMAIN view[x] = 1..Len(view[x])
  BY ElementOfSeq, LenProperties
<1>. DEFINE ins == InsertAt(view[to], dest, e)
            n == Len(view[to])
<1>2. /\ ins \in Seq(R) /\ Len(ins) = n + 1 /\ n \in Nat /\ dest \in 1..n + 1
      /\ \A j \in 1..n + 1 :
           ins[j] = IF j < dest THEN view[to][j] ELSE IF j = dest THEN e ELSE view[to][j - 1]
  <2>1. view[to] \in Seq(R) /\ n \in Nat
    BY <1>1
  <2>2. ins \in Seq(R) /\ IsWith(ins, view[to], dest, e)
    BY <2>1, InsertedElements
  <2>. QED BY <2>1, <2>2 DEF IsWith
<1>. HIDE DEF ins
<1>3. put \in Seq(Seq(R)) /\ DOMAIN put = DOMAIN view
  <2>1. put = [view EXCEPT ![to] = ins]
    BY DEF PutIn, ins
  <2>. QED BY <1>2, <2>1, ExceptSeq, LenProperties
<1>4. \A x \in DOMAIN view : put[x] = IF x = to THEN ins ELSE view[x]
  BY DEF PutIn, ins
<1>. DEFINE New(x, r) == x = to /\ r = dest
            place(x, r) == IF x = to /\ r > dest THEN r - 1 ELSE r
<1>5. ASSUME NEW x \in DOMAIN view, NEW r \in DOMAIN put[x]
      PROVE  /\ r \in Int
             /\ New(x, r) => put[x][r] = e
             /\ ~New(x, r) => /\ place(x, r) \in DOMAIN view[x]
                              /\ put[x][r] = view[x][place(x, r)]
  <2>1. CASE x = to
    <3>1. r \in 1..n + 1
      BY <1>2, <1>4, <2>1, LenProperties
    <3>2. put[x][r] = IF r < dest THEN view[to][r] ELSE IF r = dest THEN e ELSE view[to][r - 1]
      BY <1>2, <1>4, <2>1, <3>1
    <3>. QED BY <1>1, <1>2, <2>1, <3>1, <3>2
  <2>2. CASE x # to
    BY <1>1, <1>4, <2>2
  <2>. QED BY <2>1, <2>2
<1>6. OneRowEach(put)
  <2>. SUFFICES ASSUME NEW x \in DOMAIN view, NEW y \in DOMAIN view,
                       NEW r \in DOMAIN put[x], NEW q \in DOMAIN put[y],
                       put[x][r].identifier = put[y][q].identifier
                PROVE  x = y /\ r = q
    BY <1>3 DEF OneRowEach
  <2>0. r \in Int /\ q \in Int /\ dest \in Int
    BY <1>2, <1>5
  <2>1. CASE New(x, r)
    <3>1. New(y, q)
      <4>. SUFFICES ASSUME ~New(y, q) PROVE FALSE
        OBVIOUS
      <4>1. place(y, q) \in DOMAIN view[y] /\ put[y][q] = view[y][place(y, q)] /\ put[x][r] = e
        BY <1>5, <2>1
      <4>. HIDE DEF place, New
      <4>. QED BY <4>1
    <3>. QED BY <2>1, <3>1
  <2>2. CASE ~New(x, r)
    <3>1. place(x, r) \in DOMAIN view[x] /\ put[x][r] = view[x][place(x, r)]
      BY <1>5, <2>2
    <3>2. ~New(y, q)
      <4>. SUFFICES ASSUME New(y, q) PROVE FALSE
        OBVIOUS
      <4>1. put[y][q] = e
        BY <1>5
      <4>. HIDE DEF place, New
      <4>. QED BY <3>1, <4>1
    <3>3. place(y, q) \in DOMAIN view[y] /\ put[y][q] = view[y][place(y, q)]
      BY <1>5, <3>2
    <3>4. x = y /\ place(x, r) = place(y, q)
      <4>. HIDE DEF place, New
      <4>. QED BY <3>1, <3>3 DEF OneRowEach
    <3>. QED BY <2>0, <2>2, <3>2, <3>4
  <2>. QED BY <2>1, <2>2
<1>. QED BY <1>3, <1>6

LEMMA MovedRowPresents ==
  ASSUME NEW d, NEW view, Presents(view, d),
         NEW from \in DOMAIN view, NEW to \in DOMAIN view, NEW row \in DOMAIN view[from],
         NEW dest \in 1..Len(view[to]) + 1,
         dest =< Len(view[to]) + (IF from = to THEN 0 ELSE 1)
  PROVE  Presents(MovedRow(view, from, row, to, dest), d)
<1>. DEFINE R == RowsOf(Values(d))
            removed == TakenOut(view, from, row)
            e == view[from][row]
            put == PutIn(removed, to, dest, e)
<1>1. view \in Seq(Seq(R)) /\ OneRowEach(view)
  BY DEF Presents
<1>. HIDE DEF R
<1>2. view[from] \in Seq(R) /\ Len(view[to]) \in Nat /\ e \in R
  <2>1. view[from] \in Seq(R) /\ view[to] \in Seq(R)
    BY <1>1, ElementOfSeq, LenProperties
  <2>. QED BY <2>1, ElementOfSeq, LenProperties
<1>3. /\ removed \in Seq(Seq(R)) /\ DOMAIN removed = DOMAIN view
      /\ Len(removed[to]) = Len(view[to]) - (IF to = from THEN 1 ELSE 0)
      /\ OneRowEach(removed)
      /\ \A x \in DOMAIN removed : \A r \in DOMAIN removed[x] : removed[x][r].identifier # e.identifier
  <2>1. removed = TakenOut(view, from, row)
    OBVIOUS
  <2>. HIDE DEF removed
  <2>2. /\ removed \in Seq(Seq(R)) /\ DOMAIN removed = DOMAIN view
        /\ Len(removed[from]) = Len(view[from]) - 1
        /\ \A x \in DOMAIN view \ {from} : removed[x] = view[x]
        /\ OneRowEach(removed)
        /\ \A x \in DOMAIN removed : \A r \in DOMAIN removed[x] :
             removed[x][r].identifier # view[from][row].identifier
    <3>1. from \in DOMAIN view /\ row \in DOMAIN view[from]
      OBVIOUS
    <3>2. IsTakenOut(removed, view, from, row, R)
      BY ONLY <1>1, <2>1, <3>1, RowTakenOut
    <3>. QED BY ONLY <3>2 DEF IsTakenOut
  <2>3. Len(removed[to]) = Len(view[to]) - (IF to = from THEN 1 ELSE 0)
    <3>1. CASE to = from
      BY <2>2, <3>1
    <3>2. CASE to # from
      <4>1. removed[to] = view[to]
        BY <2>2, <3>2
      <4>. QED BY <1>2, <3>2, <4>1
    <3>. QED BY <3>1, <3>2
  <2>4. \A x \in DOMAIN removed : \A r \in DOMAIN removed[x] : removed[x][r].identifier # e.identifier
    BY <2>2
  <2>. QED BY <2>2, <2>3, <2>4
<1>4. dest \in 1..Len(removed[to]) + 1
  <2>. HIDE DEF removed, e
  <2>. DEFINE n == Len(removed[to])
              m == Len(view[to])
  <2>1. n = m - (IF to = from THEN 1 ELSE 0)
    BY <1>3
  <2>2. m \in Nat /\ dest \in 1..m + 1
    BY <1>2
  <2>3. dest =< m + (IF from = to THEN 0 ELSE 1)
    OBVIOUS
  <2>. HIDE DEF n, m
  <2>5. dest \in 1..n + 1
    <3>1. CASE from = to
      <4>1. n = m - 1 /\ dest =< m
        BY <2>1, <2>2, <2>3, <3>1
      <4>. QED BY <2>2, <4>1
    <3>2. CASE from # to
      <4>1. n = m
        BY <2>1, <2>2, <3>2
      <4>. QED BY <2>2, <4>1
    <3>. QED BY <3>1, <3>2
  <2>. QED BY <2>5 DEF n
<1>. HIDE DEF removed, e
<1>5. put \in Seq(Seq(R)) /\ OneRowEach(put)
  <2>1. put = PutIn(removed, to, dest, e)
    OBVIOUS
  <2>. HIDE DEF put
  <2>. QED BY <1>2, <1>3, <1>4, <2>1, RowPutIn
<1>. QED BY <1>5 DEF MovedRow, TakenOut, PutIn, Presents, R, removed, e

(* A list of items becomes a dictionary of tasks.                          *)
LEMMA ItemsBecomeTasks ==
  ASSUME NEW list \in ItemList, NEW date \in Int
  PROVE  Transformed(list, date) \in Dictionary
<1>1. ASSUME NEW item \in Item PROVE transform(item, date) \in Task \cup {NoTask}
  BY ItemsAssumption DEF transform, Item, Task
<1>2. transform(NoTask, date) = NoTask
  BY DEF transform
<1>3. ASSUME NEW k \in Keys PROVE transform(list[k], date) \in Task \cup {NoTask}
  BY <1>1, <1>2 DEF ItemList
<1>. QED BY <1>3 DEF Transformed, Dictionary

IsAnswer(c) == c.op \in {"retrieved", "listed", "updated", "deleted"}

(* What a call carries.                                                    *)
LEMMA CallParts ==
  ASSUME NEW c \in Call
  PROVE  /\ c.tab \in Tabs
         /\ c.op \in {"batchUpdate", "updated"} => c.tasks \in Seq(Task)
         /\ c.op \in {"delete", "deleted"} => c.id \in Keys
         /\ c.op = "create" => c.task \in Task
         /\ c.op = "createItem" => c.item \in Item
         /\ c.op = "retrieved" => c.held \in Dictionary
         /\ c.op = "listed" => c.list \in ItemList
<1>1. CASE c \in [op : {"retrieve"}, tab : Tabs]
  BY <1>1
<1>2. CASE c \in [op : {"batchUpdate", "updated"}, tab : Tabs, tasks : Seq(Task)]
  BY <1>2
<1>3. CASE c \in [op : {"delete", "deleted"}, tab : Tabs, id : Keys]
  BY <1>3
<1>4. CASE c \in [op : {"create"}, tab : Tabs, task : Task]
  BY <1>4
<1>5. CASE c \in [op : {"createItem"}, tab : Tabs, item : Item]
  BY <1>5
<1>6. CASE c \in [op : {"retrieved"}, tab : Tabs, held : Dictionary]
  BY <1>6
<1>7. CASE c \in [op : {"listed"}, tab : Tabs, list : ItemList, publish : BOOLEAN]
  BY <1>7
<1>. QED BY <1>1, <1>2, <1>3, <1>4, <1>5, <1>6, <1>7 DEF Call

LEMMA CallsMade ==
  ASSUME NEW t \in Tabs
  PROVE  /\ RetrieveCall(t) \in Call
         /\ \A tasks \in Seq(Task) : BatchCall(t, tasks) \in Call /\ UpdatedAnswer(t, tasks) \in Call
         /\ \A id \in Keys : DeleteCall(t, id) \in Call /\ DeletedAnswer(t, id) \in Call
         /\ \A task \in Task : CreateCall(t, task) \in Call
         /\ \A item \in Item : InputCall(t, item) \in Call
         /\ \A held \in Dictionary : RetrievedAnswer(t, held) \in Call
         /\ \A list \in ItemList, publish \in BOOLEAN : ListedAnswer(t, list, publish) \in Call
<1>1. RetrieveCall(t) \in [op : {"retrieve"}, tab : Tabs]
  BY DEF RetrieveCall
<1>2. \A tasks \in Seq(Task) :
        /\ BatchCall(t, tasks) \in [op : {"batchUpdate", "updated"}, tab : Tabs, tasks : Seq(Task)]
        /\ UpdatedAnswer(t, tasks) \in [op : {"batchUpdate", "updated"}, tab : Tabs, tasks : Seq(Task)]
  BY DEF BatchCall, UpdatedAnswer
<1>3. \A id \in Keys :
        /\ DeleteCall(t, id) \in [op : {"delete", "deleted"}, tab : Tabs, id : Keys]
        /\ DeletedAnswer(t, id) \in [op : {"delete", "deleted"}, tab : Tabs, id : Keys]
  BY DEF DeleteCall, DeletedAnswer
<1>4. \A task \in Task : CreateCall(t, task) \in [op : {"create"}, tab : Tabs, task : Task]
  BY DEF CreateCall
<1>5. \A item \in Item : InputCall(t, item) \in [op : {"createItem"}, tab : Tabs, item : Item]
  BY DEF InputCall
<1>6. \A held \in Dictionary :
        RetrievedAnswer(t, held) \in [op : {"retrieved"}, tab : Tabs, held : Dictionary]
  BY DEF RetrievedAnswer
<1>7. \A list \in ItemList, publish \in BOOLEAN :
        ListedAnswer(t, list, publish)
          \in [op : {"listed"}, tab : Tabs, list : ItemList, publish : BOOLEAN]
  BY DEF ListedAnswer
<1>. QED BY <1>1, <1>2, <1>3, <1>4, <1>5, <1>6, <1>7, Zenon DEF Call

(* A callback leaves the screen with what it was given.                    *)
LEMMA CallbackOnScreen ==
  ASSUME OnScreen, now \in Nat, NEW t \in Tabs
  PROVE  /\ \A held \in Dictionary : didFetchTasks(t, held) => OnScreen'
         /\ \A tasks \in Seq(Task) : didMoveTask(t, tasks) => OnScreen'
         /\ \A id \in Keys : didMoveTaskToTrash(t, id) => OnScreen'
<1>0. keyedTasks[t] \in Dictionary /\ Keyed(keyedTasks[t])
  BY DEF OnScreen, HeldByKey
<1>1. ASSUME NEW held \in Dictionary, didFetchTasks(t, held) PROVE OnScreen'
  BY <1>1, RekeyedIsTyped, RekeyedIsKeyed, SetOnScreen DEF didFetchTasks
<1>2. ASSUME NEW tasks \in Seq(Task), didMoveTask(t, tasks) PROVE OnScreen'
  <2>. DEFINE d == Merge(keyedTasks[t], ToKeyedDictionary(tasks))
  <2>1. d \in Dictionary /\ Keyed(d)
    BY <1>0, KeyedArrayIsTyped, LastTaskHasId, MergeIsTyped, MergeIsKeyed
  <2>. QED BY <1>2, <2>1, SetOnScreen DEF didMoveTask
<1>3. ASSUME NEW id \in Keys, didMoveTaskToTrash(t, id) PROVE OnScreen'
  <2>. DEFINE d == [keyedTasks[t] EXCEPT ![id] = NoTask]
  <2>1. d \in Dictionary /\ Keyed(d)
    BY <1>0 DEF Dictionary, Keyed
  <2>. QED BY <1>3, <2>1, SetOnScreen DEF didMoveTaskToTrash
<1>. QED BY <1>1, <1>2, <1>3

(* What a service holds stays a dictionary.                                *)
LEMMA ServiceHolds ==
  ASSUME store \in [Holders -> Dictionary], NEW s \in Holders
  PROVE  /\ \A tasks \in Seq(Task) : HoldUpdated(s, tasks) => store' \in [Holders -> Dictionary]
         /\ \A id \in Keys : HoldWithout(s, id) => store' \in [Holders -> Dictionary]
         /\ \A k, id \in Keys, task \in Task :
              Hold(s, [store[s] EXCEPT ![k] = [task EXCEPT !.id = id]])
              => store' \in [Holders -> Dictionary]
<1>1. ASSUME NEW d \in Dictionary, Hold(s, d) PROVE store' \in [Holders -> Dictionary]
  BY <1>1 DEF Hold
<1>2. ASSUME NEW tasks \in Seq(Task), HoldUpdated(s, tasks) PROVE store' \in [Holders -> Dictionary]
  BY <1>1, <1>2, KeyedArrayIsTyped, MergeIsTyped DEF HoldUpdated
<1>3. ASSUME NEW id \in Keys, HoldWithout(s, id) PROVE store' \in [Holders -> Dictionary]
  <2>1. [store[s] EXCEPT ![id] = NoTask] \in Dictionary
    BY DEF Dictionary
  <2>. QED BY <1>1, <1>3, <2>1 DEF HoldWithout
<1>4. ASSUME NEW k \in Keys, NEW id \in Keys, NEW task \in Task,
             Hold(s, [store[s] EXCEPT ![k] = [task EXCEPT !.id = id]])
      PROVE  store' \in [Holders -> Dictionary]
  <2>1. [task EXCEPT !.id = id] \in Task
    BY DEF Task
  <2>2. [store[s] EXCEPT ![k] = [task EXCEPT !.id = id]] \in Dictionary
    BY <2>1 DEF Dictionary
  <2>. QED BY <1>1, <1>4, <2>2
<1>. QED BY <1>2, <1>3, <1>4

LEMMA MemoryCallStep ==
  ASSUME IInv, NEW t \in Tabs, NEW c \in Call, NEW view, Presents(view, keyedTasks[t]),
         MemoryCall(t, c, view), visible' \in Tabs \cup {NoTab}, UNCHANGED now
  PROVE  IInv'
<1>0. Backstage /\ OnScreen /\ now \in Nat /\ store \in [Holders -> Dictionary]
      /\ "memory" \in Holders /\ store["memory"] \in Dictionary
      /\ UNCHANGED <<items, calls, cache>>
  BY DEF IInv, Backstage, Holders, MemoryCall
<1>1. Show(t, view) => OnScreen'
  BY <1>0, ShowOnScreen
<1>2. CASE memoryRetrieve(t, c)
  BY <1>0, <1>2, CallbackOnScreen DEF memoryRetrieve, IInv, Backstage
<1>3. CASE memoryBatchUpdate(t, c)
  <2>1. c.tasks \in Seq(Task)
    BY <1>3, CallParts DEF memoryBatchUpdate
  <2>2. store' \in [Holders -> Dictionary] /\ OnScreen' /\ UNCHANGED unused
    BY <1>0, <1>3, <2>1, ServiceHolds, CallbackOnScreen DEF memoryBatchUpdate
  <2>. QED BY <1>0, <2>2 DEF IInv, Backstage
<1>4. CASE memoryDelete(t, c, view)
  <2>1. c.id \in Keys
    BY <1>4, CallParts DEF memoryDelete
  <2>2. store' \in [Holders -> Dictionary] /\ OnScreen' /\ UNCHANGED unused
    BY <1>0, <1>1, <1>4, <2>1, ServiceHolds, CallbackOnScreen DEF memoryDelete
  <2>. QED BY <1>0, <2>2 DEF IInv, Backstage
<1>5. CASE memoryCreate(t, c, view)
  <2>1. c.task \in Task /\ c.task.id \in Keys
    BY <1>5, CallParts DEF memoryCreate, Task
  <2>2. PICK id \in unused :
          /\ unused' = unused \ {id}
          /\ Hold("memory", [store["memory"] EXCEPT ![c.task.id] = [c.task EXCEPT !.id = id]])
    BY <1>5 DEF memoryCreate
  <2>3. id \in Keys /\ unused' \subseteq Ids
    BY <1>0, <2>2 DEF Backstage, Keys
  <2>4. store' \in [Holders -> Dictionary] /\ OnScreen'
    BY <1>0, <1>1, <1>5, <2>1, <2>2, <2>3, ServiceHolds DEF memoryCreate
  <2>. QED BY <1>0, <2>3, <2>4 DEF IInv, Backstage
<1>. QED BY <1>2, <1>3, <1>4, <1>5 DEF MemoryCall

LEMMA CallStep ==
  ASSUME IInv, NEW t \in Tabs, NEW c \in Call, c.tab = t,
         NEW view, Presents(view, keyedTasks[t]),
         CallService(t, c, view) \/ Ignored(t, view),
         visible' \in Tabs \cup {NoTab}, UNCHANGED now
  PROVE  IInv'
<1>0. Backstage /\ OnScreen
  BY DEF IInv
<1>1. CASE Ignored(t, view)
  BY <1>0, <1>1, ShowOnScreen DEF Ignored, IInv, Backstage
<1>2. ASSUME NEW d \in Call, LaterCall(t, d, view) PROVE IInv'
  <2>1. calls' \in Seq(Call)
    BY <1>0, <1>2 DEF LaterCall, Enqueue, Backstage
  <2>. QED BY <1>0, <1>2, <2>1, ShowOnScreen DEF LaterCall, IInv, Backstage
<1>3. CASE AwsCall(t, c, view)
  <2>1. CASE awsRetrieve(t, c, view)
    <3>1. cache # NotCached => ListedAnswer(t, cache, FALSE) \in Call
      BY <1>0, CallsMade DEF Backstage
    <3>. QED BY <1>2, <2>1, <3>1 DEF awsRetrieve
  <2>2. CASE awsCreate(t, c, view)
    <3>1. ToInput(c.task) \in Item
      BY <2>2, CallParts DEF awsCreate, ToInput, Task, Item
    <3>2. InputCall(t, ToInput(c.task)) \in Call
      BY <3>1, CallsMade
    <3>. QED BY <1>2, <2>2, <3>2 DEF awsCreate
  <2>3. CASE awsIgnore(t, c, view)
    BY <1>0, <2>3, ShowOnScreen DEF awsIgnore, IInv, Backstage
  <2>. QED BY <1>3, <2>1, <2>2, <2>3 DEF AwsCall
<1>. QED
  BY <1>1, <1>2, <1>3, MemoryCallStep, TabsAssumption DEF CallService, Services

(* A user's step at tab t: one call to its service, or none.               *)
UserCall(t) ==
  \E c \in Call :
    \E view :
      /\ c.tab = t /\ ~IsAnswer(c)
      /\ Presents(view, keyedTasks[t])
      /\ CallService(t, c, view) \/ Ignored(t, view)
      /\ visible' \in Tabs \cup {NoTab}
      /\ UNCHANGED now

LEMMA UserCallStep ==
  ASSUME IInv, NEW t \in Tabs, UserCall(t)
  PROVE  IInv'
BY CallStep DEF UserCall

LEMMA IgnoredIsUserCall ==
  ASSUME IInv, NEW t \in Tabs, NEW view, Presents(view, keyedTasks[t]), Ignored(t, view),
         visible' \in Tabs \cup {NoTab}, UNCHANGED now
  PROVE  UserCall(t)
<1>1. RetrieveCall(t) \in Call /\ RetrieveCall(t).tab = t /\ ~IsAnswer(RetrieveCall(t))
  BY CallsMade DEF RetrieveCall, IsAnswer
<1>. QED BY <1>1 DEF UserCall

(* The identifier of a row leads to the task it stands for.                *)
LEMMA RowHeld ==
  ASSUME NEW d \in Dictionary, Keyed(d), NEW view, Presents(view, d),
         NEW x \in DOMAIN view, NEW r \in DOMAIN view[x]
  PROVE  /\ view[x][r] \in Row
         /\ d[view[x][r].identifier] # NoTask
         /\ d[view[x][r].identifier].id = view[x][r].identifier
<1>. DEFINE R == RowsOf(Values(d))
<1>1. view \in Seq(Seq(R))
  BY DEF Presents
<1>. HIDE DEF R
<1>2. view[x] \in Seq(R)
  BY <1>1, ElementOfSeq, LenProperties
<1>3. view[x][r] \in R
  BY <1>2, ElementOfSeq, LenProperties
<1>4. PICK u \in Values(d) : view[x][r].identifier = u.id
  BY <1>3 DEF R, RowsOf
<1>5. u \in Task /\ d[u.id] = u /\ u # NoTask
  BY ValuesAreTasks DEF Values, Keyed
<1>. QED BY <1>3, <1>4, <1>5 DEF R, RowsOf, Row, Task

LEMMA MoveIntoIsUserCall ==
  ASSUME IInv, NEW t \in Tabs, NEW id \in Keys, NEW list \in SUBSET Values(keyedTasks[t]),
         NEW position, IsPosition(position), NEW status \in {"todo", "wip", "done"},
         NEW date \in Int, NEW view, Presents(view, keyedTasks[t]),
         MoveInto(t, id, list, position, status, date, view),
         visible' \in Tabs \cup {NoTab}, UNCHANGED now
  PROVE  UserCall(t)
<1>. DEFINE d == keyedTasks[t]
            task == d[id]
            updated == withStatus(task, status, date)
<1>1. d \in Dictionary
  BY DEF IInv, OnScreen
<1>2. CASE task = NoTask
  BY <1>2, IgnoredIsUserCall DEF MoveInto
<1>3. CASE task # NoTask
  <2>1. PICK tasks \in ReorderTasks(list, task, position, updated, d) :
          CallService(t, BatchCall(t, tasks), view)
    BY <1>3 DEF MoveInto
  <2>2. updated \in Task
    <3>1. task \in Task
      BY <1>1, <1>3 DEF Dictionary
    <3>. QED BY <3>1 DEF withStatus, Task
  <2>3. list \in SUBSET Values(d)
    OBVIOUS
  <2>. HIDE DEF d, updated, task
  <2>4. tasks \in Seq(Task)
    BY <1>1, <2>1, <2>2, <2>3, ReorderElement
  <2>5. /\ BatchCall(t, tasks) \in Call /\ BatchCall(t, tasks).tab = t
        /\ ~IsAnswer(BatchCall(t, tasks))
    BY <2>4, CallsMade DEF BatchCall, IsAnswer
  <2>. QED BY <2>1, <2>5 DEF UserCall
<1>. QED BY <1>2, <1>3

LEMMA MoveIsUserCall ==
  ASSUME IInv, NEW t \in Tabs, NEW id \in Keys, NEW position, IsPosition(position),
         NEW view, Presents(view, keyedTasks[t]),
         visible' \in Tabs \cup {NoTab}, UNCHANGED now
  PROVE  /\ moveTaskToToday(t, id, position, view)     => UserCall(t)
         /\ moveTaskToYesterday(t, id, position, view) => UserCall(t)
         /\ moveTaskToDone(t, id, position, view)      => UserCall(t)
         /\ moveTaskToTodo(t, id, position, view)      => UserCall(t)
         /\ moveTaskToTrash(t, id, view)               => UserCall(t)
<1>. DEFINE tasks == Values(keyedTasks[t])
<1>1. now \in Int /\ now - DayLength \in Int
  BY DayAssumption DEF IInv, Backstage
<1>2. /\ todayTasks(tasks, now) \in SUBSET tasks /\ yesterdayTasks(tasks, now) \in SUBSET tasks
      /\ doneTasks(tasks) \in SUBSET tasks /\ todoTasks(tasks) \in SUBSET tasks
  BY DEF todayTasks, yesterdayTasks, doneTasks, todoTasks
<1>. HIDE DEF tasks
<1>3. ASSUME moveTaskToToday(t, id, position, view) PROVE UserCall(t)
  BY <1>1, <1>2, <1>3, MoveIntoIsUserCall DEF moveTaskToToday, tasks
<1>4. ASSUME moveTaskToYesterday(t, id, position, view) PROVE UserCall(t)
  BY <1>1, <1>2, <1>4, MoveIntoIsUserCall DEF moveTaskToYesterday, tasks
<1>5. ASSUME moveTaskToDone(t, id, position, view) PROVE UserCall(t)
  BY <1>1, <1>2, <1>5, MoveIntoIsUserCall DEF moveTaskToDone, tasks
<1>6. ASSUME moveTaskToTodo(t, id, position, view) PROVE UserCall(t)
  BY <1>1, <1>2, <1>6, MoveIntoIsUserCall DEF moveTaskToTodo, tasks
<1>7. ASSUME moveTaskToTrash(t, id, view) PROVE UserCall(t)
  <2>1. CASE keyedTasks[t][id] = NoTask
    BY <1>7, <2>1, IgnoredIsUserCall DEF moveTaskToTrash
  <2>2. CASE keyedTasks[t][id] # NoTask
    <3>1. keyedTasks[t][id] \in Task
      BY <2>2 DEF IInv, OnScreen, Dictionary
    <3>2. keyedTasks[t][id].id \in Keys
      BY <3>1 DEF Task
    <3>3. /\ DeleteCall(t, keyedTasks[t][id].id) \in Call
          /\ DeleteCall(t, keyedTasks[t][id].id).tab = t
          /\ ~IsAnswer(DeleteCall(t, keyedTasks[t][id].id))
      BY <3>2, CallsMade DEF DeleteCall, IsAnswer
    <3>. QED BY <1>7, <2>2, <3>3 DEF moveTaskToTrash, UserCall
  <2>. QED BY <2>1, <2>2
<1>. QED BY <1>3, <1>4, <1>5, <1>6, <1>7

LEMMA MoveRowIsUserCall ==
  ASSUME IInv, NEW t \in Tabs, NEW from \in DOMAIN sections[t], NEW to \in DOMAIN sections[t],
         NEW row \in DOMAIN sections[t][from], NEW dest \in 1..Len(sections[t][to]) + 1,
         MoveRow(t, from, row, to, dest)
  PROVE  UserCall(t)
<1>. DEFINE id == sections[t][from][row].identifier
            view == MovedRow(sections[t], from, row, to, dest)
            position == TargetPosition(view[to], dest)
<1>1. Presents(sections[t], keyedTasks[t]) /\ keyedTasks[t] \in Dictionary /\ Keyed(keyedTasks[t])
  BY DEF IInv, OnScreen, HeldByKey
<1>2. /\ dest =< Len(sections[t][to]) + (IF from = to THEN 0 ELSE 1)
      /\ visible' \in Tabs \cup {NoTab} /\ UNCHANGED now
      /\ didMoveRow(t, id, to, dest, view)
  BY DEF MoveRow, IInv, Backstage
<1>3. Presents(view, keyedTasks[t])
  BY <1>1, <1>2, MovedRowPresents
<1>4. id \in Keys
  BY <1>1, RowHeld DEF Row
<1>5. IsPosition(position)
  BY DEF IsPosition, TargetPosition, FirstPosition, LastPosition, Between
<1>6. \/ moveTaskToYesterday(t, id, position, view)
      \/ moveTaskToToday(t, id, position, view)
      \/ Ignored(t, view)
  BY <1>2 DEF didMoveRow
<1>. HIDE DEF id, view, position
<1>. QED BY <1>2, <1>3, <1>4, <1>5, <1>6, MoveIsUserCall, IgnoredIsUserCall

LEMMA ActionIsUserCall ==
  ASSUME IInv, NEW t \in Tabs, NEW section \in DOMAIN sections[t],
         NEW row \in DOMAIN sections[t][section], NEW action \in Action,
         PerformAction(t, section, row, action)
  PROVE  UserCall(t)
<1>. DEFINE rows == sections[t][section]
            id == rows[row].identifier
            position == TargetPosition(rows, row)
            view == sections[t]
<1>1. Presents(view, keyedTasks[t]) /\ keyedTasks[t] \in Dictionary /\ Keyed(keyedTasks[t])
  BY DEF IInv, OnScreen, HeldByKey
<1>2. visible' \in Tabs \cup {NoTab} /\ UNCHANGED now
  BY DEF PerformAction, IInv, Backstage
<1>3. id \in Keys
  BY <1>1, RowHeld DEF Row
<1>4. IsPosition(position) /\ IsPosition(FirstPosition)
  BY DEF IsPosition, TargetPosition, FirstPosition, LastPosition, Between
<1>5. \/ \E p \in {position, FirstPosition} : \/ moveTaskToToday(t, id, p, view)
                                              \/ moveTaskToDone(t, id, p, view)
                                              \/ moveTaskToTodo(t, id, p, view)
      \/ moveTaskToTrash(t, id, view)
      \/ Ignored(t, view)
  <2>1. CASE t = "dashboard"
    <3>1. dashboardAction(t, id, action, position)
      BY <2>1 DEF PerformAction
    <3>. HIDE DEF id, position
    <3>. QED BY <3>1 DEF dashboardAction, Action
  <2>2. CASE t = "todo"
    <3>1. todoAction(t, id, action, position)
      BY <2>2 DEF PerformAction
    <3>. HIDE DEF id, position
    <3>. QED BY <3>1 DEF todoAction, Action
  <2>3. CASE t = "done"
    <3>1. doneAction(t, id, action)
      BY <2>3 DEF PerformAction
    <3>. HIDE DEF id, position
    <3>. QED BY <3>1 DEF doneAction, Action
  <2>. QED BY <2>1, <2>2, <2>3, TabsAssumption
<1>. HIDE DEF id, view, position
<1>6. ASSUME NEW p \in {position, FirstPosition},
             \/ moveTaskToToday(t, id, p, view)
             \/ moveTaskToDone(t, id, p, view)
             \/ moveTaskToTodo(t, id, p, view)
      PROVE  UserCall(t)
  <2>1. IsPosition(p)
    BY <1>4
  <2>. QED BY <1>1, <1>2, <1>3, <1>6, <2>1, MoveIsUserCall
<1>. QED BY <1>1, <1>2, <1>3, <1>4, <1>5, <1>6, MoveIsUserCall, IgnoredIsUserCall

LEMMA UserStep ==
  ASSUME IInv, NEW t \in Tabs,
         \/ SelectTab(t) \/ AddTask(t)
         \/ \E from, to \in DOMAIN sections[t] :
              \E row \in DOMAIN sections[t][from], dest \in 1..Len(sections[t][to]) + 1 :
                MoveRow(t, from, row, to, dest)
         \/ \E section \in DOMAIN sections[t] :
              \E row \in DOMAIN sections[t][section], action \in Action :
                PerformAction(t, section, row, action)
  PROVE  UserCall(t)
<1>0. Presents(sections[t], keyedTasks[t]) /\ visible \in Tabs \cup {NoTab} /\ now \in Nat
  BY DEF IInv, OnScreen, Backstage
<1>1. CASE SelectTab(t)
  <2>1. RetrieveCall(t) \in Call /\ RetrieveCall(t).tab = t /\ ~IsAnswer(RetrieveCall(t))
    BY CallsMade DEF RetrieveCall, IsAnswer
  <2>. QED BY <1>0, <1>1, <2>1 DEF SelectTab, UserCall
<1>2. CASE AddTask(t)
  <2>. DEFINE task == [id |-> EmptyId, status |-> "wip", date |-> now, order |-> 0]
              c == CreateCall(t, task)
  <2>1. task \in Task
    BY <1>0 DEF Task, Keys
  <2>2. c \in Call /\ c.tab = t /\ ~IsAnswer(c)
    BY <2>1, CallsMade DEF CreateCall, IsAnswer
  <2>3. CallService(t, c, sections[t]) /\ UNCHANGED <<visible, now>>
    BY <1>2 DEF AddTask
  <2>. HIDE DEF c
  <2>. QED BY <1>0, <2>2, <2>3 DEF UserCall
<1>. QED BY <1>1, <1>2, MoveRowIsUserCall, ActionIsUserCall

LEMMA Replaced ==
  ASSUME NEW R, NEW s \in Seq(R), NEW i \in DOMAIN s, NEW e \in R
  PROVE  ReplaceAt(s, i, e) \in Seq(R)
<1>1. ReplaceAt(s, i, e) = [s EXCEPT ![i] = e]
  BY DEF ReplaceAt
<1>. QED BY <1>1, ExceptSeq, LenProperties

(* What a later answer does to the screens and the services.               *)
LEMMA LaterOnScreen ==
  ASSUME IInv, NEW i \in DOMAIN calls, CarryOut(i) \/ Deliver(i) \/ Lose(i)
  PROVE  IInv'
<1>. DEFINE c == calls[i]
            s == ServiceOf[c.tab]
<1>1. c \in Call /\ calls \in Seq(Call) /\ i \in DOMAIN calls
  BY ElementOfSeq, LenProperties DEF IInv, Backstage
<1>2. c.tab \in Tabs /\ s \in Services
  BY <1>1, CallParts, TabsAssumption
<1>3. Forget(i) => calls' \in Seq(Call)
  BY <1>1, RemovedElements DEF Forget
<1>4. ASSUME NEW answer \in Call, AnswerWith(i, answer) PROVE calls' \in Seq(Call)
  BY <1>1, <1>4, Replaced DEF AnswerWith
<1>5. /\ store \in [Holders -> Dictionary] /\ now \in Nat
      /\ items \in ItemList /\ cache \in ItemList \cup {NotCached} /\ unused \subseteq Ids
      /\ OnScreen
  BY DEF IInv, Backstage
<1>6. UNCHANGED <<keyedTasks, sections>> => OnScreen'
  BY <1>5 DEF OnScreen, HeldByKey
<1>7. ASSUME calls' \in Seq(Call), store' \in [Holders -> Dictionary], items' \in ItemList,
             cache' \in ItemList \cup {NotCached}, unused' \subseteq Ids,
             UNCHANGED <<visible, now>>, OnScreen'
      PROVE  IInv'
  BY <1>7 DEF IInv, Backstage
<1>8. CASE CarryOut(i)
  <2>1. UNCHANGED <<cache, visible, keyedTasks, sections, now>>
    BY <1>8 DEF CarryOut
  <2>0. \/ s \in Holders
        \/ \A d : Hold(s, d) => store' = store
    BY <1>2, <1>5 DEF Hold, Services, Holders
  <2>2. /\ store' \in [Holders -> Dictionary] /\ items' \in ItemList /\ unused' \subseteq Ids
        /\ calls' \in Seq(Call)
    <3>1. CASE /\ c.op = "retrieve"
               /\ AnswerWith(i, IF s = "aws" THEN ListedAnswer(c.tab, items, TRUE)
                                ELSE RetrievedAnswer(c.tab, store[s]))
               /\ UNCHANGED <<store, items, unused>>
      <4>1. s # "aws" => store[s] \in Dictionary
        BY <1>2, <1>5 DEF Services, Holders
      <4>2. /\ ListedAnswer(c.tab, items, TRUE) \in Call
            /\ s # "aws" => RetrievedAnswer(c.tab, store[s]) \in Call
        BY <1>2, <1>5, <4>1, CallsMade
      <4>. QED BY <1>4, <1>5, <3>1, <4>2
    <3>2. CASE /\ c.op = "batchUpdate"
               /\ HoldUpdated(s, c.tasks)
               /\ AnswerWith(i, UpdatedAnswer(c.tab, c.tasks))
               /\ UNCHANGED <<items, unused>>
      <4>1. c.tasks \in Seq(Task)
        BY <1>1, <3>2, CallParts
      <4>2. UpdatedAnswer(c.tab, c.tasks) \in Call
        BY <1>2, <4>1, CallsMade
      <4>3. store' \in [Holders -> Dictionary]
        BY <1>5, <2>0, <3>2, <4>1, ServiceHolds DEF HoldUpdated
      <4>. QED BY <1>4, <1>5, <3>2, <4>2, <4>3
    <3>3. CASE /\ c.op = "delete"
               /\ HoldWithout(s, c.id)
               /\ AnswerWith(i, DeletedAnswer(c.tab, c.id))
               /\ UNCHANGED <<items, unused>>
      <4>1. c.id \in Keys
        BY <1>1, <3>3, CallParts
      <4>2. DeletedAnswer(c.tab, c.id) \in Call
        BY <1>2, <4>1, CallsMade
      <4>3. store' \in [Holders -> Dictionary]
        BY <1>5, <2>0, <3>3, <4>1, ServiceHolds DEF HoldWithout
      <4>. QED BY <1>4, <1>5, <3>3, <4>2, <4>3
    <3>4. CASE /\ c.op = "create"
               /\ \E id \in unused :
                    /\ unused' = unused \ {id}
                    /\ Hold(s, [store[s] EXCEPT ![id] = [c.task EXCEPT !.id = id]])
               /\ Forget(i)
               /\ UNCHANGED items
      <4>1. c.task \in Task
        BY <1>1, <3>4, CallParts
      <4>2. PICK id \in unused :
              /\ unused' = unused \ {id}
              /\ Hold(s, [store[s] EXCEPT ![id] = [c.task EXCEPT !.id = id]])
        BY <3>4
      <4>3. id \in Keys /\ unused' \subseteq Ids
        BY <1>5, <4>2 DEF Keys
      <4>4. store' \in [Holders -> Dictionary]
        BY <1>5, <2>0, <4>1, <4>2, <4>3, ServiceHolds
      <4>. QED BY <1>3, <1>5, <3>4, <4>3, <4>4
    <3>5. CASE /\ c.op = "createItem"
               /\ \E id \in unused :
                    /\ unused' = unused \ {id}
                    /\ items' = [items EXCEPT ![id] = [c.item EXCEPT !.id = id]]
               /\ Forget(i)
               /\ UNCHANGED store
      <4>1. c.item \in Item
        BY <1>1, <3>5, CallParts
      <4>2. PICK id \in unused :
              /\ unused' = unused \ {id}
              /\ items' = [items EXCEPT ![id] = [c.item EXCEPT !.id = id]]
        BY <3>5
      <4>3. id \in Keys /\ unused' \subseteq Ids
        BY <1>5, <4>2 DEF Keys
      <4>4. [c.item EXCEPT !.id = id] \in Item
        BY <4>1, <4>3 DEF Item
      <4>5. items' \in ItemList
        BY <1>5, <4>2, <4>3, <4>4 DEF ItemList
      <4>. QED BY <1>3, <1>5, <3>5, <4>3, <4>5
    <3>. QED BY <1>8, <3>1, <3>2, <3>3, <3>4, <3>5 DEF CarryOut
  <2>3. OnScreen'
    BY <1>6, <2>1
  <2>. QED BY <1>5, <1>7, <2>1, <2>2, <2>3
<1>9. CASE Deliver(i)
  <2>1. Forget(i) /\ UNCHANGED <<store, items, unused, visible, now>>
    BY <1>9 DEF Deliver
  <2>2. OnScreen' /\ cache' \in ItemList \cup {NotCached}
    <3>1. CASE c.op = "retrieved" /\ didFetchTasks(c.tab, c.held) /\ UNCHANGED cache
      BY <1>1, <1>2, <1>5, <3>1, CallParts, CallbackOnScreen
    <3>4. CASE c.op = "listed" /\ didFetchTasks(c.tab, Transformed(c.list, now))
               /\ cache' = IF c.publish THEN c.list ELSE cache
      <4>1. c.list \in ItemList
        BY <1>1, <3>4, CallParts
      <4>2. Transformed(c.list, now) \in Dictionary
        BY <1>5, <4>1, ItemsBecomeTasks
      <4>. QED BY <1>2, <1>5, <3>4, <4>1, <4>2, CallbackOnScreen
    <3>2. CASE c.op = "updated" /\ didMoveTask(c.tab, c.tasks) /\ UNCHANGED cache
      BY <1>1, <1>2, <1>5, <3>2, CallParts, CallbackOnScreen
    <3>3. CASE c.op = "deleted" /\ didMoveTaskToTrash(c.tab, c.id) /\ UNCHANGED cache
      BY <1>1, <1>2, <1>5, <3>3, CallParts, CallbackOnScreen
    <3>. QED BY <1>9, <3>1, <3>2, <3>3, <3>4 DEF Deliver
  <2>. QED BY <1>3, <1>5, <1>7, <2>1, <2>2
<1>10. CASE Lose(i)
  BY <1>3, <1>5, <1>6, <1>7, <1>10 DEF Lose
<1>. QED BY <1>8, <1>9, <1>10

LEMMA ScreensInit ==
  ASSUME Init
  PROVE  IInv
<1>1. \A S : <<>> \in Seq(S)
  OBVIOUS
<1>2. \A t \in Tabs : Presents(sections[t], keyedTasks[t])
  BY <1>1 DEF Init, Presents, OneRowEach
<1>3. OnScreen
  BY <1>1, <1>2 DEF Init, OnScreen, HeldByKey, Keyed, EmptyDictionary, Dictionary
<1>4. Backstage
  BY StoreAssumption, ItemsAssumption, BoundAssumption DEF Init, Backstage, Keys
<1>. QED BY <1>3, <1>4 DEF IInv

LEMMA ScreensStep ==
  ASSUME IInv, [Next]_vars
  PROVE  IInv'
<1>1. ASSUME NEW t \in Tabs, UserCall(t) PROVE IInv'
  BY <1>1, UserCallStep
<1>2. ASSUME NEW i \in DOMAIN calls, CarryOut(i) \/ Deliver(i) \/ Lose(i) PROVE IInv'
  BY <1>2, LaterOnScreen
<1>3. CASE Tick
  BY <1>3 DEF Tick, IInv, Backstage, OnScreen, HeldByKey
<1>4. CASE UNCHANGED vars
  BY <1>4 DEF vars, IInv, Backstage, OnScreen, HeldByKey
<1>. QED BY <1>1, <1>2, <1>3, <1>4, UserStep DEF Next

LEMMA ScreensInvariant == Spec => []IInv
<1>1. Init => IInv
  BY ScreensInit
<1>2. IInv /\ [Next]_vars => IInv'
  BY ScreensStep
<1>. QED BY <1>1, <1>2, PTL DEF Spec

(* The state of the screens and of the services keeps its type.            *)
THEOREM WellTyped == Spec => []TypeOK
<1>1. IInv => TypeOK
  BY DEF IInv, Backstage, OnScreen, TypeOK
<1>. QED BY <1>1, ScreensInvariant, PTL

(* Whatever keys the service uses and in whatever order the callbacks run, *)
(* an interactor finds a task under the task's own identifier.             *)
THEOREM HeldUnderOwnId == Spec => []KeyedById
<1>1. IInv => KeyedById
  BY DEF IInv, OnScreen, HeldByKey, Keyed, KeyedById
<1>. QED BY <1>1, ScreensInvariant, PTL

(* Whenever an answer arrives and whatever it brings, every row the user   *)
(* can swipe or drag stands for a task its interactor holds, so that no    *)
(* move falls through the interactor's guard.                              *)
THEOREM EveryRowResolves == Spec => []RowsResolve
<1>1. IInv => RowsResolve
  <2>. SUFFICES ASSUME IInv, NEW t \in Tabs, NEW x \in DOMAIN sections[t],
                       NEW r \in DOMAIN sections[t][x]
                PROVE  keyedTasks[t][sections[t][x][r].identifier] # NoTask
    BY DEF RowsResolve
  <2>1. /\ keyedTasks[t] \in Dictionary /\ Keyed(keyedTasks[t])
        /\ Presents(sections[t], keyedTasks[t])
    BY DEF IInv, OnScreen, HeldByKey
  <2>. QED BY <2>1, RowHeld
<1>. QED BY <1>1, ScreensInvariant, PTL

(* No screen ever lists a task twice, neither through its filters nor      *)
(* through a row moved by the table before the interactor has answered.    *)
THEOREM NoTaskTwice == Spec => []NoDuplicateRows
<1>1. IInv => NoDuplicateRows
  BY DEF IInv, OnScreen, Presents, OneRowEach, NoDuplicateRows
<1>. QED BY <1>1, ScreensInvariant, PTL

-----------------------------------------------------------------------------
(* A row dropped into a section of the dashboard, over any service.        *)

(* The identifier is among the rows of section `to`, and of no other.      *)
OnlyIn(view, to, id) ==
  \A x \in DOMAIN view : (x = to) <=> \E r \in DOMAIN view[x] : view[x][r].identifier = id

LEMMA MovedRowLands ==
  ASSUME NEW d, NEW view, Presents(view, d),
         NEW from \in DOMAIN view, NEW to \in DOMAIN view, NEW row \in DOMAIN view[from],
         NEW dest \in 1..Len(view[to]) + 1,
         dest =< Len(view[to]) + (IF from = to THEN 0 ELSE 1)
  PROVE  OnlyIn(MovedRow(view, from, row, to, dest), to, view[from][row].identifier)
<1>. DEFINE R == RowsOf(Values(d))
            removed == TakenOut(view, from, row)
            e == view[from][row]
            ins == InsertAt(removed[to], dest, e)
            moved == MovedRow(view, from, row, to, dest)
<1>1. view \in Seq(Seq(R)) /\ OneRowEach(view)
  BY DEF Presents
<1>. HIDE DEF R
<1>2. view[to] \in Seq(R) /\ Len(view[to]) \in Nat /\ e \in R
  <2>1. view[from] \in Seq(R) /\ view[to] \in Seq(R)
    BY <1>1, ElementOfSeq, LenProperties
  <2>. QED BY <2>1, ElementOfSeq, LenProperties
<1>3. /\ removed \in Seq(Seq(R)) /\ DOMAIN removed = DOMAIN view
      /\ Len(removed[to]) = Len(view[to]) - (IF to = from THEN 1 ELSE 0)
      /\ \A x \in DOMAIN removed : \A r \in DOMAIN removed[x] : removed[x][r].identifier # e.identifier
  <2>1. removed = TakenOut(view, from, row)
    OBVIOUS
  <2>. HIDE DEF removed
  <2>2. /\ removed \in Seq(Seq(R)) /\ DOMAIN removed = DOMAIN view
        /\ Len(removed[from]) = Len(view[from]) - 1
        /\ \A x \in DOMAIN view \ {from} : removed[x] = view[x]
        /\ \A x \in DOMAIN removed : \A r \in DOMAIN removed[x] :
             removed[x][r].identifier # view[from][row].identifier
    <3>1. from \in DOMAIN view /\ row \in DOMAIN view[from]
      OBVIOUS
    <3>2. IsTakenOut(removed, view, from, row, R)
      BY ONLY <1>1, <2>1, <3>1, RowTakenOut
    <3>. QED BY ONLY <3>2 DEF IsTakenOut
  <2>3. Len(removed[to]) = Len(view[to]) - (IF to = from THEN 1 ELSE 0)
    <3>1. CASE to = from
      BY <2>2, <3>1
    <3>2. CASE to # from
      <4>1. removed[to] = view[to]
        BY <2>2, <3>2
      <4>. QED BY <1>2, <3>2, <4>1
    <3>. QED BY <3>1, <3>2
  <2>4. \A x \in DOMAIN removed : \A r \in DOMAIN removed[x] : removed[x][r].identifier # e.identifier
    BY <2>2
  <2>. QED BY <2>2, <2>3, <2>4
<1>4. removed[to] \in Seq(R) /\ dest \in 1..Len(removed[to]) + 1
  <2>. HIDE DEF removed, e
  <2>. DEFINE n == Len(removed[to])
              m == Len(view[to])
  <2>1. n = m - (IF to = from THEN 1 ELSE 0)
    BY <1>3
  <2>2. m \in Nat /\ dest \in 1..m + 1
    BY <1>2
  <2>3. dest =< m + (IF from = to THEN 0 ELSE 1)
    OBVIOUS
  <2>. HIDE DEF n, m
  <2>5. dest \in 1..n + 1
    <3>1. CASE from = to
      <4>1. n = m - 1 /\ dest =< m
        BY <2>1, <2>2, <2>3, <3>1
      <4>. QED BY <2>2, <4>1
    <3>2. CASE from # to
      <4>1. n = m
        BY <2>1, <2>2, <3>2
      <4>. QED BY <2>2, <4>1
    <3>. QED BY <3>1, <3>2
  <2>6. removed[to] \in Seq(R)
    BY <1>3, ElementOfSeq
  <2>. QED BY <2>5, <2>6 DEF n
<1>5. ins \in Seq(R) /\ IsWith(ins, removed[to], dest, e)
  BY <1>2, <1>4, InsertedElements
<1>6. dest \in DOMAIN ins /\ ins[dest] = e
  BY <1>4, <1>5, LenProperties DEF IsWith
<1>7. moved = [removed EXCEPT ![to] = ins]
  BY DEF MovedRow, TakenOut
<1>. HIDE DEF removed, ins, moved, e
<1>8. OnlyIn(moved, to, e.identifier)
  BY <1>3, <1>6, <1>7 DEF OnlyIn
<1>. QED BY <1>8 DEF moved, e

(* The dashboard's sections show the task `id` of d where its status and   *)
(* its date say.                                                           *)
LEMMA ShownIn ==
  ASSUME NEW d \in Dictionary, Keyed(d), now \in Nat, NEW id \in Keys, d[id] # NoTask,
         NEW shown \in displayTasks("dashboard", d)
  PROVE  /\ d[id].status = "wip" => OnlyIn(shown, 2, id)
         /\ d[id].status = "done" /\ d[id].date = now - DayLength => OnlyIn(shown, 1, id)
<1>. DEFINE Y == yesterdayTasks(Values(d), now)
            T == todayTasks(Values(d), now)
            u == d[id]
<1>1. PICK y \in ToViewModels(Y, actionsForTask), t \in ToViewModels(T, actionsForTask) :
        shown = <<y, t>>
  BY DEF displayTasks
<1>2. Y \in SUBSET Values(d) /\ T \in SUBSET Values(d)
  BY DEF yesterdayTasks, todayTasks
<1>3. IsFiniteSet(Y) /\ IsFiniteSet(T)
  BY <1>2, ValuesAreTasks, FS_Subset
<1>4. u \in Values(d) /\ u.id = id
  BY DEF Values, Keyed
<1>. HIDE DEF u
<1>5. ASSUME u \in Y, u \notin T PROVE OnlyIn(shown, 1, id)
  <2>1. \E r \in DOMAIN y : y[r].identifier = id
    BY <1>3, <1>4, <1>5, EveryTaskHasARow
  <2>2. ASSUME NEW r \in DOMAIN t PROVE t[r].identifier # id
    <3>1. IsSection(t, T, d)
      BY <1>2, RowTables, SectionOfTasks
    <3>2. PICK w \in T : t[r].identifier = w.id
      BY <3>1 DEF IsSection
    <3>. QED BY <1>2, <1>4, <1>5, <3>2, OneValuePerId
  <2>. QED BY <1>1, <2>1, <2>2 DEF OnlyIn
<1>6. ASSUME u \in T, u \notin Y PROVE OnlyIn(shown, 2, id)
  <2>1. \E r \in DOMAIN t : t[r].identifier = id
    BY <1>3, <1>4, <1>6, EveryTaskHasARow
  <2>2. ASSUME NEW r \in DOMAIN y PROVE y[r].identifier # id
    <3>1. IsSection(y, Y, d)
      BY <1>2, RowTables, SectionOfTasks
    <3>2. PICK w \in Y : y[r].identifier = w.id
      BY <3>1 DEF IsSection
    <3>. QED BY <1>2, <1>4, <1>6, <3>2, OneValuePerId
  <2>. QED BY <1>1, <2>1, <2>2 DEF OnlyIn
<1>7. u.status = "wip" => u \in T /\ u \notin Y
  BY <1>4 DEF todayTasks, yesterdayTasks
<1>8. u.status = "done" /\ u.date = now - DayLength => u \in Y /\ u \notin T
  <2>1. (now - DayLength) \div DayLength = now \div DayLength - 1
        /\ now \div DayLength \in Int
    BY DayAssumption
  <2>. QED
    BY <1>4, <2>1 DEF todayTasks, yesterdayTasks, isDateInToday, isDateInYesterday, Day
<1>. QED BY <1>5, <1>6, <1>7, <1>8 DEF u

LEMMA DropStep ==
  ASSUME IInv, NEW from \in DOMAIN sections["dashboard"], NEW to \in DOMAIN sections["dashboard"],
         NEW row \in DOMAIN sections["dashboard"][from],
         NEW dest \in 1..Len(sections["dashboard"][to]) + 1,
         MoveRow("dashboard", from, row, to, dest)
  PROVE  OnlyIn(sections'["dashboard"], to, sections["dashboard"][from][row].identifier)
<1>. DEFINE t == "dashboard"
            d == keyedTasks[t]
            id == sections[t][from][row].identifier
            view == MovedRow(sections[t], from, row, to, dest)
            position == TargetPosition(view[to], dest)
<1>0. t \in Tabs /\ now \in Nat /\ now' = now
      /\ dest =< Len(sections[t][to]) + (IF from = to THEN 0 ELSE 1)
      /\ didMoveRow(t, id, to, dest, view)
  BY DEF MoveRow, IInv, Backstage, NoTab
<1>1. /\ Presents(sections[t], d) /\ d \in Dictionary /\ Keyed(d)
      /\ DOMAIN sections = Tabs /\ DOMAIN keyedTasks = Tabs
  BY <1>0 DEF IInv, OnScreen, HeldByKey
<1>2. d[id] # NoTask /\ id \in Keys /\ d[id].id = id
  BY <1>1, RowHeld DEF Row
<1>3. IsPosition(position)
  BY DEF IsPosition, TargetPosition, FirstPosition, LastPosition, Between
<1>4. OnlyIn(view, to, id)
  BY <1>0, <1>1, MovedRowLands
<1>. HIDE DEF view, position, id
<1>5. Show(t, view) => OnlyIn(sections'[t], to, id)
  BY <1>0, <1>1, <1>4 DEF Show
<1>6. ASSUME NEW list \in SUBSET Values(d), NEW status \in {"wip", "done"}, NEW date \in Int,
             MoveInto(t, id, list, position, status, date, view),
             \/ to = 2 /\ status = "wip"
             \/ to = 1 /\ status = "done" /\ date = now - DayLength
      PROVE  OnlyIn(sections'[t], to, id)
  <2>. DEFINE updated == withStatus(d[id], status, date)
  <2>1. PICK tasks \in ReorderTasks(list, d[id], position, updated, d) :
          CallService(t, BatchCall(t, tasks), view)
    BY <1>2, <1>6 DEF MoveInto
  <2>2. d[id] \in Task /\ d[id] \in Values(d)
    BY <1>1, <1>2 DEF Dictionary, Values
  <2>3. updated \in Task /\ updated.id = id /\ updated.status = status /\ updated.date = date
    BY <1>2, <1>6, <2>2 DEF withStatus, Task
  <2>. DEFINE e == Merge(d, ToKeyedDictionary(tasks))
              task == d[id]
  <2>. HIDE DEF updated, d
  <2>4. Show(t, view) \/ didMoveTask(t, tasks)
    BY <2>1, <1>0, TabsAssumption
    DEF CallService, Services, MemoryCall, memoryRetrieve, memoryBatchUpdate, memoryDelete,
        memoryCreate, AwsCall, awsRetrieve, awsCreate, awsIgnore, LaterCall, BatchCall
  <2>5. CASE didMoveTask(t, tasks)
    <3>1. tasks \in Seq(Task)
      BY <1>1, <1>3, <1>6, <2>1, <2>3, ReorderElement
    <3>2. e \in Dictionary /\ Keyed(e)
      BY <1>1, <3>1, KeyedArrayIsTyped, LastTaskHasId, MergeIsTyped, MergeIsKeyed
    <3>3. e[id] # NoTask /\ e[id].status = status /\ e[id].date = date
      <4>1. task \in Values(d) /\ updated.id = task.id /\ task.id = id
            /\ tasks \in ReorderTasks(list, task, position, updated, d)
        BY <1>2, <2>1, <2>2, <2>3 DEF d
      <4>2. e = Merge(d, ToKeyedDictionary(tasks))
        OBVIOUS
      <4>. HIDE DEF task, e
      <4>3. HeldAs(e, task.id, updated)
        BY <1>1, <1>3, <2>3, <4>1, <4>2, UpdatedIsHeld
      <4>. QED BY <2>3, <4>1, <4>3 DEF HeldAs
    <3>4. PICK shown \in displayTasks(t, e) : sections' = [sections EXCEPT ![t] = shown]
      BY <2>5 DEF didMoveTask, SetKeyedTasks, d
    <3>. HIDE DEF e
    <3>5. OnlyIn(shown, to, id)
      BY <1>0, <1>2, <1>6, <3>2, <3>3, <3>4, ShownIn
    <3>. QED BY <1>0, <1>1, <3>4, <3>5
  <2>. QED BY <1>5, <2>4, <2>5
<1>7. CASE to = 1
  <2>1. moveTaskToYesterday(t, id, position, view)
    BY <1>0, <1>7 DEF didMoveRow, position
  <2>2. yesterdayTasks(Values(d), now) \in SUBSET Values(d) /\ now - DayLength \in Int
    BY <1>0, DayAssumption DEF yesterdayTasks
  <2>. QED BY <1>6, <1>7, <2>1, <2>2 DEF moveTaskToYesterday, id
<1>8. CASE to = 2
  <2>1. moveTaskToToday(t, id, position, view)
    BY <1>0, <1>8 DEF didMoveRow, position
  <2>2. todayTasks(Values(d), now) \in SUBSET Values(d) /\ now \in Int
    BY <1>0 DEF todayTasks
  <2>. QED BY <1>6, <1>8, <2>1, <2>2 DEF moveTaskToToday, id
<1>9. CASE to \notin {1, 2}
  BY <1>0, <1>5, <1>9 DEF didMoveRow, Ignored, id
<1>. QED BY <1>7, <1>8, <1>9 DEF id

(* A row dropped into Yesterday or Today shows there and nowhere else,     *)
(* over any service: over the in-memory service, whose answer rebuilds     *)
(* both sections within the drop, because the status and the date the move *)
(* gives the task put it through exactly the filter of its new section.    *)
THEOREM DropsLand == Spec => DropLandsInSection
<1>1. IInv /\ [Next]_vars
      => [\A from, to \in DOMAIN sections["dashboard"] :
            \A row \in DOMAIN sections["dashboard"][from] :
              \A dest \in 1..Len(sections["dashboard"][to]) + 1 :
                \/ \A x \in DOMAIN sections'["dashboard"] :
                     (x = to) <=> \E r \in DOMAIN sections'["dashboard"][x] :
                       sections'["dashboard"][x][r].identifier
                         = sections["dashboard"][from][row].identifier
                \/ ~MoveRow("dashboard", from, row, to, dest)]_vars
  BY DropStep DEF OnlyIn
<1>. QED BY <1>1, ScreensInvariant, PTL DEF Spec, DropLandsInSection

-----------------------------------------------------------------------------
(* Screens over AWSTaskService: every list of items that is cached or on   *)
(* its way is part of what the backend holds, whose items stay as they are *)
(* because no update and no delete is ever sent, and a screen holds what   *)
(* such items were read as at some time since the launch.                  *)

PartOf(list, server) ==
  /\ list \in ItemList /\ Keyed(list)
  /\ \A k \in Keys : list[k] # NoTask => list[k] = server[k]

ReadingOf(d, server, dates) ==
  \A k \in Keys : d[k] # NoTask => \E date \in dates : d[k] = transform(server[k], date)

Honest(c, server) ==
  /\ ServiceOf[c.tab] # "memory"
  /\ ServiceOf[c.tab] = "aws" => c.op \in {"retrieve", "createItem", "listed"}
  /\ c.op = "listed" => ServiceOf[c.tab] = "aws" /\ PartOf(c.list, server)

Backend ==
  /\ PartOf(items, items)
  /\ \A k \in unused : items[k] = NoTask
  /\ now >= FirstNow

Copies ==
  /\ cache # NotCached => PartOf(cache, items)
  /\ \A c \in ToSet(calls) : Honest(c, items)
  /\ \A t \in Tabs : ServiceOf[t] = "aws" => ReadingOf(keyedTasks[t], items, FirstNow..now)

Aws == IInv /\ Backend /\ Copies

(* Every list of the backend's items is read as tasks under the items' own *)
(* identifiers.                                                            *)
LEMMA ItemsAreRead ==
  ASSUME NEW list, NEW server, PartOf(list, server), NEW date \in Int, NEW dates, date \in dates
  PROVE  /\ Transformed(list, date) \in Dictionary /\ Keyed(Transformed(list, date))
         /\ ReadingOf(Transformed(list, date), server, dates)
<1>1. Transformed(list, date) \in Dictionary
  BY ItemsBecomeTasks DEF PartOf
<1>2. \A k \in Keys : Transformed(list, date)[k] = transform(list[k], date)
  BY DEF Transformed
<1>3. ASSUME NEW k \in Keys, transform(list[k], date) # NoTask
      PROVE  /\ list[k] \in Item /\ list[k].id = k /\ list[k] = server[k]
             /\ transform(list[k], date).id = k
  <2>1. list[k] # NoTask
    BY <1>3 DEF transform
  <2>2. list[k] \in Item /\ list[k].id = k /\ list[k] = server[k]
    BY <2>1 DEF PartOf, ItemList, Keyed
  <2>. QED BY <1>3, <2>2 DEF transform, Item
<1>4. Keyed(Transformed(list, date))
  <2>1. DOMAIN Transformed(list, date) = Keys
    BY DEF Transformed
  <2>. QED BY <1>2, <1>3, <2>1 DEF Keyed
<1>5. ReadingOf(Transformed(list, date), server, dates)
  BY <1>2, <1>3 DEF ReadingOf
<1>. QED BY <1>1, <1>4, <1>5

(* A reading of items that stay is a reading of the backend that grew.     *)
LEMMA ReadingStays ==
  ASSUME NEW d, NEW server, NEW grown, NEW dates, NEW later,
         ReadingOf(d, server, dates), PartOf(server, grown), dates \subseteq later
  PROVE  ReadingOf(d, grown, later)
<1>1. ASSUME NEW k \in Keys, NEW date \in dates, d[k] # NoTask, d[k] = transform(server[k], date)
      PROVE  d[k] = transform(grown[k], date)
  <2>1. server[k] # NoTask
    BY <1>1 DEF transform
  <2>. QED BY <1>1, <2>1 DEF PartOf
<1>. QED BY <1>1 DEF ReadingOf

(* A backend that has only grown still accounts for every copy.            *)
LEMMA CopiesStay ==
  ASSUME Copies, PartOf(items, items'), FirstNow..now \subseteq FirstNow..now',
         cache' # NotCached => cache' = cache \/ PartOf(cache', items),
         \A c \in ToSet(calls') : c \in ToSet(calls) \/ Honest(c, items),
         \A t \in Tabs : ServiceOf[t] = "aws"
           => keyedTasks'[t] = keyedTasks[t] \/ ReadingOf(keyedTasks'[t], items, FirstNow..now)
  PROVE  Copies'
<1>1. ASSUME NEW list, PartOf(list, items) PROVE PartOf(list, items')
  BY <1>1 DEF PartOf
<1>2. ASSUME NEW c, Honest(c, items) PROVE Honest(c, items')
  BY <1>1, <1>2 DEF Honest
<1>3. ASSUME NEW d, ReadingOf(d, items, FirstNow..now)
      PROVE  ReadingOf(d, items', FirstNow..now')
  BY <1>3, ReadingStays
<1>4. \A c \in ToSet(calls)' : Honest(c, items')
  BY <1>2 DEF Copies
<1>5. cache' # NotCached => PartOf(cache', items')
  BY <1>1 DEF Copies
<1>6. \A t \in Tabs : ServiceOf[t] = "aws" => ReadingOf(keyedTasks'[t], items', FirstNow..now')
  BY <1>3 DEF Copies
<1>. QED BY <1>4, <1>5, <1>6 DEF Copies

LEMMA WaitingCalls ==
  ASSUME calls \in Seq(Call)
  PROVE  /\ \A i \in DOMAIN calls : Forget(i) => ToSet(calls') \subseteq ToSet(calls)
         /\ \A i \in DOMAIN calls : \A a : AnswerWith(i, a) => ToSet(calls') \subseteq ToSet(calls) \cup {a}
         /\ \A c : Enqueue(c) => ToSet(calls') \subseteq ToSet(calls) \cup {c}
<1>0. Len(calls) \in Nat /\ DOMAIN calls = 1..Len(calls)
  BY LenProperties
<1>1. ASSUME NEW i \in DOMAIN calls, Forget(i) PROVE ToSet(calls') \subseteq ToSet(calls)
  <2>1. calls' \in Seq(Call) /\ IsWithout(calls', calls, i)
    BY <1>1, RemovedElements DEF Forget
  <2>2. Len(calls') = Len(calls) - 1 /\ DOMAIN calls' = 1..Len(calls')
    BY <2>1, LenProperties DEF IsWithout
  <2>3. ASSUME NEW j \in DOMAIN calls' PROVE \E m \in DOMAIN calls : calls'[j] = calls[m]
    BY <1>0, <2>1, <2>2 DEF IsWithout
  <2>. QED BY <2>3 DEF ToSet
<1>2. ASSUME NEW i \in DOMAIN calls, NEW a, AnswerWith(i, a)
      PROVE  ToSet(calls') \subseteq ToSet(calls) \cup {a}
  <2>1. calls' = [calls EXCEPT ![i] = a]
    BY <1>2 DEF AnswerWith, ReplaceAt
  <2>. QED BY <2>1 DEF ToSet
<1>3. ASSUME NEW c, Enqueue(c) PROVE ToSet(calls') \subseteq ToSet(calls) \cup {c}
  <2>1. calls' = Append(calls, c)
    BY <1>3 DEF Enqueue
  <2>2. DOMAIN calls' = 1..Len(calls) + 1 /\ calls'[Len(calls) + 1] = c
        /\ \A j \in 1..Len(calls) : calls'[j] = calls[j]
    BY <1>0, <2>1
  <2>. QED BY <1>0, <2>2 DEF ToSet
<1>. QED BY <1>1, <1>2, <1>3

(* A fetched dictionary that is keyed by id is kept as it is.              *)
LEMMA FetchedCopy ==
  ASSUME NEW t \in Tabs, NEW held \in Dictionary, Keyed(held), didFetchTasks(t, held)
  PROVE  keyedTasks' = [keyedTasks EXCEPT ![t] = held]
<1>1. PICK d \in Rekeyed(held) : SetKeyedTasks(t, d)
  BY DEF didFetchTasks
<1>2. d = held
  BY <1>1, RekeyedIsSame
<1>. QED BY <1>1, <1>2 DEF SetKeyedTasks

LEMMA AwsUserStep ==
  ASSUME Aws, NEW t \in Tabs, UserCall(t)
  PROVE  Aws'
<1>0. IInv' /\ OnScreen /\ calls \in Seq(Call) /\ UNCHANGED now
  BY UserCallStep DEF Aws, IInv, Backstage, UserCall
<1>8. PICK c \in Call : \E view :
        /\ c.tab = t /\ ~IsAnswer(c)
        /\ CallService(t, c, view) \/ Ignored(t, view)
  BY DEF UserCall
<1>1. PICK view :
        /\ c.tab = t /\ ~IsAnswer(c)
        /\ CallService(t, c, view) \/ Ignored(t, view)
  BY <1>8
<1>2. ASSUME UNCHANGED <<items, unused, cache, keyedTasks>>,
             \A d \in ToSet(calls') : d \in ToSet(calls) \/ Honest(d, items)
      PROVE  Aws'
  <2>1. Backend'
    BY <1>0, <1>2 DEF Aws, Backend
  <2>2. Copies'
    BY <1>0, <1>2, CopiesStay DEF Aws, Backend
  <2>. QED BY <1>0, <2>1, <2>2 DEF Aws
<1>3. CASE Ignored(t, view) \/ awsIgnore(t, c, view)
  BY <1>2, <1>3 DEF Ignored, awsIgnore, Show
<1>4. ASSUME NEW d, Honest(d, items), LaterCall(t, d, view) PROVE Aws'
  <2>1. Enqueue(d) /\ UNCHANGED <<items, unused, cache, keyedTasks>>
    BY <1>4 DEF LaterCall, Show
  <2>. QED BY <1>0, <1>2, <1>4, <2>1, WaitingCalls
<1>5. CASE ServiceOf[t] = "aws" /\ AwsCall(t, c, view)
  <2>1. CASE awsRetrieve(t, c, view)
    <3>1. Honest(IF cache = NotCached THEN c ELSE ListedAnswer(t, cache, FALSE), items)
      BY <1>1, <1>5, <2>1 DEF Honest, ListedAnswer, Aws, Copies, awsRetrieve
    <3>. QED BY <1>4, <2>1, <3>1 DEF awsRetrieve
  <2>2. CASE awsCreate(t, c, view)
    <3>1. Honest(InputCall(t, ToInput(c.task)), items)
      BY <1>5 DEF InputCall, Honest
    <3>. QED BY <1>4, <2>2, <3>1 DEF awsCreate
  <2>. QED BY <1>3, <1>5, <2>1, <2>2 DEF AwsCall
<1>6. CASE ServiceOf[t] = "remote" /\ LaterCall(t, c, view)
  <2>1. Honest(c, items)
    BY <1>1, <1>6 DEF Honest, IsAnswer
  <2>. QED BY <1>4, <1>6, <2>1
<1>7. CASE ServiceOf[t] = "memory" /\ MemoryCall(t, c, view)
  <2>1. UNCHANGED <<items, calls, cache>> /\ unused' \subseteq unused
    BY <1>7 DEF MemoryCall, memoryRetrieve, memoryBatchUpdate, memoryDelete, memoryCreate
  <2>2. \A u \in Tabs \ {t} : keyedTasks'[u] = keyedTasks[u]
    <3>1. \/ \E d : SetKeyedTasks(t, d)
          \/ Show(t, view)
      BY <1>7 DEF MemoryCall, memoryRetrieve, memoryBatchUpdate, memoryDelete, memoryCreate,
                  didFetchTasks, didMoveTask, didMoveTaskToTrash
    <3>. QED BY <1>0, <3>1 DEF SetKeyedTasks, Show, OnScreen
  <2>3. Backend'
    BY <1>0, <2>1 DEF Aws, Backend
  <2>4. Copies'
    BY <1>0, <1>7, <2>1, <2>2, CopiesStay DEF Aws, Backend
  <2>. QED BY <1>0, <2>3, <2>4 DEF Aws
<1>. QED BY <1>1, <1>3, <1>5, <1>6, <1>7, TabsAssumption DEF CallService, Services

LEMMA AwsLaterStep ==
  ASSUME Aws, NEW i \in DOMAIN calls, CarryOut(i) \/ Deliver(i) \/ Lose(i)
  PROVE  Aws'
<1>. DEFINE c == calls[i]
            s == ServiceOf[c.tab]
<1>0. /\ IInv' /\ OnScreen /\ calls \in Seq(Call) /\ now \in Nat
      /\ Backend /\ Copies /\ unused \subseteq Ids
  BY LaterOnScreen DEF Aws, IInv, Backstage
<1>1. c \in Call /\ c.tab \in Tabs /\ s \in Services /\ c \in ToSet(calls)
  <2>1. c \in Call
    BY <1>0, ElementOfSeq, LenProperties
  <2>. QED BY <2>1, CallParts, TabsAssumption DEF ToSet
<1>2. Honest(c, items)
  BY <1>0, <1>1 DEF Copies
<1>3. ASSUME NEW answer, AnswerWith(i, answer), Honest(answer, items)
      PROVE  \A d \in ToSet(calls') : d \in ToSet(calls) \/ Honest(d, items)
  BY <1>0, <1>3, WaitingCalls
<1>4. Forget(i) => \A d \in ToSet(calls') : d \in ToSet(calls) \/ Honest(d, items)
  BY <1>0, WaitingCalls
<1>9. now' = now
  BY DEF CarryOut, Deliver, Lose
<1>. HIDE DEF s, c
<1>5. ASSUME UNCHANGED <<cache, keyedTasks>>, PartOf(items, items'), Backend',
             \A d \in ToSet(calls') : d \in ToSet(calls) \/ Honest(d, items)
      PROVE  Aws'
  BY <1>0, <1>5, <1>9, CopiesStay DEF Aws
<1>10. ASSUME UNCHANGED <<items, unused>> PROVE Backend' /\ PartOf(items, items')
  BY <1>0, <1>9, <1>10 DEF Backend
<1>6. CASE CarryOut(i)
  <2>1. UNCHANGED <<cache, keyedTasks>>
    BY <1>6 DEF CarryOut
  <2>2. CASE /\ c.op = "retrieve"
             /\ AnswerWith(i, IF s = "aws" THEN ListedAnswer(c.tab, items, TRUE)
                              ELSE RetrievedAnswer(c.tab, store[s]))
             /\ UNCHANGED <<store, items, unused>>
    <3>1. /\ s = "aws" => Honest(ListedAnswer(c.tab, items, TRUE), items)
          /\ s # "aws" => Honest(RetrievedAnswer(c.tab, store[s]), items)
      BY <1>0, <1>2 DEF Honest, ListedAnswer, RetrievedAnswer, Backend, s
    <3>. QED BY <1>3, <1>5, <1>10, <2>1, <2>2, <3>1
  <2>3. CASE c.op = "batchUpdate" /\ UNCHANGED <<items, unused>>
             /\ AnswerWith(i, UpdatedAnswer(c.tab, c.tasks))
    <3>1. Honest(UpdatedAnswer(c.tab, c.tasks), items)
      BY <1>2, <2>3 DEF Honest, UpdatedAnswer
    <3>. QED BY <1>3, <1>5, <1>10, <2>1, <2>3, <3>1
  <2>4. CASE c.op = "delete" /\ UNCHANGED <<items, unused>>
             /\ AnswerWith(i, DeletedAnswer(c.tab, c.id))
    <3>1. Honest(DeletedAnswer(c.tab, c.id), items)
      BY <1>2, <2>4 DEF Honest, DeletedAnswer
    <3>. QED BY <1>3, <1>5, <1>10, <2>1, <2>4, <3>1
  <2>5. CASE c.op = "create" /\ Forget(i) /\ UNCHANGED items
             /\ \E id \in unused : unused' = unused \ {id}
    <3>1. Backend' /\ PartOf(items, items')
      BY <1>0, <1>9, <2>5 DEF Backend
    <3>. QED BY <1>4, <1>5, <2>1, <2>5, <3>1
  <2>6. CASE c.op = "createItem" /\ Forget(i)
             /\ \E id \in unused :
                  /\ unused' = unused \ {id}
                  /\ items' = [items EXCEPT ![id] = [c.item EXCEPT !.id = id]]
    <3>1. PICK id \in unused :
            /\ unused' = unused \ {id}
            /\ items' = [items EXCEPT ![id] = [c.item EXCEPT !.id = id]]
      BY <2>6
    <3>. DEFINE new == [c.item EXCEPT !.id = id]
    <3>2. c.item \in Item /\ id \in Keys
      BY <1>0, <1>1, <2>6, CallParts DEF Keys
    <3>3. items' = [items EXCEPT ![id] = new]
      BY <3>1
    <3>4. new \in Item /\ new.id = id
      BY <3>2 DEF Item
    <3>. HIDE DEF new
    <3>5. items \in ItemList /\ Keyed(items) /\ items[id] = NoTask
      BY <1>0, <3>1 DEF Backend, PartOf
    <3>6. PartOf(items', items') /\ PartOf(items, items')
      BY <3>2, <3>3, <3>4, <3>5 DEF PartOf, ItemList, Keyed
    <3>7. \A k \in unused' : items'[k] = NoTask
      BY <1>0, <3>1, <3>3, <3>5 DEF Backend, ItemList, Keys
    <3>8. Backend'
      BY <1>0, <1>9, <3>6, <3>7 DEF Backend
    <3>. QED BY <1>4, <1>5, <2>1, <2>6, <3>6, <3>8
  <2>. QED BY <1>6, <2>2, <2>3, <2>4, <2>5, <2>6 DEF CarryOut, c, s
<1>7. CASE Deliver(i)
  <2>1. Forget(i) /\ UNCHANGED <<items, unused>>
    BY <1>7 DEF Deliver
  <2>2. Backend' /\ PartOf(items, items')
    BY <1>10, <2>1
  <2>3. \E d : SetKeyedTasks(c.tab, d)
    BY <1>7 DEF Deliver, didFetchTasks, didMoveTask, didMoveTaskToTrash, c
  <2>4. \A u \in Tabs \ {c.tab} : keyedTasks'[u] = keyedTasks[u]
    BY <1>0, <2>3 DEF SetKeyedTasks, OnScreen
  <2>5. CASE s = "aws"
    <3>1. c.op = "listed" /\ PartOf(c.list, items)
      BY <1>2, <1>7, <2>5 DEF Deliver, Honest, c, s
    <3>. DEFINE held == Transformed(c.list, now)
    <3>2. didFetchTasks(c.tab, held) /\ cache' = IF c.publish THEN c.list ELSE cache
      BY <1>7, <3>1 DEF Deliver, c
    <3>3. now \in Int /\ now \in FirstNow..now
      BY <1>0, BoundAssumption DEF Backend
    <3>4. held \in Dictionary /\ Keyed(held) /\ ReadingOf(held, items, FirstNow..now)
      BY <3>1, <3>3, ItemsAreRead
    <3>. HIDE DEF held
    <3>5. keyedTasks'[c.tab] = held
      BY <1>0, <1>1, <3>2, <3>4, FetchedCopy DEF OnScreen
    <3>6. Copies'
      BY <1>0, <1>4, <1>9, <2>1, <2>2, <2>4, <3>1, <3>2, <3>4, <3>5, CopiesStay
    <3>. QED BY <1>0, <2>2, <3>6 DEF Aws
  <2>6. CASE s # "aws"
    <3>1. cache' = cache
      BY <1>2, <1>7, <2>6 DEF Deliver, Honest, c, s
    <3>2. Copies'
      BY <1>0, <1>4, <1>9, <2>1, <2>2, <2>4, <2>6, <3>1, CopiesStay DEF s
    <3>. QED BY <1>0, <2>2, <3>2 DEF Aws
  <2>. QED BY <2>5, <2>6
<1>8. CASE Lose(i)
  <2>1. Forget(i) /\ UNCHANGED <<items, cache, unused, keyedTasks>>
    BY <1>8 DEF Lose
  <2>. QED BY <1>4, <1>5, <1>10, <2>1
<1>. QED BY <1>6, <1>7, <1>8

LEMMA AwsInvariant == Spec => []Aws
<1>1. Init => Aws
  <2>. SUFFICES ASSUME Init PROVE Aws
    OBVIOUS
  <2>1. PICK d \in InitialStores, list \in InitialItems :
          items = list /\ unused = {k \in Ids : d[k] = NoTask /\ list[k] = NoTask}
    BY DEF Init
  <2>2. PartOf(items, items)
    BY <2>1, ItemsAssumption DEF PartOf, Keyed, ItemList
  <2>3. Backend
    BY <2>1, <2>2, BoundAssumption DEF Init, Backend
  <2>4. \A t \in Tabs : ReadingOf(keyedTasks[t], items, FirstNow..now)
    BY DEF Init, ReadingOf, EmptyDictionary
  <2>5. ToSet(calls) = {} /\ cache = NotCached
    BY DEF Init, ToSet
  <2>. QED BY <2>3, <2>4, <2>5, ScreensInit DEF Aws, Copies
<1>2. Aws /\ [Next]_vars => Aws'
  <2>. SUFFICES ASSUME Aws, [Next]_vars PROVE Aws'
    OBVIOUS
  <2>1. CASE Tick \/ UNCHANGED vars
    <3>1. /\ UNCHANGED <<items, cache, unused, calls, keyedTasks>> /\ IInv'
          /\ now \in Nat /\ now' \in {now, now + 1}
      BY <2>1, ScreensStep DEF Tick, vars, Aws, IInv, Backstage, Next
    <3>2. Backend'
      BY <3>1, BoundAssumption DEF Aws, Backend
    <3>3. FirstNow..now \subseteq FirstNow..now'
      BY <3>1, BoundAssumption
    <3>4. Copies'
      BY <3>1, <3>3, CopiesStay DEF Aws, Backend
    <3>. QED BY <3>1, <3>2, <3>4 DEF Aws
  <2>. QED BY <2>1, UserStep, AwsUserStep, AwsLaterStep DEF Next, Aws
<1>. QED BY <1>1, <1>2, PTL DEF Spec

(* A dashboard over AWSTaskService shows no change of its own: a task it   *)
(* holds is the backend's item under that identifier as it was read at     *)
(* some time since the launch, however late or in whatever order the lists *)
(* arrive and whatever was moved or deleted.                               *)
THEOREM DashboardIsACopy ==
  ASSUME "dashboard" \in Tabs, ServiceOf["dashboard"] = "aws"
  PROVE  Spec => []DashboardMatchesServer
<1>1. Aws => DashboardMatchesServer
  BY DEF Aws, Copies, ReadingOf, DashboardMatchesServer
<1>. QED BY <1>1, AwsInvariant, PTL

(* A list that is served: nothing else is cached or on its way.            *)
Serves(c) == c.op # "retrieve" /\ (c.op = "listed" => c.list = cache)

LEMMA ServedList == OnlyThisList <=> cache # NotCached /\ \A c \in ToSet(calls) : Serves(c)
BY DEF OnlyThisList, ToSet, Serves

NothingRemote ==
  /\ "dashboard" \in Tabs /\ ServiceOf["dashboard"] = "aws"
  /\ \A t \in Tabs : ServiceOf[t] # "remote"

ServesOn ==
  OnlyThisList
  => /\ OnlyThisList' /\ cache' = cache
     /\ keyedTasks'["dashboard"]
          \in {keyedTasks["dashboard"]} \cup Rekeyed(Transformed(cache, now))

LEMMA ServedUserStep ==
  ASSUME NothingRemote, Aws, NEW t \in Tabs, UserCall(t)
  PROVE  ServesOn
<1>. SUFFICES ASSUME OnlyThisList
              PROVE  /\ OnlyThisList' /\ cache' = cache
                     /\ keyedTasks'["dashboard"] = keyedTasks["dashboard"]
  BY DEF ServesOn
<1>0. OnScreen /\ calls \in Seq(Call) /\ cache # NotCached
  BY DEF Aws, IInv, Backstage, OnlyThisList
<1>8. PICK c \in Call : \E view :
        /\ c.tab = t /\ ~IsAnswer(c)
        /\ CallService(t, c, view) \/ Ignored(t, view)
  BY DEF UserCall
<1>1. PICK view :
        /\ c.tab = t /\ ~IsAnswer(c)
        /\ CallService(t, c, view) \/ Ignored(t, view)
  BY <1>8
<1>2. ASSUME cache' = cache, \A d \in ToSet(calls') : d \in ToSet(calls) \/ Serves(d)
      PROVE  OnlyThisList'
  <2>1. \A d \in ToSet(calls') : Serves(d)'
    BY <1>2, ServedList DEF Serves
  <2>2. cache' # NotCached /\ ToSet(calls') = ToSet(calls)'
    BY <1>0, <1>2
  <2>. QED BY <2>1, <2>2 DEF OnlyThisList, Serves, ToSet
<1>3. CASE Ignored(t, view) \/ awsIgnore(t, c, view)
  BY <1>2, <1>3 DEF Ignored, awsIgnore, Show
<1>4. ASSUME NEW d, Serves(d), LaterCall(t, d, view)
      PROVE  /\ OnlyThisList' /\ cache' = cache
             /\ keyedTasks'["dashboard"] = keyedTasks["dashboard"]
  <2>1. Enqueue(d) /\ UNCHANGED <<cache, keyedTasks>>
    BY <1>4 DEF LaterCall, Show
  <2>. QED BY <1>0, <1>2, <1>4, <2>1, WaitingCalls
<1>5. CASE AwsCall(t, c, view)
  <2>1. CASE awsRetrieve(t, c, view)
    <3>1. LaterCall(t, ListedAnswer(t, cache, FALSE), view)
      BY <1>0, <2>1 DEF awsRetrieve
    <3>2. Serves(ListedAnswer(t, cache, FALSE))
      BY DEF Serves, ListedAnswer
    <3>. QED BY <1>4, <3>1, <3>2
  <2>2. CASE awsCreate(t, c, view)
    <3>1. Serves(InputCall(t, ToInput(c.task)))
      BY DEF InputCall, Serves
    <3>. QED BY <1>4, <2>2, <3>1 DEF awsCreate
  <2>. QED BY <1>3, <1>5, <2>1, <2>2 DEF AwsCall
<1>6. CASE ServiceOf[t] = "memory" /\ MemoryCall(t, c, view)
  <2>1. UNCHANGED <<calls, cache>>
    BY <1>6 DEF MemoryCall
  <2>2. (\E d : SetKeyedTasks(t, d)) \/ Show(t, view)
    BY <1>6 DEF MemoryCall, memoryRetrieve, memoryBatchUpdate, memoryDelete, memoryCreate,
                didFetchTasks, didMoveTask, didMoveTaskToTrash
  <2>3. t # "dashboard"
    BY <1>6 DEF NothingRemote
  <2>4. keyedTasks'["dashboard"] = keyedTasks["dashboard"]
    BY <1>0, <2>2, <2>3 DEF SetKeyedTasks, Show, OnScreen, NothingRemote
  <2>. QED BY <1>2, <2>1, <2>4
<1>. QED
  BY <1>1, <1>3, <1>5, <1>6, TabsAssumption DEF CallService, Services, NothingRemote

LEMMA ServedLaterStep ==
  ASSUME NothingRemote, Aws, NEW i \in DOMAIN calls, CarryOut(i) \/ Deliver(i) \/ Lose(i)
  PROVE  ServesOn
<1>. SUFFICES ASSUME OnlyThisList
              PROVE  /\ OnlyThisList' /\ cache' = cache
                     /\ keyedTasks'["dashboard"]
                          \in {keyedTasks["dashboard"]} \cup Rekeyed(Transformed(cache, now))
  BY DEF ServesOn
<1>. DEFINE c == calls[i]
<1>0. OnScreen /\ calls \in Seq(Call) /\ cache # NotCached
  BY DEF Aws, IInv, Backstage, OnlyThisList
<1>1. c \in ToSet(calls) /\ c.tab \in Tabs
  <2>1. c \in Call
    BY <1>0, ElementOfSeq, LenProperties
  <2>. QED BY <2>1, CallParts DEF ToSet
<1>2. Serves(c) /\ c.op \in {"createItem", "listed"}
  <2>1. Serves(c) /\ Honest(c, items)
    BY <1>1, ServedList DEF Aws, Copies
  <2>2. ServiceOf[c.tab] = "aws"
    BY <1>1, <2>1, TabsAssumption DEF Honest, Services, NothingRemote
  <2>. QED BY <2>1, <2>2 DEF Honest, Serves
<1>3. ASSUME Forget(i), cache' = cache PROVE OnlyThisList'
  <2>1. \A d \in ToSet(calls') : d \in ToSet(calls)
    BY <1>0, <1>3, WaitingCalls
  <2>2. \A d \in ToSet(calls') : Serves(d)'
    BY <1>3, <2>1, ServedList DEF Serves
  <2>. QED BY <1>0, <1>3, <2>2 DEF OnlyThisList, Serves, ToSet
<1>. HIDE DEF c
<1>4. CASE CarryOut(i)
  <2>1. Forget(i) /\ UNCHANGED <<cache, keyedTasks>>
    BY <1>2, <1>4 DEF CarryOut, c
  <2>. QED BY <1>3, <2>1
<1>5. CASE Deliver(i)
  <2>1. /\ Forget(i) /\ c.op = "listed" /\ didFetchTasks(c.tab, Transformed(c.list, now))
        /\ cache' = IF c.publish THEN c.list ELSE cache
    BY <1>2, <1>5 DEF Deliver, c
  <2>2. c.list = cache /\ cache' = cache
    BY <1>2, <2>1 DEF Serves
  <2>3. PICK d \in Rekeyed(Transformed(cache, now)) : keyedTasks' = [keyedTasks EXCEPT ![c.tab] = d]
    BY <2>1, <2>2 DEF didFetchTasks, SetKeyedTasks
  <2>4. keyedTasks'["dashboard"] \in {keyedTasks["dashboard"], d}
    BY <1>0, <2>3 DEF OnScreen, NothingRemote
  <2>. QED BY <1>3, <2>1, <2>2, <2>4
<1>6. CASE Lose(i)
  BY <1>3, <1>6 DEF Lose
<1>. QED BY <1>4, <1>5, <1>6

(* With no other list on its way, the cached list is all the dashboard     *)
(* ever shows again: a task created later never reaches it, whichever      *)
(* answers come in, are lost or are asked for again.                       *)
THEOREM CachedForGood ==
  ASSUME NothingRemote
  PROVE  Spec => CachedListServed
<1>1. Aws /\ [Next]_vars
      => [OnlyThisList
          => /\ OnlyThisList' /\ cache' = cache
             /\ keyedTasks'["dashboard"]
                  \in {keyedTasks["dashboard"]} \cup Rekeyed(Transformed(cache, now))]_vars
  <2>. SUFFICES ASSUME Aws, [Next]_vars PROVE ServesOn
    BY DEF ServesOn
  <2>1. CASE Tick \/ UNCHANGED vars
    BY <2>1 DEF Tick, vars, ServesOn, OnlyThisList
  <2>. QED BY <2>1, UserStep, ServedUserStep, ServedLaterStep DEF Next, Aws
<1>. QED BY <1>1, AwsInvariant, PTL DEF Spec, CachedListServed

-----------------------------------------------------------------------------
(* Screens that share the in-memory service: Todo and Done do, and the     *)
(* dashboard has another service or is left out.                           *)

SharedService == \A t \in Tabs : ServiceOf[t] = "memory" <=> t \in {"todo", "done"}
Sharing == {t \in Tabs : ServiceOf[t] = "memory"}

(* The tasks a screen lists.                                               *)
Listed(t) ==
  IF t = "todo" THEN todoTasks(Values(keyedTasks[t])) ELSE doneTasks(Values(keyedTasks[t]))

Screens ==
  /\ keyedTasks \in [Tabs -> Dictionary]
  /\ DOMAIN sections = Tabs
  /\ \A t \in Sharing : sections[t] \in Seq(Seq(RowsOf(Listed(t))))

Shared ==
  /\ store \in [Holders -> Dictionary]
  /\ now \in Nat
  /\ Keyed(store["memory"])
  /\ HeldByKey
  /\ Screens
  /\ VisibleFresh

(* What a step does to the shared service: it leaves it alone, or takes    *)
(* one task that is not wip away or somewhere else, and at most renumbers  *)
(* the others.                                                             *)
Untouched(k) ==
  /\ (store'["memory"][k] = NoTask) <=> (store["memory"][k] = NoTask)
  /\ StatusOf(store'["memory"][k]) = StatusOf(store["memory"][k])

Touches(id) ==
  /\ store["memory"][id] # NoTask /\ store["memory"][id].status # "wip"
  /\ \A k \in Keys \ {id} : Untouched(k)

Effect ==
  \/ store'["memory"] = store["memory"]
  \/ \E id \in Keys : Touches(id)

LEMMA SetKeepsScreens ==
  ASSUME SharedService, Screens, NEW t \in Sharing, NEW d \in Dictionary, SetKeyedTasks(t, d)
  PROVE  Screens'
<1>. t \in Tabs /\ ServiceOf[t] = "memory"
  BY DEF Sharing
<1>1. /\ keyedTasks' = [keyedTasks EXCEPT ![t] = d]
      /\ keyedTasks' \in [Tabs -> Dictionary]
      /\ keyedTasks'[t] = d
  BY DEF SetKeyedTasks, Screens
<1>2. PICK shown \in displayTasks(t, d) : sections' = [sections EXCEPT ![t] = shown]
  BY DEF SetKeyedTasks
<1>. DEFINE S == IF t = "todo" THEN todoTasks(Values(d)) ELSE doneTasks(Values(d))
<1>3. S \in SUBSET Task /\ IsFiniteSet(S)
  <2>1. S \in SUBSET Values(d)
    BY DEF todoTasks, doneTasks
  <2>. QED BY <2>1, ValuesAreTasks, FS_Subset
<1>4. shown \in Seq(Seq(RowsOf(S)))
  <2>1. /\ actionsForTask \in [{"todo", "wip", "done"} -> SUBSET Action]
        /\ actionsForDoneTask \in [{"todo", "wip", "done"} -> SUBSET Action]
    BY DEF actionsForTask, actionsForDoneTask, Action
  <2>2. CASE t = "todo"
    <3>1. PICK r \in ToViewModels(S, actionsForTask) : shown = <<r>>
      BY <1>2, <2>2 DEF displayTasks
    <3>2. r \in Seq(RowsOf(S))
      BY <1>3, <2>1, RowsOfTasks
    <3>. QED BY <3>1, <3>2
  <2>3. CASE t = "done"
    <3>1. PICK r \in ToViewModels(S, actionsForDoneTask) : shown = <<r>>
      BY <1>2, <2>3 DEF displayTasks
    <3>2. r \in Seq(RowsOf(S))
      BY <1>3, <2>1, RowsOfTasks
    <3>. QED BY <3>1, <3>2
  <2>. QED BY <2>2, <2>3 DEF SharedService
<1>5. Listed(t)' = S
  BY <1>1 DEF Listed
<1>6. DOMAIN sections' = Tabs /\ sections'[t] = shown
  BY <1>2 DEF Screens
<1>7. ASSUME NEW u \in Sharing, u # t
      PROVE  sections'[u] \in Seq(Seq(RowsOf(Listed(u)')))
  BY <1>1, <1>2, <1>7 DEF Screens, Listed, Sharing
<1>. QED BY <1>1, <1>4, <1>5, <1>6, <1>7 DEF Screens, Sharing

LEMMA ShowKeepsScreens ==
  ASSUME Screens, NEW t \in Sharing, NEW view \in Seq(Seq(RowsOf(Listed(t)))), Show(t, view)
  PROVE  Screens'
BY DEF Screens, Show, Listed, Sharing

LEMMA IgnoredStep ==
  ASSUME Shared, NEW t \in Sharing, NEW view \in Seq(Seq(RowsOf(Listed(t)))),
         Ignored(t, view), UNCHANGED <<visible, now>>
  PROVE  Shared' /\ Effect
<1>. t \in Tabs /\ ServiceOf[t] = "memory"
  BY DEF Sharing
<1>1. Screens' /\ HeldByKey' /\ keyedTasks' = keyedTasks
  BY ShowKeepsScreens DEF Shared, Ignored, Show, HeldByKey
<1>. QED BY <1>1 DEF Shared, Ignored, VisibleFresh, Effect

(* The call of a screen over the shared service is carried out at once.    *)
LEMMA FetchStep ==
  ASSUME SharedService, Shared, NEW t \in Sharing, NEW view,
         CallService(t, RetrieveCall(t), view), visible' = t, now' = now
  PROVE  Shared' /\ Effect
<1>. t \in Tabs /\ ServiceOf[t] = "memory"
  BY DEF Sharing
<1>. DEFINE held == store["memory"]
<1>1. MemoryCall(t, RetrieveCall(t), view)
  BY DEF CallService, SharedService
<1>2. memoryRetrieve(t, RetrieveCall(t)) /\ UNCHANGED calls
  BY <1>1 DEF MemoryCall, memoryBatchUpdate, memoryDelete, memoryCreate, RetrieveCall
<1>3. held \in Dictionary /\ Keyed(held)
  BY DEF Shared, Holders
<1>4. SetKeyedTasks(t, held) /\ store' = store
  BY <1>2, <1>3, RekeyedIsSame DEF memoryRetrieve, didFetchTasks
<1>5. Screens'
  BY <1>3, <1>4, SetKeepsScreens DEF Shared
<1>6. HeldByKey'
  BY <1>3, <1>4, SetKeepsKeys DEF Shared
<1>7. keyedTasks'[t] = held
  BY <1>4 DEF SetKeyedTasks, Shared, HeldByKey
<1>. QED BY <1>2, <1>4, <1>5, <1>6, <1>7 DEF Shared, VisibleFresh, Effect

LEMMA BatchStep ==
  ASSUME SharedService, Shared, NEW t \in Sharing, NEW view, NEW tasks \in Seq(Task),
         CallService(t, BatchCall(t, tasks), view), visible = t, UNCHANGED <<visible, now>>
  PROVE  /\ Shared'
         /\ store'["memory"] = Merge(keyedTasks[t], ToKeyedDictionary(tasks))
<1>. t \in Tabs /\ ServiceOf[t] = "memory"
  BY DEF Sharing
<1>. DEFINE new == ToKeyedDictionary(tasks)
            merged == Merge(store["memory"], new)
<1>1. MemoryCall(t, BatchCall(t, tasks), view)
  BY DEF CallService, SharedService
<1>2. memoryBatchUpdate(t, BatchCall(t, tasks)) /\ UNCHANGED calls
  BY <1>1 DEF MemoryCall, memoryRetrieve, memoryDelete, memoryCreate, BatchCall
<1>3. store["memory"] = keyedTasks[t]
  BY DEF Shared, VisibleFresh
<1>4. merged \in Dictionary /\ Keyed(merged)
  <2>1. store["memory"] \in Dictionary /\ Keyed(store["memory"])
    BY DEF Shared, Holders
  <2>. QED BY <2>1, KeyedArrayIsTyped, LastTaskHasId, MergeIsTyped, MergeIsKeyed
<1>5. store' = [store EXCEPT !["memory"] = merged] /\ didMoveTask(t, tasks)
  BY <1>2 DEF memoryBatchUpdate, BatchCall, HoldUpdated, Hold
<1>6. SetKeyedTasks(t, merged)
  BY <1>3, <1>5 DEF didMoveTask
<1>7. store' \in [Holders -> Dictionary] /\ store'["memory"] = merged
  BY <1>4, <1>5 DEF Shared, Holders
<1>8. Screens'
  BY <1>4, <1>6, SetKeepsScreens DEF Shared
<1>9. HeldByKey'
  BY <1>4, <1>6, SetKeepsKeys DEF Shared
<1>10. keyedTasks'[t] = merged
  BY <1>6 DEF SetKeyedTasks, Shared, HeldByKey
<1>. QED BY <1>2, <1>3, <1>4, <1>7, <1>8, <1>9, <1>10 DEF Shared, VisibleFresh

LEMMA DeleteStep ==
  ASSUME SharedService, Shared, NEW t \in Sharing, NEW view, NEW id \in Keys,
         keyedTasks[t][id] # NoTask,
         CallService(t, DeleteCall(t, id), view), visible = t, UNCHANGED <<visible, now>>
  PROVE  /\ Shared'
         /\ store'["memory"] = [store["memory"] EXCEPT ![id] = NoTask]
<1>. t \in Tabs /\ ServiceOf[t] = "memory"
  BY DEF Sharing
<1>. DEFINE without == [store["memory"] EXCEPT ![id] = NoTask]
<1>1. MemoryCall(t, DeleteCall(t, id), view)
  BY DEF CallService, SharedService
<1>2. memoryDelete(t, DeleteCall(t, id), view) /\ UNCHANGED calls
  BY <1>1 DEF MemoryCall, memoryRetrieve, memoryBatchUpdate, memoryCreate, DeleteCall
<1>3. store["memory"] = keyedTasks[t]
  BY DEF Shared, VisibleFresh
<1>4. without \in Dictionary /\ Keyed(without)
  <2>1. store["memory"] \in Dictionary /\ Keyed(store["memory"])
    BY DEF Shared, Holders
  <2>. QED BY <2>1 DEF Dictionary, Keyed
<1>5. store' = [store EXCEPT !["memory"] = without] /\ didMoveTaskToTrash(t, id)
  BY <1>2, <1>3 DEF memoryDelete, DeleteCall, HoldWithout, Hold
<1>6. SetKeyedTasks(t, without)
  BY <1>3, <1>5 DEF didMoveTaskToTrash
<1>7. store' \in [Holders -> Dictionary] /\ store'["memory"] = without
  BY <1>4, <1>5 DEF Shared, Holders
<1>8. Screens'
  BY <1>4, <1>6, SetKeepsScreens DEF Shared
<1>9. HeldByKey'
  BY <1>4, <1>6, SetKeepsKeys DEF Shared
<1>10. keyedTasks'[t] = without
  BY <1>6 DEF SetKeyedTasks, Shared, HeldByKey
<1>. QED BY <1>2, <1>4, <1>7, <1>8, <1>9, <1>10 DEF Shared, VisibleFresh

(* A row of a screen stands for a task that is not wip.                    *)
LEMMA RowTask ==
  ASSUME SharedService, Shared, NEW t \in Sharing, NEW u \in Listed(t)
  PROVE  /\ u \in Task /\ u.id \in Keys /\ u.status # "wip"
         /\ keyedTasks[t][u.id] = u /\ u # NoTask
<1>. t \in Tabs /\ ServiceOf[t] = "memory"
  BY DEF Sharing
<1>1. keyedTasks[t] \in Dictionary /\ Keyed(keyedTasks[t])
  BY DEF Shared, Screens, HeldByKey
<1>2. u \in Values(keyedTasks[t]) /\ u.status # "wip"
  BY DEF Listed, todoTasks, doneTasks
<1>3. u \in Task
  BY <1>1, <1>2, ValuesAreTasks
<1>. QED BY <1>1, <1>2, <1>3, NoTaskAssumption DEF Values, Keyed, Task

LEMMA MoveStep ==
  ASSUME SharedService, Shared, NEW t \in Sharing, visible = t, UNCHANGED <<visible, now>>,
         NEW task \in Listed(t), NEW list \in SUBSET Values(keyedTasks[t]),
         NEW position, IsPosition(position),
         NEW status \in {"todo", "wip", "done"}, NEW date \in Int, NEW view,
         MoveInto(t, task.id, list, position, status, date, view)
  PROVE  Shared' /\ Effect
<1>. t \in Tabs /\ ServiceOf[t] = "memory"
  BY DEF Sharing
<1>. DEFINE id == task.id
            updated == withStatus(task, status, date)
<1>1. task \in Task /\ id \in Keys /\ task.status # "wip" /\ keyedTasks[t][id] = task /\ task # NoTask
  BY RowTask
<1>2. PICK tasks \in ReorderTasks(list, task, position, updated, keyedTasks[t]) :
        CallService(t, BatchCall(t, tasks), view)
  BY <1>1 DEF MoveInto
<1>3. updated \in Task /\ updated.id = id
  BY <1>1 DEF withStatus, Task
<1>4. keyedTasks[t] \in Dictionary /\ Keyed(keyedTasks[t]) /\ store["memory"] = keyedTasks[t]
  BY DEF Shared, Screens, HeldByKey, VisibleFresh
<1>. HIDE DEF updated
<1>5. /\ tasks \in Seq(Task)
      /\ \A i \in DOMAIN tasks : \E u \in list \cup {updated} :
           tasks[i].id = u.id /\ tasks[i].status = u.status /\ tasks[i].date = u.date
  <2>. DEFINE d == keyedTasks[t]
  <2>1. d \in Dictionary /\ list \in SUBSET Values(d) /\ updated \in Task
    BY <1>3, <1>4
  <2>2. tasks \in ReorderTasks(list, task, position, updated, d)
    BY <1>2
  <2>. HIDE DEF d
  <2>3. /\ tasks \in Seq(Task)
        /\ \A i \in DOMAIN tasks : \E u \in (list \ {task}) \cup {updated} :
             tasks[i].id = u.id /\ tasks[i].status = u.status /\ tasks[i].date = u.date
    <3>1. IsPosition(position)
      OBVIOUS
    <3>. QED BY ONLY <2>1, <2>2, <3>1, ReorderElement
  <2>. QED BY <2>3
<1>. DEFINE new == ToKeyedDictionary(tasks)
<1>6. Shared' /\ store'["memory"] = Merge(keyedTasks[t], new)
  <2>1. tasks \in Seq(Task)
    BY <1>5
  <2>2. CallService(t, BatchCall(t, tasks), view)
    BY <1>2
  <2>. QED BY <2>1, <2>2, BatchStep
<1>7. ASSUME NEW k \in Keys \ {id} PROVE Untouched(k)
  <2>1. CASE new[k] = NoTask
    BY <1>4, <1>6, <2>1 DEF Merge, Untouched
  <2>2. CASE new[k] # NoTask
    <3>1. PICK i \in DOMAIN tasks : new[k] = tasks[i] /\ tasks[i].id = k
      BY <2>2, KeyedElement
    <3>2. PICK u \in list \cup {updated} :
            tasks[i].id = u.id /\ tasks[i].status = u.status /\ tasks[i].date = u.date
      BY <1>5
    <3>3. u \in list
      BY <1>3, <1>7, <3>1, <3>2
    <3>4. keyedTasks[t][k] = u /\ u # NoTask
      BY <1>4, <3>1, <3>2, <3>3 DEF Values, Keyed
    <3>5. store'["memory"][k] = tasks[i]
      BY <1>6, <2>2, <3>1 DEF Merge
    <3>. QED BY <1>4, <2>2, <3>1, <3>2, <3>4, <3>5 DEF Untouched, StatusOf
  <2>. QED BY <2>1, <2>2
<1>8. Touches(id)
  BY <1>1, <1>4, <1>7 DEF Touches
<1>. QED BY <1>1, <1>6, <1>8 DEF Effect

LEMMA TrashStep ==
  ASSUME SharedService, Shared, NEW t \in Sharing, visible = t, UNCHANGED <<visible, now>>,
         NEW task \in Listed(t), NEW view, moveTaskToTrash(t, task.id, view)
  PROVE  Shared' /\ Effect
<1>. t \in Tabs /\ ServiceOf[t] = "memory"
  BY DEF Sharing
<1>. DEFINE id == task.id
<1>1. id \in Keys /\ task.status # "wip" /\ keyedTasks[t][id] = task /\ task # NoTask
  BY RowTask
<1>2. CallService(t, DeleteCall(t, id), view)
  BY <1>1 DEF moveTaskToTrash
<1>3. Shared' /\ store'["memory"] = [store["memory"] EXCEPT ![id] = NoTask]
  BY <1>1, <1>2, DeleteStep
<1>4. store["memory"] = keyedTasks[t] /\ DOMAIN store["memory"] = Keys
  BY DEF Shared, VisibleFresh, HeldByKey, Keyed
<1>5. Touches(id)
  BY <1>1, <1>3, <1>4 DEF Touches, Untouched
<1>. QED BY <1>1, <1>3, <1>5 DEF Effect

(* What the actions of a row do, by their target.                          *)
LEMMA ActionStep ==
  ASSUME SharedService, Shared, NEW t \in Sharing, visible = t, UNCHANGED <<visible, now>>,
         NEW task \in Listed(t), NEW position, IsPosition(position), NEW view
  PROVE  /\ moveTaskToToday(t, task.id, position, view) => Shared' /\ Effect
         /\ moveTaskToDone(t, task.id, position, view)  => Shared' /\ Effect
         /\ moveTaskToTodo(t, task.id, position, view)  => Shared' /\ Effect
<1>. t \in Tabs /\ ServiceOf[t] = "memory"
  BY DEF Sharing
<1>. DEFINE tasks == Values(keyedTasks[t])
<1>1. now \in Int
  BY DEF Shared
<1>2. todayTasks(tasks, now) \in SUBSET tasks /\ doneTasks(tasks) \in SUBSET tasks
      /\ todoTasks(tasks) \in SUBSET tasks
  BY DEF todayTasks, doneTasks, todoTasks
<1>3. ASSUME moveTaskToToday(t, task.id, position, view) PROVE Shared' /\ Effect
  BY <1>1, <1>2, <1>3, MoveStep DEF moveTaskToToday
<1>4. ASSUME moveTaskToDone(t, task.id, position, view) PROVE Shared' /\ Effect
  BY <1>1, <1>2, <1>4, MoveStep DEF moveTaskToDone
<1>5. ASSUME moveTaskToTodo(t, task.id, position, view) PROVE Shared' /\ Effect
  BY <1>1, <1>2, <1>5, MoveStep DEF moveTaskToTodo
<1>. QED BY <1>3, <1>4, <1>5

LEMMA PerformStep ==
  ASSUME SharedService, Shared, NEW t \in Sharing, NEW section \in DOMAIN sections[t],
         NEW row \in DOMAIN sections[t][section], NEW action \in Action,
         PerformAction(t, section, row, action)
  PROVE  Shared' /\ Effect
<1>. t \in Tabs /\ ServiceOf[t] = "memory"
  BY DEF Sharing
<1>. DEFINE rows == sections[t][section]
            position == TargetPosition(rows, row)
            view == sections[t]
<1>1. visible = t /\ UNCHANGED <<visible, now>>
  BY DEF PerformAction
<1>2. view \in Seq(Seq(RowsOf(Listed(t))))
  BY DEF Shared, Screens
<1>3. rows[row] \in RowsOf(Listed(t))
  <2>1. rows \in Seq(RowsOf(Listed(t)))
    BY <1>2, ElementOfSeq, LenProperties
  <2>. QED BY <2>1, ElementOfSeq, LenProperties
<1>4. PICK task \in Listed(t) : rows[row].identifier = task.id
  BY <1>3 DEF RowsOf
<1>5. IsPosition(position) /\ IsPosition(FirstPosition)
  BY DEF IsPosition, TargetPosition, FirstPosition, LastPosition, Between
<1>6. Ignored(t, view) => Shared' /\ Effect
  BY <1>1, <1>2, IgnoredStep
<1>. HIDE DEF position, view
<1>7. \/ moveTaskToToday(t, task.id, FirstPosition, view)
      \/ moveTaskToDone(t, task.id, position, view)
      \/ moveTaskToTrash(t, task.id, view)
      \/ Ignored(t, view)
  <2>1. CASE t = "todo"
    <3>1. todoAction(t, task.id, action, position)
      BY <1>4, <2>1 DEF PerformAction, position
    <3>. QED BY <3>1 DEF todoAction, Action, view
  <2>2. CASE t = "done"
    <3>1. doneAction(t, task.id, action)
      BY <1>4, <2>2 DEF PerformAction
    <3>. QED BY <3>1 DEF doneAction, Action, view
  <2>. QED BY <2>1, <2>2 DEF SharedService
<1>. QED BY <1>1, <1>5, <1>6, <1>7, ActionStep, TrashStep

(* The Todo table's drag moves the row on the screen only.                 *)
LEMMA DragStep ==
  ASSUME SharedService, Shared, NEW t \in Sharing,
         NEW from \in DOMAIN sections[t], NEW to \in DOMAIN sections[t],
         NEW row \in DOMAIN sections[t][from], NEW dest \in 1..Len(sections[t][to]) + 1,
         MoveRow(t, from, row, to, dest)
  PROVE  Shared' /\ Effect
<1>. t \in Tabs /\ ServiceOf[t] = "memory"
  BY DEF Sharing
<1>. DEFINE R == RowsOf(Listed(t))
            view == sections[t]
            removed == [view EXCEPT ![from] = RemoveAt(@, row)]
            moved == MovedRow(view, from, row, to, dest)
<1>1. UNCHANGED <<visible, now>> /\ Ignored(t, moved)
  BY DEF MoveRow, didMoveRow, SharedService
<1>2. /\ dest =< Len(view[to]) + (IF from = to THEN 0 ELSE 1)
      /\ dest \in 1..Len(view[to]) + 1
  BY DEF MoveRow
<1>3. view \in Seq(Seq(R)) /\ view[from] \in Seq(R) /\ view[to] \in Seq(R)
  <2>1. view \in Seq(Seq(R))
    BY DEF Shared, Screens
  <2>. HIDE DEF R, view
  <2>2. \A x \in DOMAIN view : view[x] \in Seq(R)
    BY <2>1, ElementOfSeq, LenProperties
  <2>. QED BY <2>1, <2>2 DEF view
<1>4. view[from][row] \in R
  BY <1>3, ElementOfSeq, LenProperties
<1>5. RemoveAt(view[from], row) \in Seq(R) /\ Len(RemoveAt(view[from], row)) = Len(view[from]) - 1
  BY <1>3, RemovedElements DEF IsWithout
<1>. HIDE DEF R
<1>6. removed \in Seq(Seq(R)) /\ DOMAIN removed = DOMAIN view
  BY <1>3, <1>5, ExceptSeq, LenProperties
<1>7. removed[to] \in Seq(R) /\ dest \in 1..Len(removed[to]) + 1
  <2>1. CASE from = to
    BY <1>2, <1>3, <1>5, <2>1, LenProperties
  <2>2. CASE from # to
    BY <1>2, <1>3, <2>2
  <2>. QED BY <2>1, <2>2
<1>8. InsertAt(removed[to], dest, view[from][row]) \in Seq(R)
  BY <1>4, <1>7, InsertedElements
<1>9. moved \in Seq(Seq(R))
  BY <1>6, <1>8, ExceptSeq, LenProperties DEF MovedRow
<1>. QED BY <1>1, <1>9, IgnoredStep DEF R

(* What leaves the shared service, and the screens over it, alone.         *)
LEMMA OtherStep ==
  ASSUME Shared, IInv', store'["memory"] = store["memory"], visible' \notin Sharing \/ visible' = visible,
         \A t \in Sharing : keyedTasks'[t] = keyedTasks[t] /\ sections'[t] = sections[t]
  PROVE  Shared' /\ Effect
<1>1. /\ store' \in [Holders -> Dictionary] /\ now' \in Nat /\ HeldByKey'
      /\ keyedTasks' \in [Tabs -> Dictionary] /\ DOMAIN sections' = Tabs
  BY DEF IInv, Backstage, OnScreen
<1>2. \A t \in Sharing : Listed(t)' = Listed(t)
  BY DEF Listed
<1>3. Screens'
  BY <1>1, <1>2 DEF Shared, Screens, Sharing
<1>4. VisibleFresh'
  BY DEF Shared, VisibleFresh, Sharing
<1>. QED BY <1>1, <1>3, <1>4 DEF Shared, Effect

(* Whatever the user does on a screen with another service.                *)
LEMMA OtherUserStep ==
  ASSUME Shared, IInv, NEW t \in Tabs, ServiceOf[t] # "memory", UserCall(t), visible' = t
  PROVE  Shared' /\ Effect
<1>1. PICK c \in Call : \E view : CallService(t, c, view) \/ Ignored(t, view)
  BY DEF UserCall
<1>2. PICK view : CallService(t, c, view) \/ Ignored(t, view)
  BY <1>1
<1>3. AwsCall(t, c, view) \/ LaterCall(t, c, view) \/ Ignored(t, view)
  BY <1>2, TabsAssumption DEF CallService, Services
<1>4. Show(t, view) /\ store' = store
  BY <1>3 DEF AwsCall, awsRetrieve, awsCreate, awsIgnore, LaterCall, Ignored
<1>5. t \notin Sharing /\ DOMAIN sections = Tabs
  BY DEF Sharing, IInv, OnScreen
<1>6. IInv'
  BY UserCallStep
<1>. QED BY <1>4, <1>5, <1>6, OtherStep DEF Show, Sharing

(* A call that waits is one of a screen with another service.              *)
LEMMA OtherLaterStep ==
  ASSUME Shared, Aws, NEW i \in DOMAIN calls, CarryOut(i) \/ Deliver(i) \/ Lose(i)
  PROVE  Shared' /\ Effect
<1>. DEFINE c == calls[i]
<1>0. OnScreen /\ calls \in Seq(Call) /\ store \in [Holders -> Dictionary] /\ IInv'
  BY LaterOnScreen DEF Aws, IInv, Backstage
<1>1. c.tab \in Tabs /\ c.tab \notin Sharing
  <2>1. c \in Call /\ c \in ToSet(calls)
    BY <1>0, ElementOfSeq, LenProperties DEF ToSet
  <2>. QED BY <2>1, CallParts DEF Aws, Copies, Honest, Sharing
<1>. HIDE DEF c
<1>2. CASE CarryOut(i)
  <2>1. UNCHANGED <<visible, keyedTasks, sections>>
    BY <1>2 DEF CarryOut
  <2>2. store' = store \/ \E s, d : s # "memory" /\ Hold(s, d)
    BY <1>1, <1>2 DEF CarryOut, HoldUpdated, HoldWithout, Sharing, c
  <2>3. store'["memory"] = store["memory"]
    BY <1>0, <2>2 DEF Hold, Holders
  <2>. QED BY <1>0, <2>1, <2>3, OtherStep
<1>3. CASE Deliver(i)
  <2>1. UNCHANGED <<store, visible>>
    BY <1>3 DEF Deliver
  <2>2. \E d : SetKeyedTasks(c.tab, d)
    BY <1>3 DEF Deliver, didFetchTasks, didMoveTask, didMoveTaskToTrash, c
  <2>3. \A t \in Sharing : keyedTasks'[t] = keyedTasks[t] /\ sections'[t] = sections[t]
    BY <1>0, <1>1, <2>2 DEF SetKeyedTasks, OnScreen, Sharing
  <2>. QED BY <1>0, <2>1, <2>3, OtherStep
<1>4. CASE Lose(i)
  BY <1>0, <1>4, OtherStep DEF Lose
<1>. QED BY <1>2, <1>3, <1>4

LEMMA SharedStep ==
  ASSUME SharedService, Shared, Aws, [Next]_vars
  PROVE  Shared' /\ Effect
<1>. IInv /\ IInv'
  BY ScreensStep DEF Aws
<1>0. ASSUME NEW t \in Tabs \ Sharing, visible' = t,
             \/ SelectTab(t) \/ AddTask(t)
             \/ \E from, to \in DOMAIN sections[t] :
                  \E row \in DOMAIN sections[t][from], dest \in 1..Len(sections[t][to]) + 1 :
                    MoveRow(t, from, row, to, dest)
             \/ \E section \in DOMAIN sections[t] :
                  \E row \in DOMAIN sections[t][section], action \in Action :
                    PerformAction(t, section, row, action)
      PROVE  Shared' /\ Effect
  <2>1. UserCall(t)
    BY <1>0, UserStep
  <2>. QED BY <1>0, <2>1, OtherUserStep DEF Sharing
<1>1. ASSUME NEW t \in Tabs, SelectTab(t) \/ AddTask(t) PROVE Shared' /\ Effect
  <2>1. CASE t \in Sharing
    BY <1>1, <2>1, FetchStep DEF SelectTab, AddTask, SharedService, Sharing
  <2>2. CASE t \notin Sharing
    <3>1. visible' = t
      BY <1>1 DEF SelectTab, AddTask
    <3>. QED BY <1>0, <1>1, <2>2, <3>1
  <2>. QED BY <2>1, <2>2
<1>2. ASSUME NEW t \in Tabs, NEW from \in DOMAIN sections[t], NEW to \in DOMAIN sections[t],
             NEW row \in DOMAIN sections[t][from], NEW dest \in 1..Len(sections[t][to]) + 1,
             MoveRow(t, from, row, to, dest)
      PROVE  Shared' /\ Effect
  <2>1. visible' = t
    BY <1>2 DEF MoveRow
  <2>. QED BY <1>0, <1>2, <2>1, DragStep
<1>3. ASSUME NEW t \in Tabs, NEW section \in DOMAIN sections[t],
             NEW row \in DOMAIN sections[t][section], NEW action \in Action,
             PerformAction(t, section, row, action)
      PROVE  Shared' /\ Effect
  <2>1. visible' = t
    BY <1>3 DEF PerformAction
  <2>. QED BY <1>0, <1>3, <2>1, PerformStep
<1>4. ASSUME NEW i \in DOMAIN calls, CarryOut(i) \/ Deliver(i) \/ Lose(i) PROVE Shared' /\ Effect
  BY <1>4, OtherLaterStep
<1>5. CASE Tick
  BY <1>5, OtherStep DEF Tick
<1>6. CASE UNCHANGED vars
  BY <1>6, OtherStep DEF vars
<1>. QED BY <1>1, <1>2, <1>3, <1>4, <1>5, <1>6 DEF Next

LEMMA SharedInit ==
  ASSUME SharedService, Init
  PROVE  Shared
<1>1. PICK d \in InitialStores : store = [s \in Holders |-> d]
  BY DEF Init
<1>2. d \in Dictionary /\ Keyed(d)
  BY StoreAssumption DEF Keyed, Dictionary
<1>3. HeldByKey /\ keyedTasks \in [Tabs -> Dictionary]
  BY DEF Init, HeldByKey, Keyed, EmptyDictionary, Dictionary
<1>4. DOMAIN sections = Tabs /\ \A t \in Tabs : sections[t] = <<>>
  BY DEF Init
<1>5. \A S : <<>> \in Seq(S)
  OBVIOUS
<1>6. Screens
  BY <1>3, <1>4, <1>5 DEF Screens, Sharing
<1>7. now \in Nat /\ visible \notin Tabs
  BY BoundAssumption, TabsAssumption DEF Init, NoTab
<1>. QED BY <1>1, <1>2, <1>3, <1>6, <1>7 DEF Shared, VisibleFresh, Holders

LEMMA SharedInvariant ==
  ASSUME SharedService
  PROVE  Spec => []Shared /\ [][Effect]_vars
<1>1. Init => Shared
  BY SharedInit
<1>2. Shared /\ Aws /\ [Next]_vars => Shared'
  BY SharedStep
<1>3. Shared /\ Aws /\ [Next]_vars => [Effect]_vars
  BY SharedStep
<1>. QED BY <1>1, <1>2, <1>3, AwsInvariant, PTL DEF Spec

(* Although nothing tells a screen what another one changed, the screen on *)
(* display holds exactly what the shared service holds, at any time.       *)
THEOREM ScreenIsFresh ==
  ASSUME SharedService
  PROVE  Spec => []VisibleFresh
<1>1. Shared => VisibleFresh
  BY DEF Shared
<1>. QED BY <1>1, SharedInvariant, PTL

(* No batch update of a screen writes back a task that has been deleted.   *)
THEOREM NothingComesBack ==
  ASSUME SharedService
  PROVE  Spec => DeletedStaysDeleted
<1>1. Shared /\ [Effect]_vars
      => [\A k \in Keys : store["memory"][k] = NoTask => store'["memory"][k] = NoTask]_store
  BY DEF Effect, Touches, Untouched, vars
<1>. QED BY <1>1, SharedInvariant, PTL DEF DeletedStaysDeleted

(* A move changes the status of the moved task only: the tasks it renumbers*)
(* keep what another screen made of them.                                  *)
THEOREM OneChangePerStep ==
  ASSUME SharedService
  PROVE  Spec => OneStatusAtATime
<1>1. Shared /\ [Effect]_vars
      => [\A j, k \in Keys :
            /\ StatusOf(store["memory"][j]) # StatusOf(store'["memory"][j])
            /\ StatusOf(store["memory"][k]) # StatusOf(store'["memory"][k])
            => j = k]_store
  BY DEF Effect, Touches, Untouched, vars
<1>. QED BY <1>1, SharedInvariant, PTL DEF OneStatusAtATime

(* On the Todo and Done screens nobody can finish, put back or delete a    *)
(* task that has been started.                                             *)
THEOREM StartedIsOutOfReach ==
  ASSUME SharedService
  PROVE  Spec => WipOutOfReach
<1>1. Shared /\ [Effect]_vars
      => [\A k \in Keys : LET task == store["memory"][k] IN
            task # NoTask /\ task.status = "wip"
            => store'["memory"][k] # NoTask
                 /\ StatusOf(store'["memory"][k]) = StatusOf(task)]_store
  BY DEF Effect, Touches, Untouched, vars
<1>. QED BY <1>1, SharedInvariant, PTL DEF WipOutOfReach
=============================================================================
