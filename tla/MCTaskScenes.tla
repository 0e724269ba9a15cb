---------------------------- MODULE MCTaskScenes ----------------------------
(* Small instances of TaskScenes for TLC.                                  *)
EXTENDS TaskScenes

CONSTANTS t1, t2, t3

(* As the app wires its screens (each scene's configurator).                  *)
AppServices ==
  [t \in {"dashboard", "todo", "done"} |-> IF t = "dashboard" THEN "aws" ELSE "memory"]
DashboardMemory   == [t \in {"dashboard"} |-> "memory"]
DashboardRemote   == [t \in {"dashboard"} |-> "remote"]

(* A dictionary of freshly made tasks: order 0, as FakeTasks makes them.   *)
Holding(tasks) ==
  [k \in Keys |-> IF \E t \in tasks : t.id = k
                  THEN CHOOSE t \in tasks : t.id = k ELSE NoTask]
Made(id, status, date) == [id |-> id, status |-> status, date |-> date, order |-> 0]

(* The kinds of task of InMemoryTaskService.shared, a clock reading of 4   *)
(* being the first of day 2.                                               *)
MixedStores ==
  {Holding({Made(t1, "todo", 4), Made(t2, "wip", 4), Made(t3, "done", 3)}),
   Holding({Made(t1, "todo", 4), Made(t2, "done", 4), Made(t3, "done", 1)})}

(* Two tasks and an identifier left for one the user adds, or three rows   *)
(* to drop among.                                                          *)
TwoTasks == {Holding({Made(t1, "wip", 4), Made(t2, "done", 3)})}
TwoOrThreeTasks ==
  TwoTasks \cup {Holding({Made(t1, "wip", 4), Made(t2, "wip", 4), Made(t3, "wip", 4)})}

NoItems == {EmptyDictionary}

(* Items of the backend: with and without a date, one of unknown status;   *)
(* an identifier is left for one the user adds.                            *)
SomeItems ==
  {Holding({Made(t1, "wip", NoDate), Made(t2, "done", 3)}),
   Holding({Made(t1, "done", NoDate), Made(t2, "unknown", 4)})}

OneTask == {Holding({Made(t1, "wip", 4)})}
=============================================================================
