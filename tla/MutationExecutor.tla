-------------------------- MODULE MutationExecutor --------------------------
(***************************************************************************)
(* The offline mutation queue of the AppSync client: MutationExecutor with *)
(* its SQLite table of records (AWSMutationCache), the operations that are *)
(* handed to it (PerformMutationOperation), the reachability notices that  *)
(* start and pause it, and the requests it has on the network.             *)
(*                                                                         *)
(* Mutations are performed and notices handled on the main thread; the     *)
(* answers to requests arrive on a thread of the URL session.  The main    *)
(* thread BLOCKS while it drains the queue: `main` is where it is.         *)
(***************************************************************************)
EXTENDS Integers, FiniteSets, SequencesExt

CONSTANTS
  Mutations,    (* the mutations the app performs                           *)
  Held,         (* those whose operation object the caller keeps            *)
  None,         (* no mutation                                              *)
  Connections,  (* what a Reachability object can report, "none" included   *)
  MaxNotices,   (* bound: reachability notices waiting for the main thread  *)
  MaxCrashes,   (* bound: crashes of the app                                *)
  MaxRetries    (* retries of a request answered with 429 or 5xx            *)

ASSUME MutationsAssumption == IsFiniteSet(Mutations) /\ Held \subseteq Mutations
ASSUME NoneAssumption  == None \notin Mutations
ASSUME BoundAssumption ==
  MaxNotices \in Nat \ {0} /\ MaxCrashes \in Nat /\ MaxRetries \in Nat
ASSUME ConnectionsAssumption == "none" \in Connections

VARIABLES
  link,                (* the connection the device has                    *)
  noticed,             (* the notifier's Reachability.connection           *)
  observed,            (* the snapshot controller's                        *)
  notices,             (* notices of the notifier's on the main queue      *)
  isInitialConnection, (* the notifier has not handled a notice yet        *)
  mutationQueue,       (* the records in memory                            *)
  disk,                (* the table mutation_records, by timestamp         *)
  shouldExecute,       (* the queue is not paused                          *)
  main,                (* what the main thread is doing                    *)
  current,             (* the record the main thread sends from memory     *)
  group,               (* the count of dispatchGroup                       *)
  request,             (* the state of each mutation's request             *)
  path,                (* how the mutation was last sent                   *)
  retries,             (* the retries of each mutation's requests          *)
  session,             (* the mutations performed since the last launch    *)
  performed,           (* history: the mutations in the order performed    *)
  sentAtOnce,          (* history: sent by their operation, not from disk  *)
  server,              (* history: what the backend has executed           *)
  answered,            (* history: the mutations answered, or given up     *)
  handled,             (* history: those whose result handler was called   *)
  crashes              (* the crashes so far                               *)

network == <<link, noticed, observed, notices, isInitialConnection>>
records == <<mutationQueue, disk>>
thread  == <<shouldExecute, main, current>>
traffic == <<group, request, path, retries>>
history == <<performed, sentAtOnce, server, answered, handled>>
vars == <<network, records, thread, traffic, session, history, crashes>>

InFlight == {m \in Mutations : request[m] # "none"}

IndicesOf(s, m) == {i \in DOMAIN s : s[i] = m}
Without(s, m) ==
  IF IndicesOf(s, m) = {} THEN s ELSE RemoveAt(s, CHOOSE i \in IndicesOf(s, m) : TRUE)

-----------------------------------------------------------------------------
(* The network.  The notifier and the snapshot controller each have a      *)
(* Reachability object of their own, which learns of a change on a queue   *)
(* of its own; only the notifier's posts a notice that anyone acts on.     *)

ChangeLink ==
  /\ link' \in Connections \ {link}
  /\ UNCHANGED <<noticed, observed, notices, isInitialConnection,
                 records, thread, traffic, session, history, crashes>>

Notice ==
  /\ noticed # link /\ notices < MaxNotices
  /\ noticed' = link /\ notices' = notices + 1
  /\ UNCHANGED <<link, observed, isInitialConnection,
                 records, thread, traffic, session, history, crashes>>

Observe ==
  /\ observed # link
  /\ observed' = link
  /\ UNCHANGED <<link, noticed, notices, isInitialConnection,
                 records, thread, traffic, session, history, crashes>>

(* The first notice is swallowed.  Any other is handled by what the        *)
(* connection is now, not by what it was when the notice was posted.       *)
HandleNotice ==
  /\ main = "idle" /\ notices > 0
  /\ notices' = notices - 1
  /\ isInitialConnection' = FALSE
  /\ IF isInitialConnection THEN UNCHANGED <<shouldExecute, main>>
     ELSE \/ /\ noticed # "none" /\ mutationQueue # <<>>
             /\ shouldExecute' = TRUE /\ main' = "draining"
          \/ /\ noticed # "none" /\ mutationQueue = <<>>
             /\ UNCHANGED <<shouldExecute, main>>
          \/ /\ noticed = "none"
             /\ shouldExecute' = FALSE /\ UNCHANGED main
  /\ UNCHANGED <<link, noticed, observed, records, current, traffic, session, history, crashes>>

-----------------------------------------------------------------------------
(* Performing a mutation.                                                  *)

(* Mutant: a mutation is submitted although others wait.                   *)
MutantQueue(m) ==
  /\ main = "idle" /\ m \notin ToSet(performed)
  /\ mutationQueue' = Append(mutationQueue, m)
  /\ disk' = Append(disk, m)
  /\ IF observed # "none"
     THEN main' = "submitting" /\ current' = m
     ELSE UNCHANGED <<main, current>>
  /\ session' = session \cup {m}
  /\ performed' = Append(performed, m)
  /\ UNCHANGED <<network, shouldExecute, traffic,
                 sentAtOnce, server, answered, handled, crashes>>

(* queueMutation: save the record, and submit it if it is the only one.    *)
QueueMutation(m) ==
  /\ main = "idle" /\ m \notin ToSet(performed)
  /\ mutationQueue' = Append(mutationQueue, m)
  /\ disk' = Append(disk, m)
  /\ IF observed # "none" /\ Len(mutationQueue') = 1
     THEN main' = "submitting" /\ current' = m
     ELSE UNCHANGED <<main, current>>
  /\ session' = session \cup {m}
  /\ performed' = Append(performed, m)
  /\ UNCHANGED <<network, shouldExecute, traffic,
                 sentAtOnce, server, answered, handled, crashes>>

Send(m, how, enters) ==
  /\ request' = [request EXCEPT ![m] = "sent"]
  /\ path' = [path EXCEPT ![m] = how]
  /\ group' = group + enters
  /\ UNCHANGED retries

(* The operation sends its own request, and does not wait for the answer:  *)
(* performMutation waits until 3 ms after the device was started.          *)
SendFromMemory(m, enters, next) ==
  /\ mutationQueue' = Tail(mutationQueue)
  /\ Send(m, "memory", enters)
  /\ sentAtOnce' = sentAtOnce \cup {m}
  /\ current' = m /\ main' = next
  /\ UNCHANGED <<network, disk, shouldExecute, session,
                 performed, server, answered, handled, crashes>>

Submit == main = "submitting" /\ SendFromMemory(current, 1, "submitted")

(* removeRecordFromQueue, while the request is on its way.                 *)
DeleteSent ==
  /\ \/ main = "submitted" /\ main' = "idle"
     \/ main = "executed" /\ main' = "draining"
  /\ disk' = Without(disk, current)
  /\ current' = None
  /\ UNCHANGED <<network, mutationQueue, shouldExecute, traffic, session, history, crashes>>

-----------------------------------------------------------------------------
(* executeAllQueuedMutations.                                              *)

(* executeMutation, when the operation is still alive: it enters the group *)
(* before performMutation enters it again, and nothing leaves it twice.    *)
ExecuteInMemory ==
  /\ main = "draining" /\ shouldExecute /\ mutationQueue # <<>>
  /\ Head(mutationQueue) \in session \cap Held
  /\ SendFromMemory(Head(mutationQueue), 2, "executed")

PersistentNext ==
  /\ main = "draining" /\ shouldExecute /\ mutationQueue # <<>>
  /\ Head(mutationQueue) \notin session \cap Held
  /\ main' = "waiting"

(* Mutant: the record is removed before its request is answered.           *)
MutantDeletedFirst ==
  /\ PersistentNext
  /\ Send(Head(mutationQueue), "queued", 1)
  /\ mutationQueue' = Tail(mutationQueue) /\ disk' = Tail(disk)
  /\ UNCHANGED <<network, shouldExecute, current, session, history, crashes>>

(* Mutant: the group is entered twice.                                     *)
MutantEnteredTwice ==
  /\ PersistentNext
  /\ Send(Head(mutationQueue), "queued", 2)
  /\ UNCHANGED <<network, records, shouldExecute, current, session, history, crashes>>

(* performPersistentOfflineMutation, up to dispatchGroup.wait().           *)
ExecutePersistent ==
  /\ PersistentNext
  /\ Send(Head(mutationQueue), "queued", 1)
  /\ UNCHANGED <<network, records, shouldExecute, current, session, history, crashes>>

(* Mutant: the wait has a timeout, as performMutation's has.               *)
MutantWaitOver ==
  /\ main = "waiting"
  /\ main' = "draining"
  /\ UNCHANGED <<network, records, shouldExecute, current, traffic, session, history, crashes>>

WaitOver ==
  /\ main = "waiting" /\ group = 0
  /\ main' = "draining"
  /\ UNCHANGED <<network, records, shouldExecute, current, traffic, session, history, crashes>>

DrainOver ==
  /\ main = "draining" /\ (mutationQueue = <<>> \/ ~shouldExecute)
  /\ main' = "idle"
  /\ UNCHANGED <<network, records, shouldExecute, current, traffic, session, history, crashes>>

-----------------------------------------------------------------------------
(* The backend and the URL session.                                        *)

Execute(m) ==
  /\ request[m] = "sent"
  /\ request' = [request EXCEPT ![m] = "executed"]
  /\ server' = Append(server, m)
  /\ UNCHANGED <<network, records, thread, group, path, retries, session,
                 performed, sentAtOnce, answered, handled, crashes>>

(* Mutant: the limit is checked too late.                                  *)
MutantRetry(m) ==
  /\ request[m] # "none" /\ retries[m] =< MaxRetries
  /\ request' = [request EXCEPT ![m] = "sent"]
  /\ retries' = [retries EXCEPT ![m] = @ + 1]
  /\ UNCHANGED <<network, records, thread, group, path, session, history, crashes>>

(* 429 or 5xx, whether or not the backend has executed the request.        *)
Retry(m) ==
  /\ request[m] # "none" /\ retries[m] < MaxRetries
  /\ request' = [request EXCEPT ![m] = "sent"]
  /\ retries' = [retries EXCEPT ![m] = @ + 1]
  /\ UNCHANGED <<network, records, thread, group, path, session, history, crashes>>

(* What the completion handler of m's request does, besides the records.   *)
Answered(m) ==
  /\ request[m] # "none"
  /\ request' = [request EXCEPT ![m] = "none"]
  /\ group' = group - 1
  /\ answered' = answered \cup {m}
  /\ handled' = IF path[m] = "memory" THEN handled \cup {m} ELSE handled
  /\ UNCHANGED <<network, thread, path, retries, session,
                 performed, sentAtOnce, server, crashes>>

(* The first record of the queue, whatever it is.                          *)
RemoveFirstRecord ==
  /\ mutationQueue' = Tail(mutationQueue)
  /\ disk' = Without(disk, Head(mutationQueue))

(* Mutant: the record is not deleted from the table.                       *)
MutantNotDeleted(m) ==
  /\ Answered(m)
  /\ IF path[m] = "queued" THEN mutationQueue' = Tail(mutationQueue) /\ UNCHANGED disk
     ELSE UNCHANGED records

(* A result or an error has come.  Only an operation that sent its own     *)
(* request calls its result handler.                                       *)
Complete(m) ==
  /\ Answered(m)
  /\ \/ path[m] = "queued" /\ RemoveFirstRecord
     \/ path[m] = "memory" /\ UNCHANGED records

(* The app is killed and launched again: init loads the table.             *)
Restart ==
  /\ crashes < MaxCrashes
  /\ crashes' = crashes + 1
  /\ mutationQueue' = disk
  /\ noticed' = link /\ observed' = link
  /\ notices' = 1 /\ isInitialConnection' = TRUE
  /\ shouldExecute' = TRUE /\ main' = "idle" /\ current' = None
  /\ group' = 0
  /\ request' = [m \in Mutations |-> "none"]
  /\ session' = {}
  /\ UNCHANGED <<link, disk, path, retries, history>>

-----------------------------------------------------------------------------
Init ==
  /\ link \in Connections /\ noticed = link /\ observed = link
  /\ notices = 1 /\ isInitialConnection = TRUE
  /\ mutationQueue = <<>> /\ disk = <<>>
  /\ shouldExecute = TRUE /\ main = "idle" /\ current = None
  /\ group = 0
  /\ request = [m \in Mutations |-> "none"]
  /\ path = [m \in Mutations |-> "none"]
  /\ retries = [m \in Mutations |-> 0]
  /\ session = {}
  /\ performed = <<>> /\ sentAtOnce = {} /\ server = <<>>
  /\ answered = {} /\ handled = {}
  /\ crashes = 0

Drain == ExecuteInMemory \/ ExecutePersistent \/ WaitOver \/ DrainOver

Next ==
  \/ ChangeLink \/ Notice \/ Observe \/ HandleNotice \/ Restart
  \/ Submit \/ DeleteSent \/ Drain
  \/ \E m \in Mutations : QueueMutation(m) \/ Execute(m) \/ Retry(m) \/ Complete(m)

(* The main thread keeps running unless it waits for the group, and every  *)
(* request ends: the URL session answers or times out, and the retries are *)
(* limited.  Nothing makes the network change or the user do anything.     *)
Fairness ==
  /\ WF_vars(Submit \/ DeleteSent \/ Drain)
  /\ \A m \in Mutations : WF_vars(Complete(m))

Spec == Init /\ [][Next]_vars
FairSpec == Spec /\ Fairness
-----------------------------------------------------------------------------
(* Properties.                                                             *)

TypeOK ==
  /\ link \in Connections /\ noticed \in Connections /\ observed \in Connections
  /\ notices \in 0..MaxNotices
  /\ isInitialConnection \in BOOLEAN
  /\ mutationQueue \in Seq(Mutations) /\ disk \in Seq(Mutations)
  /\ shouldExecute \in BOOLEAN
  /\ main \in {"idle", "submitting", "submitted", "draining", "executed", "waiting"}
  /\ current \in Mutations \cup {None}
  /\ group \in Nat
  /\ request \in [Mutations -> {"none", "sent", "executed"}]
  /\ path \in [Mutations -> {"none", "memory", "queued"}]
  /\ retries \in [Mutations -> 0..MaxRetries]
  /\ session \subseteq Mutations
  /\ performed \in Seq(Mutations) /\ server \in Seq(Mutations)
  /\ sentAtOnce \subseteq Mutations
  /\ answered \subseteq Mutations /\ handled \subseteq Mutations
  /\ crashes \in 0..MaxCrashes

(* The table and the queue agree whenever the main thread is not in the    *)
(* middle of a submission, so a crash neither drops a waiting mutation nor *)
(* brings back one that is done.                                           *)
DiskMirrorsQueue ==
  IF main \in {"submitted", "executed"}
  THEN disk = <<current>> \o mutationQueue
  ELSE disk = mutationQueue

(* The record the completion handler removes is the one that was answered. *)
AnswerRemovesItsOwn ==
  \A m \in InFlight : path[m] = "queued" => mutationQueue # <<>> /\ Head(mutationQueue) = m

(* While a mutation waits in the queue, none performed after it has        *)
(* reached the network: the queue is never overtaken, crashes included.    *)
NoOvertaking ==
  \A i, j \in DOMAIN performed :
    i < j /\ performed[i] \in ToSet(mutationQueue)
    => request[performed[j]] = "none" /\ performed[j] \notin ToSet(server)

(* A mutation that its own operation never sent stays on disk until it is  *)
(* answered or given up.                                                   *)
KeptUntilAnswered ==
  \A m \in ToSet(performed) : m \in ToSet(disk) \cup answered \cup sentAtOnce

(* The backend executes a mutation once, plus at most once for each retry  *)
(* and once for each crash.                                                *)
Executions(m) == Cardinality({i \in DOMAIN server : server[i] = m})
BoundedDuplicates == \A m \in Mutations : Executions(m) =< 1 + retries[m] + crashes

(* If no caller keeps an operation, the dispatch group counts exactly the  *)
(* requests in flight, so the main thread never waits for nothing.         *)
GroupCountsRequests == group = Cardinality(InFlight)

(* With the device online, and everyone having been told so, no mutation   *)
(* performed since the launch waits in the queue.                          *)
SubmittedWhenOnline ==
  main = "idle" /\ link # "none" /\ noticed = link /\ observed = link /\ notices = 0
  => \A m \in session : m \notin ToSet(mutationQueue)

(* Once the main thread drains the queue, it comes back to the user.       *)
DrainEnds == main = "draining" ~> main = "idle"

(* The result handler of a mutation is called when it is answered, unless  *)
(* the app was restarted in between.                                       *)
ResultHandlerCalled == answered \cap session \subseteq handled

-----------------------------------------------------------------------------
(* The queue implements MutationDelivery: a mutation waits in line while   *)
(* its record is in the queue and no request of it is on its way.          *)
line ==
  IF mutationQueue # <<>> /\ Head(mutationQueue) \in InFlight
  THEN Tail(mutationQueue) ELSE mutationQueue

Delivery == INSTANCE MutationDelivery
  WITH underway <- InFlight, settled <- answered, executed <- server

(* Whatever the app does and whenever it crashes, mutations are delivered  *)
(* as MutationDelivery says.                                               *)
Delivers == Delivery!Spec

(* And each that is on its way is answered, or forgotten in a crash.       *)
DeliversFairly == Delivery!FairSpec
=============================================================================
