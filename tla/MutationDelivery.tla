-------------------------- MODULE MutationDelivery --------------------------
(***************************************************************************)
(* What the offline mutation queue promises, without its table, threads,   *)
(* reachability notices or retries: mutations wait in line in the order    *)
(* they were performed, leave it from the front, and are on their way      *)
(* until they are answered or given up.  A crash takes nothing out of the  *)
(* line; it loses sight of what was on its way, and puts back at most one  *)
(* mutation, at the front.                                                 *)
(***************************************************************************)
EXTENDS Sequences, SequencesExt

CONSTANT Mutations

VARIABLES
  line,      (* the mutations that wait to be sent                         *)
  underway,  (* those on their way                                         *)
  settled,   (* those that have been answered, or given up                 *)
  executed   (* what the backend has executed, in order                    *)

vars == <<line, underway, settled, executed>>

Init == line = <<>> /\ underway = {} /\ settled = {} /\ executed = <<>>

Perform(m) ==
  /\ m \notin ToSet(line) \cup underway \cup settled
  /\ line' = Append(line, m)
  /\ UNCHANGED <<underway, settled, executed>>

Dispatch ==
  /\ line # <<>>
  /\ line' = Tail(line)
  /\ underway' = underway \cup {Head(line)}
  /\ UNCHANGED <<settled, executed>>

Execute(m) ==
  /\ m \in underway
  /\ executed' = Append(executed, m)
  /\ UNCHANGED <<line, underway, settled>>

Settle(m) ==
  /\ m \in underway
  /\ underway' = underway \ {m}
  /\ settled' = settled \cup {m}
  /\ UNCHANGED <<line, executed>>

Crash ==
  /\ underway' = {}
  /\ \/ line' = line
     \/ \E m \in (underway \cup settled) \ ToSet(line) : line' = <<m>> \o line
  /\ UNCHANGED <<settled, executed>>

Next ==
  \/ Dispatch \/ Crash
  \/ \E m \in Mutations : Perform(m) \/ Execute(m) \/ Settle(m)

Spec == Init /\ [][Next]_vars

(* What is on its way does not stay there for ever.                        *)
FairSpec == Spec /\ \A m \in Mutations : WF_vars(Settle(m))
=============================================================================
