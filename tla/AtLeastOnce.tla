---------------------------- MODULE AtLeastOnce ----------------------------
(***************************************************************************)
(* What the execution pipeline promises for one submission, without        *)
(* queues, workers, locks or rows: the program is tried at least once and  *)
(* at most Limit times; delivery needs a recorded outcome, which is never  *)
(* taken back; delivered and abandoned are final.  An outcome may be       *)
(* recorded by a try that is late, also after the submission was given up. *)
(***************************************************************************)
EXTENDS Naturals

CONSTANTS
  Executions,
  Limit         \* how often one submission may be tried

VARIABLES
  phase,        \* "none", "pending", "done" or "abandoned"
  tries,
  recorded      \* is an outcome stored

avars == <<phase, tries, recorded>>

AInit ==
  /\ phase = [e \in Executions |-> "none"]
  /\ tries = [e \in Executions |-> 0]
  /\ recorded = [e \in Executions |-> FALSE]

Accept(e) ==
  /\ phase[e] = "none"
  /\ phase' = [phase EXCEPT ![e] = "pending"]
  /\ UNCHANGED <<tries, recorded>>

Try(e) ==
  /\ phase[e] = "pending"
  /\ tries[e] < Limit
  /\ tries' = [tries EXCEPT ![e] = @ + 1]
  /\ UNCHANGED <<phase, recorded>>

Record(e) ==
  /\ tries[e] > 0
  /\ recorded' = [recorded EXCEPT ![e] = TRUE]
  /\ UNCHANGED <<phase, tries>>

Deliver(e) ==
  /\ phase[e] = "pending"
  /\ recorded[e]
  /\ phase' = [phase EXCEPT ![e] = "done"]
  /\ UNCHANGED <<tries, recorded>>

Abandon(e) ==
  /\ phase[e] = "pending"
  /\ tries[e] > 0
  /\ phase' = [phase EXCEPT ![e] = "abandoned"]
  /\ UNCHANGED <<tries, recorded>>

ANext ==
  \E e \in Executions :
    Accept(e) \/ Try(e) \/ Record(e) \/ Deliver(e) \/ Abandon(e)

ASpec == AInit /\ [][ANext]_avars
=============================================================================
