------------------------------ MODULE JobQueue ------------------------------
(***************************************************************************)
(* The BullMQ queue as libs/queue/src/index.ts configures and uses it: one *)
(* job per execution (jobId = executionId), a bounded number of attempts   *)
(* with backoff, a lock per active job that the worker must keep alive,    *)
(* and the stalled-job check that takes back a job whose lock expired.     *)
(* BullMQ itself is external; the constants, the job options and the       *)
(* worker options are the code's.                                          *)
(***************************************************************************)
EXTENDS Naturals, ExecutionIds

CONSTANTS
  Slots,        \* concurrent processor invocations the workers can run
  Attempts,     \* defaultJobOptions.attempts
  MaxStalled    \* worker option maxStalledCount

ASSUME QueueAssumption ==
  /\ Attempts \in Nat \ {0}
  /\ MaxStalled \in Nat
  /\ None \notin Slots

VARIABLE job

JobStates == {"absent", "waiting", "active", "delayed", "completed", "failed"}
Finished  == {"completed", "failed"}

(* holder:  the slot whose token owns the lock of an active job.           *)
(* made:    attemptsMade, counted when an attempt ends with the lock held. *)
(* stalls:  stalledCounter.                                                *)
(* invoked: how often the processor was handed the job (history).          *)
Job == [state : JobStates, holder : Slots \cup {None},
        made : Nat, stalls : Nat, invoked : Nat]

NoJob == [state |-> "absent", holder |-> None,
          made |-> 0, stalls |-> 0, invoked |-> 0]

QueueTypeOK == job \in [Executions -> Job]

QueueInit == job = [e \in Executions |-> NoJob]

-----------------------------------------------------------------------------
(* queue.add with jobId = executionId: adding an id that exists is a no-op *)
Add(e) ==
  \/ /\ job[e].state = "absent"
     /\ job' = [job EXCEPT ![e].state = "waiting"]
  \/ /\ job[e].state # "absent"
     /\ UNCHANGED job

(* The stall over the limit leaves a deferred failure in the job: it still *)
(* goes back to waiting, but whoever fetches it next fails it for good     *)
(* without invoking the processor.                                         *)
Overdrawn(e) == job[e].stalls > MaxStalled

(* A worker fetches the job: it becomes active under the slot's lock.      *)
Take(e, s) ==
  /\ job[e].state = "waiting"
  /\ job' = [job EXCEPT ![e].state = "active", ![e].holder = s,
                        ![e].invoked = IF Overdrawn(e) THEN @ ELSE @ + 1]

Holds(e, s) == job[e].state = "active" /\ job[e].holder = s

(* The processor's promise resolved while the lock is still the slot's.    *)
MoveToCompleted(e, s) ==
  /\ Holds(e, s)
  /\ job' = [job EXCEPT ![e].state = "completed", ![e].holder = None,
                        ![e].made = @ + 1]

(* The processor's promise rejected: retry with backoff while attempts     *)
(* remain, otherwise, and after a deferred failure, the job has failed for *)
(* good.                                                                   *)
MoveToFailed(e, s) ==
  /\ Holds(e, s)
  /\ job' = [job EXCEPT ![e].state = IF job[e].made + 1 < Attempts /\ ~Overdrawn(e)
                                     THEN "delayed" ELSE "failed",
                        ![e].holder = None, ![e].made = @ + 1]

PromoteTooFew(e) ==
  /\ job[e].state = "delayed"
  /\ job[e].made < Attempts - 1
  /\ job' = [job EXCEPT ![e].state = "waiting"]

(* The exponential backoff of a delayed job is over.                       *)
Promote(e) ==
  /\ job[e].state = "delayed"
  /\ job' = [job EXCEPT ![e].state = "waiting"]

(* lockDuration passes without a renewal.                                  *)
ExpireLock(e) ==
  /\ job[e].state = "active"
  /\ job[e].holder # None
  /\ job' = [job EXCEPT ![e].holder = None]

MoveStalledUncounted(e) ==
  /\ job[e].state = "active"
  /\ job[e].holder = None
  /\ job' = [job EXCEPT ![e].state = "waiting"]

(* The stalled check: an active job without a lock goes back to waiting.   *)
MoveStalled(e) ==
  /\ job[e].state = "active"
  /\ job[e].holder = None
  /\ job' = [job EXCEPT ![e].state = "waiting", ![e].stalls = @ + 1]

-----------------------------------------------------------------------------
(* The queue on its own: any client may add, any slot may take and finish. *)
QueueNext ==
  \E e \in Executions :
    \/ Add(e)
    \/ Promote(e)
    \/ ExpireLock(e)
    \/ MoveStalled(e)
    \/ \E s \in Slots : \/ Take(e, s)
                        \/ MoveToCompleted(e, s)
                        \/ MoveToFailed(e, s)

QueueSpec == QueueInit /\ [][QueueNext]_job

-----------------------------------------------------------------------------
(* Whatever mix of failed attempts, expired locks and stalled recoveries,  *)
(* the submitted program is started at most attempts + maxStalledCount     *)
(* times (libs/queue/src/index.ts:22 and :54).                             *)
InvocationBound == \A e \in Executions : job[e].invoked <= Attempts + MaxStalled

(* What the processor's invocations were charged to, and what is left of   *)
(* the two budgets: up to the stall over the limit every invocation that   *)
(* is over was charged to an attempt or to a stall, after it there is none.*)
BudgetInv ==
  \A e \in Executions :
    /\ IF Overdrawn(e)
       THEN job[e].invoked \in 1..(Attempts + MaxStalled)
       ELSE job[e].invoked = job[e].made + job[e].stalls
                               + (IF job[e].state = "active" THEN 1 ELSE 0)
    /\ job[e].state \notin Finished => job[e].made < Attempts
    /\ job[e].made <= Attempts
    /\ job[e].state = "absent" => job[e] = NoJob
    /\ job[e].holder # None => job[e].state = "active"
=============================================================================
