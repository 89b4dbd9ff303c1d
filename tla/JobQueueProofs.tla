--------------------------- MODULE JobQueueProofs ---------------------------
(***************************************************************************)
(* The queue for every number of executions, slots, attempts and stalls.   *)
(***************************************************************************)
EXTENDS JobQueue, TLAPS

(* The inductive invariant: the bound on the tries needs what they were    *)
(* charged to and what is left of the two budgets in each state.           *)
QueueInv == QueueTypeOK /\ BudgetInv

USE DEF JobStates, Finished, Overdrawn

(* No job exists at first, and nothing was charged.                        *)
LEMMA QueueInitInv == QueueInit => QueueInv
  BY QueueAssumption DEF QueueInit, QueueInv, QueueTypeOK, Job, NoJob,
     BudgetInv

(* Every operation of the queue keeps the ledger and the budgets.          *)
LEMMA QueueStepInv == QueueInv /\ [QueueNext]_job => QueueInv'
<1> SUFFICES ASSUME QueueInv, [QueueNext]_job
             PROVE  QueueInv'
  OBVIOUS
<1> USE QueueAssumption, NoneAssumption
<1>1. CASE UNCHANGED job
  BY <1>1 DEF QueueInv, QueueTypeOK, BudgetInv
<1>2. ASSUME NEW e \in Executions, Add(e)
      PROVE  QueueInv'
  BY <1>2 DEF Add, QueueInv, QueueTypeOK, Job, NoJob, BudgetInv
<1>3. ASSUME NEW e \in Executions, Promote(e)
      PROVE  QueueInv'
  BY <1>3 DEF Promote, QueueInv, QueueTypeOK, Job, NoJob, BudgetInv
<1>4. ASSUME NEW e \in Executions, ExpireLock(e)
      PROVE  QueueInv'
  BY <1>4 DEF ExpireLock, QueueInv, QueueTypeOK, Job, NoJob, BudgetInv
<1>5. ASSUME NEW e \in Executions, MoveStalled(e)
      PROVE  QueueInv'
  BY <1>5 DEF MoveStalled, QueueInv, QueueTypeOK, Job, NoJob, BudgetInv
<1>6. ASSUME NEW e \in Executions, NEW s \in Slots, Take(e, s)
      PROVE  QueueInv'
  BY <1>6 DEF Take, QueueInv, QueueTypeOK, Job, NoJob, BudgetInv
<1>7. ASSUME NEW e \in Executions, NEW s \in Slots, MoveToCompleted(e, s)
      PROVE  QueueInv'
  BY <1>7 DEF MoveToCompleted, Holds, QueueInv, QueueTypeOK, Job, NoJob, BudgetInv
<1>8. ASSUME NEW e \in Executions, NEW s \in Slots, MoveToFailed(e, s)
      PROVE  QueueInv'
  BY <1>8 DEF MoveToFailed, Holds, QueueInv, QueueTypeOK, Job, NoJob, BudgetInv
<1> QED
  BY <1>1, <1>2, <1>3, <1>4, <1>5, <1>6, <1>7, <1>8 DEF QueueNext

(* The two budgets together bound the tries.                               *)
LEMMA QueueInvBounds == QueueInv => InvocationBound
<1> SUFFICES ASSUME QueueInv, NEW e \in Executions
             PROVE  job[e].invoked <= Attempts + MaxStalled
  BY DEF InvocationBound
<1> USE QueueAssumption DEF QueueInv
<1>1. job[e] \in Job
  BY DEF QueueTypeOK
<1>2. CASE Overdrawn(e)
  BY <1>1, <1>2 DEF BudgetInv
<1>3. CASE ~Overdrawn(e) /\ job[e].state = "active"
  BY <1>1, <1>3 DEF BudgetInv, Job
<1>4. CASE ~Overdrawn(e) /\ job[e].state # "active"
  BY <1>1, <1>4 DEF BudgetInv, Job
<1> QED
  BY <1>2, <1>3, <1>4

(* No operation of the queue touches a finished job.                       *)
LEMMA QueueStepFinal ==
  QueueInv /\ [QueueNext]_job =>
    \A e \in Executions : job[e].state \in Finished => job'[e] = job[e]
<1> SUFFICES ASSUME QueueInv, [QueueNext]_job, NEW x \in Executions,
                    job[x].state \in Finished
             PROVE  job'[x] = job[x]
  OBVIOUS
<1>1. job \in [Executions -> Job]
  BY DEF QueueInv, QueueTypeOK
<1>2. CASE UNCHANGED job
  BY <1>2
<1>3. ASSUME NEW e \in Executions,
             Add(e) \/ Promote(e) \/ ExpireLock(e) \/ MoveStalled(e)
      PROVE  job'[x] = job[x]
  BY <1>1, <1>3 DEF Add, Promote, ExpireLock, MoveStalled
<1>4. ASSUME NEW e \in Executions, NEW s \in Slots,
             Take(e, s) \/ MoveToCompleted(e, s) \/ MoveToFailed(e, s)
      PROVE  job'[x] = job[x]
  BY <1>1, <1>4 DEF Take, MoveToCompleted, MoveToFailed, Holds
<1> QED
  BY <1>2, <1>3, <1>4 DEF QueueNext

-----------------------------------------------------------------------------
(* The inductive invariant holds throughout.                               *)
THEOREM QueueInvariant == QueueSpec => []QueueInv
  BY QueueInitInv, QueueStepInv, PTL DEF QueueSpec

(* A submitted program is started at most attempts + maxStalledCount times *)
(* (libs/queue/src/index.ts:22 and :54), for any values of the two.        *)
THEOREM BoundedInvocations == QueueSpec => []InvocationBound
  BY QueueInvariant, QueueInvBounds, PTL
=============================================================================
