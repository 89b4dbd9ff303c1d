--------------------------- MODULE PipelineProofs ---------------------------
(***************************************************************************)
(* The pipeline for every number of executions, workers and slots, every   *)
(* retry budget and any number of faults and outages.                      *)
(***************************************************************************)
EXTENDS Pipeline, JobQueueProofs

-----------------------------------------------------------------------------
(* Types.                                                                  *)

LEMMA InitTypeOK == Init => TypeOK
  BY FaultsAssumption, OutagesAssumption
  DEF Init, TypeOK, QueueInit, QueueTypeOK, NoJob, Job, JobStates, StoreInit, StoreTypeOK,
      NoRow, Row, Statuses, RouteInit, RouteTypeOK, RouteStates, ExecutorInit,
      ExecutorTypeOK, Run, Idle, PCs, EventTypes

(* Every row the code writes is a row of the table.                        *)
LEMMA RowTypes ==
  ASSUME StoreTypeOK, NEW e \in Executions
  PROVE  /\ NewRow \in Row
         /\ \A st \in Statuses : WithStatus(e, st) \in Row
         /\ \A n \in Nat : CompletedRow(e, n) \in Row
         /\ TimeoutRow(e) \in Row
         /\ FailedRow(e) \in Row
  BY DEF StoreTypeOK, Row, NewRow, NoRow, WithStatus, CompletedRow, TimeoutRow,
         FailedRow, Statuses

LEMMA WriteType ==
  ASSUME StoreTypeOK, NEW e \in Executions, NEW r \in Row,
         Write(e, r) \/ WriteFails(e, r)
  PROVE  StoreTypeOK'
  BY FaultsAssumption DEF StoreTypeOK, Write, WriteFails, Fault

LEMMA FaultType ==
  ASSUME StoreTypeOK, UNCHANGED row, Fault \/ UNCHANGED faults
  PROVE  StoreTypeOK'
  BY FaultsAssumption DEF StoreTypeOK, Fault

LEMMA GotoType ==
  ASSUME RouteTypeOK, NEW e \in Executions, NEW st \in RouteStates, Goto(e, st)
  PROVE  RouteTypeOK'
  BY DEF RouteTypeOK, Goto

RunType    == run \in [Slots -> Run]
EventsType == events \in [Executions -> SUBSET EventTypes]
WorkerType == worker \in [Workers -> {"up", "stopping", "down"}]

LEMMA JumpType ==
  ASSUME RunType, NEW s \in Slots, NEW pc \in PCs, Jump(s, pc)
  PROVE  RunType'
  BY DEF RunType, Run, Jump

LEMMA PublishType ==
  ASSUME EventsType, NEW e \in Executions, NEW type \in EventTypes, Publish(e, type)
  PROVE  EventsType'
  BY DEF EventsType, Publish

(* A busy slot runs some execution.                                        *)
BusyInv == \A s \in Slots : run[s].pc # "idle" => run[s].exec \in Executions

(* The job component of every step is a step of the queue on its own.      *)
LEMMA NextIsQueueStep == TypeOK /\ BusyInv /\ [Next]_vars => [QueueNext]_job
<1> SUFFICES ASSUME TypeOK, BusyInv, [Next]_vars
             PROVE  [QueueNext]_job
  OBVIOUS
<1>1. CASE UNCHANGED vars
  BY <1>1 DEF vars
<1>2. ASSUME NEW e \in Executions, RouteStep(e)
      PROVE  [QueueNext]_job
  BY <1>2 DEF RouteStep, Submit, CreateRow, Enqueue, MarkQueued, QueueNext
<1>3. ASSUME NEW e \in Executions, FetchStep(e)
      PROVE  [QueueNext]_job
  BY <1>3 DEF FetchStep, Fetch, QueueNext
<1>4. ASSUME NEW e \in Executions, QueueStep(e)
      PROVE  [QueueNext]_job
  BY <1>4 DEF QueueStep, ExpireDeadLock, CheckStalled, QueueNext
<1>5. ASSUME NEW e \in Executions, LoseLockStep(e)
      PROVE  [QueueNext]_job
  BY <1>5 DEF LoseLockStep, LoseLock, QueueNext
<1>6. ASSUME NEW s \in Slots, SlotStep(s)
      PROVE  [QueueNext]_job
  <2>1. CASE Settle(s)
    <3>1. Exec(s) \in Executions
      BY <2>1 DEF BusyInv, Settle, Exec
    <3> QED
      BY <2>1, <3>1 DEF Settle, QueueNext
  <2>2. CASE UNCHANGED job
    BY <2>2
  <2> QED
    BY <1>6, <2>1, <2>2 DEF SlotStep, Process, Begin, Announce, RunSandbox, Log,
       RecordTimeout, RecordCompleted, FinalProgress, PublishOutcome, Catch,
       PublishFailed
<1>7. ASSUME NEW w \in Workers, ExitStep(w) \/ BootStep(w) \/ WorkerOutage(w)
      PROVE  [QueueNext]_job
  BY <1>7 DEF ExitStep, BootStep, WorkerOutage
<1>8. CASE ApiCrashStep
  BY <1>8 DEF ApiCrashStep, ApiCrash
<1> QED
  BY <1>1, <1>2, <1>3, <1>4, <1>5, <1>6, <1>7, <1>8 DEF Next

(* What the parts of TypeOK other than the queue's need of a step.         *)
OwnTypes == StoreTypeOK /\ RouteTypeOK /\ ExecutorTypeOK /\ outages \in 0..MaxOutages

LEMMA OutageType ==
  ASSUME outages \in 0..MaxOutages, Outage
  PROVE  outages' \in 0..MaxOutages
  BY OutagesAssumption DEF Outage

(* updateProgress and the row updates of a run.                            *)
LEMMA UpdateProgressType ==
  ASSUME StoreTypeOK, RunType, UNCHANGED row,
         NEW s \in Slots, NEW pc \in PCs, UpdateProgress(s, pc)
  PROVE  StoreTypeOK' /\ RunType'
<1>1. "catch" \in PCs
  BY DEF PCs
<1> QED
  BY <1>1, FaultType, JumpType DEF UpdateProgress

LEMMA UpdateType ==
  ASSUME StoreTypeOK, RunType, NEW s \in Slots, Exec(s) \in Executions,
         NEW r \in Row, NEW pc \in PCs, Update(s, r, pc)
  PROVE  StoreTypeOK' /\ RunType'
<1>1. "catch" \in PCs
  BY DEF PCs
<1> QED
  BY <1>1, WriteType, JumpType DEF Update

(* Every step of a slot keeps the types.                                   *)
LEMMA SlotStepTypes ==
  ASSUME OwnTypes, BusyInv, NEW s \in Slots, SlotStep(s)
  PROVE  OwnTypes'
<1> USE DEF OwnTypes, ExecutorTypeOK, RunType, EventsType
<1>1. UNCHANGED <<route, worker, outages>>
  BY DEF SlotStep
<1>2. RouteTypeOK' /\ WorkerType' /\ outages' \in 0..MaxOutages
  BY <1>1 DEF RouteTypeOK, WorkerType
<1>3. SUFFICES StoreTypeOK' /\ RunType' /\ EventsType'
  BY <1>2 DEF WorkerType
<1>4. /\ {"begin", "announce", "sandbox", "log", "record", "progress", "publish",
          "resolved", "catch", "publishFailed", "rejected"} \subseteq PCs
      /\ EventTypes = {"started", "log", "completed", "timeout", "failed"}
      /\ {"RUNNING", "QUEUED"} \subseteq Statuses
  BY DEF PCs, EventTypes, Statuses
<1>5. run[s].pc # "idle" => Exec(s) \in Executions
  BY DEF BusyInv, Exec
<1>6. CASE Begin(s)
  BY <1>4, <1>5, <1>6, RowTypes, UpdateType, JumpType DEF Begin, StoreTypeOK
<1>7. CASE Announce(s)
  BY <1>4, <1>5, <1>7, UpdateProgressType, PublishType DEF Announce
<1>8. CASE RunSandbox(s)
  BY <1>4, <1>8 DEF RunSandbox, Run, StoreTypeOK
<1>9. CASE Log(s)
  BY <1>4, <1>5, <1>9, UpdateProgressType, PublishType DEF Log
<1>10. CASE RecordTimeout(s)
  BY <1>4, <1>5, <1>10, RowTypes, UpdateType DEF RecordTimeout
<1>11. CASE RecordCompleted(s)
  <2>1. run[s].case \in Nat
    BY DEF Run
  <2> QED
    BY <1>4, <1>5, <1>11, <2>1, RowTypes, UpdateType DEF RecordCompleted
<1>12. CASE FinalProgress(s)
  BY <1>4, <1>12, UpdateProgressType DEF FinalProgress
<1>13. CASE PublishOutcome(s)
  BY <1>4, <1>5, <1>13, JumpType, PublishType DEF PublishOutcome, StoreTypeOK
<1>14. CASE Catch(s)
  BY <1>4, <1>5, <1>14, RowTypes, WriteType, JumpType DEF Catch
<1>15. CASE PublishFailed(s)
  BY <1>4, <1>5, <1>15, JumpType, PublishType DEF PublishFailed, StoreTypeOK
<1>16. CASE Settle(s)
  BY <1>16 DEF Settle, FreeSlot, Idle, Run, PCs, StoreTypeOK
<1> QED
  BY <1>6, <1>7, <1>8, <1>9, <1>10, <1>11, <1>12, <1>13, <1>14, <1>15, <1>16
  DEF SlotStep, Process

(* And so does every other step.                                           *)
LEMMA NextTypes ==
  ASSUME OwnTypes, BusyInv, [Next]_vars
  PROVE  OwnTypes'
<1>1. CASE UNCHANGED vars
  BY <1>1 DEF vars, OwnTypes, StoreTypeOK, RouteTypeOK, ExecutorTypeOK
<1>2. ASSUME NEW e \in Executions, RouteStep(e)
      PROVE  OwnTypes'
  <2>1. ExecutorTypeOK' /\ outages' \in 0..MaxOutages
    BY <1>2 DEF RouteStep, OwnTypes, ExecutorTypeOK, workerVars
  <2>2. StoreTypeOK'
    BY <1>2, RowTypes, WriteType, FaultType
    DEF RouteStep, Submit, CreateRow, Enqueue, MarkQueued, OwnTypes, Statuses
  <2>3. RouteTypeOK'
    BY <1>2, GotoType
    DEF RouteStep, Submit, CreateRow, Enqueue, MarkQueued, OwnTypes, RouteStates
  <2> QED
    BY <2>1, <2>2, <2>3 DEF OwnTypes
<1>3. ASSUME NEW e \in Executions, FetchStep(e)
      PROVE  OwnTypes'
  <2>1. PICK s \in Slots : Fetch(s, e)
    BY <1>3 DEF FetchStep
  <2>2. [Idle EXCEPT !.pc = IF Overdrawn(e) THEN "rejected" ELSE "begin",
                     !.exec = e] \in Run
    BY DEF Idle, Run, PCs
  <2>3. run' \in [Slots -> Run]
    BY <2>1, <2>2 DEF Fetch, OwnTypes, ExecutorTypeOK
  <2> QED
    BY <1>3, <2>1, <2>3
    DEF FetchStep, Fetch, OwnTypes, StoreTypeOK, RouteTypeOK, ExecutorTypeOK
<1>4. ASSUME NEW e \in Executions, QueueStep(e)
      PROVE  OwnTypes'
  BY <1>4 DEF QueueStep, workerVars, OwnTypes, StoreTypeOK, RouteTypeOK, ExecutorTypeOK
<1>5. ASSUME NEW e \in Executions, LoseLockStep(e)
      PROVE  OwnTypes'
  BY <1>5, OutageType
  DEF LoseLockStep, workerVars, OwnTypes, StoreTypeOK, RouteTypeOK, ExecutorTypeOK
<1>6. ASSUME NEW s \in Slots, SlotStep(s)
      PROVE  OwnTypes'
  BY <1>6, SlotStepTypes
<1>7. ASSUME NEW w \in Workers, ExitStep(w) \/ BootStep(w)
      PROVE  OwnTypes'
  BY <1>7 DEF ExitStep, Exit, BootStep, Boot, OwnTypes, StoreTypeOK, RouteTypeOK,
     ExecutorTypeOK
<1>8. ASSUME NEW w \in Workers, WorkerOutage(w)
      PROVE  OwnTypes'
  BY <1>8, OutageType DEF WorkerOutage, Shutdown, Crash, OwnTypes, StoreTypeOK,
     RouteTypeOK, ExecutorTypeOK, Run, Idle, PCs
<1>9. CASE ApiCrashStep
  <2>1. RouteTypeOK'
    BY <1>9 DEF ApiCrashStep, ApiCrash, OwnTypes, RouteTypeOK, RouteStates
  <2>2. StoreTypeOK' /\ ExecutorTypeOK' /\ outages' \in 0..MaxOutages
    BY <1>9, OutageType DEF ApiCrashStep, ApiCrash, workerVars, OwnTypes, StoreTypeOK,
       ExecutorTypeOK
  <2> QED
    BY <2>1, <2>2 DEF OwnTypes
<1> QED
  BY <1>1, <1>2, <1>3, <1>4, <1>5, <1>6, <1>7, <1>8, <1>9 DEF Next

-----------------------------------------------------------------------------
(* The inductive invariant.                                                *)

(* A run was charged to its job, and past the point where it stores an     *)
(* outcome the outcome is there.                                           *)
RunInv ==
  \A s \in Slots : run[s].pc # "idle" =>
    /\ run[s].exec \in Executions
    /\ job[run[s].exec].invoked > 0
    /\ run[s].pc \in {"progress", "publish", "resolved"} =>
         row[run[s].exec].result # "none"

(* A request adds its job only after its row; nobody else does.            *)
RequestInv ==
  \A e \in Executions :
    /\ route[e] \in {"idle", "created"} => job[e].state = "absent"
    /\ route[e] \in {"created", "enqueued"} => row[e].status # "ABSENT"

(* Outcomes and events come from runs.                                     *)
TraceInv ==
  \A e \in Executions :
    row[e].result # "none" \/ events[e] # {} => job[e].invoked > 0

PInv ==
  /\ TypeOK /\ QueueInv
  /\ RunInv /\ RequestInv /\ TraceInv
  /\ JobHasRow /\ EventBacked /\ ResultKept

LEMMA InitPInv == Init => PInv
<1> SUFFICES ASSUME Init PROVE PInv
  OBVIOUS
<1>1. TypeOK /\ QueueInv
  BY InitTypeOK, QueueInitInv DEF Init
<1> QED
  BY <1>1 DEF Init, PInv, QueueInit, NoJob, StoreInit, NoRow, RouteInit, ExecutorInit,
     Idle, RunInv, RequestInv, TraceInv, JobHasRow, EventBacked, ResultKept

(* What a step of the queue may do to the job of an execution, as far as   *)
(* the other components can tell.                                          *)
LEMMA QueueEffect ==
  ASSUME QueueInv, [QueueNext]_job, NEW e \in Executions
  PROVE  /\ job[e].invoked \in Nat /\ job'[e].invoked \in Nat
         /\ job'[e].invoked >= job[e].invoked
         /\ job[e].invoked > 0 => job[e].state # "absent"
         /\ job[e].state # "absent" => job'[e].state # "absent"
<1>1. job \in [Executions -> Job] /\ (job[e].state = "absent" => job[e] = NoJob)
  BY DEF QueueInv, QueueTypeOK, BudgetInv
<1>2. job[e].invoked \in Nat /\ (job[e].invoked > 0 => job[e].state # "absent")
  BY <1>1 DEF Job, NoJob
<1>3. CASE UNCHANGED job
  BY <1>1, <1>2, <1>3
<1>4. ASSUME NEW x \in Executions,
             Add(x) \/ Promote(x) \/ ExpireLock(x) \/ MoveStalled(x)
      PROVE  job'[e].invoked = job[e].invoked
             /\ (job[e].state # "absent" => job'[e].state # "absent")
  BY <1>1, <1>4 DEF Add, Promote, ExpireLock, MoveStalled, Job
<1>5. ASSUME NEW x \in Executions, NEW s \in Slots,
             MoveToCompleted(x, s) \/ MoveToFailed(x, s)
      PROVE  job'[e].invoked = job[e].invoked
             /\ (job[e].state # "absent" => job'[e].state # "absent")
  BY <1>1, <1>5 DEF MoveToCompleted, MoveToFailed, Holds, Job
<1>6. ASSUME NEW x \in Executions, NEW s \in Slots, Take(x, s)
      PROVE  /\ job'[e].invoked \in {job[e].invoked, job[e].invoked + 1}
             /\ job[e].state # "absent" => job'[e].state # "absent"
  BY <1>1, <1>6 DEF Take, Job
<1> QED
  BY <1>2, <1>3, <1>4, <1>5, <1>6 DEF QueueNext

(* Rows only fill up: no update takes an outcome back or unmakes a row.    *)
RowsGrow ==
  \A e \in Executions :
    /\ row[e].result # "none" => row'[e].result # "none"
    /\ row[e].status # "ABSENT" => row'[e].status # "ABSENT"

GoodUpdate(e, r) ==
  /\ r \in Row
  /\ r.status # "ABSENT"
  /\ row[e].result # "none" => r.result # "none"

LEMMA WriteGrows ==
  ASSUME StoreTypeOK, NEW e \in Executions, NEW r, GoodUpdate(e, r),
         Write(e, r) \/ WriteFails(e, r)
  PROVE  RowsGrow
  BY DEF StoreTypeOK, Write, WriteFails, RowsGrow, GoodUpdate

(* The updates a run and a request make are of that kind.                  *)
LEMMA UpdatesGrow ==
  ASSUME StoreTypeOK, NEW e \in Executions
  PROVE  /\ GoodUpdate(e, WithStatus(e, "RUNNING"))
         /\ GoodUpdate(e, WithStatus(e, "QUEUED"))
         /\ \A n \in Nat : GoodUpdate(e, CompletedRow(e, n))
         /\ GoodUpdate(e, TimeoutRow(e))
         /\ GoodUpdate(e, FailedRow(e))
<1>1. row[e] \in Row
  BY DEF StoreTypeOK
<1>2. ASSUME NEW st \in {"RUNNING", "QUEUED"}
      PROVE  GoodUpdate(e, WithStatus(e, st))
  BY <1>1 DEF GoodUpdate, WithStatus, Row, Statuses
<1>3. ASSUME NEW n \in Nat
      PROVE  GoodUpdate(e, CompletedRow(e, n))
  BY <1>1 DEF GoodUpdate, CompletedRow, Row, Statuses
<1>4. GoodUpdate(e, TimeoutRow(e))
  BY <1>1 DEF GoodUpdate, TimeoutRow, Row, Statuses
<1>5. GoodUpdate(e, FailedRow(e))
  BY <1>1 DEF GoodUpdate, FailedRow, Row, Statuses
<1> QED
  BY <1>2, <1>3, <1>4, <1>5

(* What a step of a slot leaves alone.                                     *)
SlotFrame(s) ==
  /\ run[s].pc # "idle"
  /\ \A t \in Slots : t # s => run'[t] = run[t]
  /\ run'[s].pc # "idle" => run'[s].exec = run[s].exec
  /\ \A e \in Executions : e # Exec(s) =>
       row'[e] = row[e] /\ events'[e] = events[e] /\ job'[e] = job[e]

LEMMA SlotStepFrame ==
  ASSUME TypeOK, NEW s \in Slots, SlotStep(s)
  PROVE  SlotFrame(s)
<1>1. /\ run \in [Slots -> Run] /\ row \in [Executions -> Row]
      /\ events \in [Executions -> SUBSET EventTypes] /\ job \in [Executions -> Job]
  BY DEF TypeOK, ExecutorTypeOK, StoreTypeOK, QueueTypeOK
<1> USE <1>1 DEF SlotFrame, Jump, Publish, UpdateProgress, Update, Write, WriteFails, Run
<1>2. CASE Begin(s)
  BY <1>2 DEF Begin
<1>3. CASE Announce(s) \/ Log(s) \/ FinalProgress(s)
  BY <1>3 DEF Announce, Log, FinalProgress
<1>4. CASE RunSandbox(s)
  BY <1>4 DEF RunSandbox
<1>5. CASE RecordTimeout(s) \/ RecordCompleted(s)
  BY <1>5 DEF RecordTimeout, RecordCompleted
<1>6. CASE PublishOutcome(s) \/ PublishFailed(s)
  BY <1>6 DEF PublishOutcome, PublishFailed
<1>7. CASE Catch(s)
  BY <1>7 DEF Catch
<1>8. CASE Settle(s)
  BY <1>8 DEF Settle, FreeSlot, Idle, MoveToCompleted, MoveToFailed
<1> QED
  BY <1>2, <1>3, <1>4, <1>5, <1>6, <1>7, <1>8 DEF SlotStep, Process

LEMMA SlotStepGrows ==
  ASSUME TypeOK, BusyInv, NEW s \in Slots, SlotStep(s)
  PROVE  RowsGrow
<1>1. StoreTypeOK /\ run[s] \in Run
  BY DEF TypeOK, ExecutorTypeOK
<1>2. CASE UNCHANGED row
  BY <1>2 DEF RowsGrow
<1>3. ASSUME ~UNCHANGED row
      PROVE  \E r \in {WithStatus(Exec(s), "RUNNING"), TimeoutRow(Exec(s)),
                       CompletedRow(Exec(s), run[s].case), FailedRow(Exec(s))} :
               /\ run[s].pc # "idle"
               /\ Write(Exec(s), r) \/ WriteFails(Exec(s), r)
  BY <1>3 DEF SlotStep, Process, Begin, Announce, RunSandbox, Log, RecordTimeout,
     RecordCompleted, FinalProgress, PublishOutcome, Catch, PublishFailed, Settle, Update
<1>4. run[s].pc # "idle" => Exec(s) \in Executions
  BY DEF BusyInv, Exec
<1>5. run[s].case \in Nat
  BY <1>1 DEF Run
<1> QED
  BY <1>1, <1>2, <1>3, <1>4, <1>5, UpdatesGrow, WriteGrows

(* The events of an unfinished run tell of no outcome.                     *)
LEMMA PublishQuiet ==
  ASSUME EventsType, NEW e \in Executions,
         Publish(e, "started") \/ Publish(e, "log") \/ Publish(e, "failed")
  PROVE  events'[e] \cap {"completed", "timeout"} \subseteq events[e]
  BY DEF EventsType, Publish

(* A write that went through is in the row.                                *)
LEMMA UpdateLands ==
  ASSUME StoreTypeOK, RunType, NEW s \in Slots, Exec(s) \in Executions,
         NEW r, NEW pc, Update(s, r, pc)
  PROVE  \/ run'[s].pc = pc /\ row'[Exec(s)] = r
         \/ run'[s].pc = "catch"
  BY DEF StoreTypeOK, RunType, Run, Update, Jump, Write

(* After the outcome is stored it is there; before, nothing tells of it.   *)
LEMMA SlotStepOutcome ==
  ASSUME TypeOK, RunInv, NEW s \in Slots, SlotStep(s)
  PROVE  /\ run'[s].pc \in {"progress", "publish", "resolved"} =>
              row'[Exec(s)].result # "none"
         /\ \/ events'[Exec(s)] \cap {"completed", "timeout"}
                 \subseteq events[Exec(s)]
            \/ row'[Exec(s)].result # "none"
<1>1. StoreTypeOK /\ RunType /\ EventsType
  BY DEF TypeOK, ExecutorTypeOK, RunType, EventsType
<1>2. run[s].pc # "idle" => Exec(s) \in Executions
  BY DEF RunInv, Exec
<1>3. run[s].pc \in {"progress", "publish", "resolved"} => row[Exec(s)].result # "none"
  BY DEF RunInv, Exec
<1>4. ASSUME NEW pc, Jump(s, pc)
      PROVE  run'[s].pc = pc
  BY <1>1, <1>4 DEF RunType, Run, Jump
<1>5. CASE Begin(s)
  BY <1>1, <1>2, <1>4, <1>5, UpdateLands DEF Begin
<1>6. CASE Announce(s) \/ Log(s)
  <2>1. events'[Exec(s)] \cap {"completed", "timeout"} \subseteq events[Exec(s)]
    BY <1>1, <1>2, <1>6, PublishQuiet DEF Announce, Log
  <2>2. run'[s].pc \in {"sandbox", "record", "catch"}
    BY <1>4, <1>6 DEF Announce, Log, UpdateProgress
  <2> QED
    BY <2>1, <2>2
<1>7. CASE RunSandbox(s)
  BY <1>1, <1>7 DEF RunSandbox, RunType, Run
<1>8. CASE RecordTimeout(s)
  <2>1. TimeoutRow(Exec(s)).result = "timeout"
    BY <1>1, <1>2, <1>8 DEF TimeoutRow, StoreTypeOK, Row, RecordTimeout
  <2> QED
    BY <1>1, <1>2, <1>8, <2>1, UpdateLands DEF RecordTimeout
<1>9. CASE RecordCompleted(s)
  <2>1. CompletedRow(Exec(s), run[s].case).result = "output"
    BY <1>1, <1>2, <1>9 DEF CompletedRow, StoreTypeOK, Row, RecordCompleted
  <2> QED
    BY <1>1, <1>2, <1>9, <2>1, UpdateLands DEF RecordCompleted
<1>10. CASE FinalProgress(s)
  BY <1>3, <1>4, <1>10 DEF FinalProgress
<1>11. CASE PublishOutcome(s)
  BY <1>3, <1>4, <1>11 DEF PublishOutcome
<1>12. CASE Catch(s)
  BY <1>4, <1>12 DEF Catch
<1>13. CASE PublishFailed(s)
  BY <1>1, <1>2, <1>4, <1>13, PublishQuiet DEF PublishFailed
<1>14. CASE Settle(s)
  BY <1>1, <1>14 DEF Settle, FreeSlot, Idle, RunType
<1> QED
  BY <1>5, <1>6, <1>7, <1>8, <1>9, <1>10, <1>11, <1>12, <1>13, <1>14
  DEF SlotStep, Process

-----------------------------------------------------------------------------
(* The invariant is inductive, action by action.                           *)

(* What every step contributes through the queue.                          *)
LEMMA NextBasics ==
  ASSUME PInv, [Next]_vars
  PROVE  /\ BusyInv /\ TypeOK' /\ QueueInv'
         /\ \A e \in Executions :
              /\ job[e].invoked \in Nat /\ job'[e].invoked \in Nat
              /\ job'[e].invoked >= job[e].invoked
              /\ job[e].invoked > 0 => job[e].state # "absent"
              /\ job[e].state # "absent" => job'[e].state # "absent"
<1>1. TypeOK /\ QueueInv /\ BusyInv
  BY DEF PInv, RunInv, BusyInv
<1>2. [QueueNext]_job
  BY <1>1, NextIsQueueStep
<1>3. QueueInv'
  BY <1>1, <1>2, QueueStepInv
<1>4. OwnTypes'
  BY <1>1, NextTypes DEF TypeOK, OwnTypes
<1> QED
  BY <1>1, <1>2, <1>3, <1>4, QueueEffect DEF TypeOK, OwnTypes, QueueInv

LEMMA SlotStepPInv ==
  ASSUME PInv, NEW s \in Slots, SlotStep(s)
  PROVE  PInv'
<1>1. [Next]_vars
  BY DEF Next
<1> USE NextBasics, <1>1
<1>2. TypeOK /\ RunInv /\ SlotFrame(s) /\ RowsGrow
  BY SlotStepFrame, SlotStepGrows DEF PInv
<1>3. /\ run'[s].pc \in {"progress", "publish", "resolved"} =>
           row'[Exec(s)].result # "none"
      /\ \/ events'[Exec(s)] \cap {"completed", "timeout"} \subseteq events[Exec(s)]
         \/ row'[Exec(s)].result # "none"
  BY <1>2, SlotStepOutcome
<1>4. Exec(s) \in Executions /\ job[Exec(s)].invoked > 0
  BY <1>2 DEF RunInv, SlotFrame, Exec
<1>5. RunInv'
  BY <1>2, <1>3, <1>4 DEF RunInv, SlotFrame, RowsGrow, Exec
<1>6. RequestInv'
  <2>1. UNCHANGED route
    BY DEF SlotStep
  <2> QED
    BY <1>2, <1>4, <2>1 DEF PInv, RequestInv, SlotFrame, RowsGrow
<1>7. TraceInv'
  BY <1>2, <1>4 DEF PInv, TraceInv, SlotFrame
<1>8. JobHasRow'
  BY <1>2, <1>4 DEF PInv, JobHasRow, SlotFrame, RowsGrow
<1>9. EventBacked'
  <2> SUFFICES ASSUME NEW e \in Executions,
                      events'[e] \cap {"completed", "timeout"} # {}
               PROVE  row'[e].result # "none"
    BY DEF EventBacked
  <2>1. CASE e = Exec(s) /\ row'[e].result = "none"
    <3>1. events[e] \cap {"completed", "timeout"} # {}
      BY <1>3, <2>1
    <3> QED
      BY <1>2, <2>1, <3>1 DEF PInv, EventBacked, RowsGrow
  <2>2. CASE e # Exec(s)
    BY <1>2, <2>2 DEF PInv, EventBacked, SlotFrame
  <2> QED
    BY <2>1, <2>2
<1>10. ResultKept'
  <2> SUFFICES ASSUME NEW e \in Executions, job'[e].state = "completed"
               PROVE  row'[e].result # "none"
    BY DEF ResultKept
  <2>1. CASE job[e].state = "completed"
    BY <1>2, <2>1 DEF PInv, ResultKept, RowsGrow
  <2>2. CASE job[e].state # "completed"
    <3>1. e = Exec(s)
      BY <1>2, <2>2 DEF SlotFrame
    <3>2. Settle(s)
      BY <2>2 DEF SlotStep, Process, Begin, Announce, RunSandbox, Log, RecordTimeout,
         RecordCompleted, FinalProgress, PublishOutcome, Catch, PublishFailed
    <3>3. job[e].state # "absent" /\ job \in [Executions -> Job]
      BY <1>4, <3>1 DEF PInv, QueueInv, QueueTypeOK
    <3>4. run[s].pc = "resolved" /\ UNCHANGED row
      BY <2>2, <3>1, <3>2, <3>3 DEF Settle, MoveToFailed, Job
    <3> QED
      BY <1>2, <3>1, <3>4 DEF RunInv, Exec
  <2> QED
    BY <2>1, <2>2
<1> QED
  BY <1>5, <1>6, <1>7, <1>8, <1>9, <1>10 DEF PInv

LEMMA RouteStepPInv ==
  ASSUME PInv, NEW x \in Executions, RouteStep(x)
  PROVE  PInv'
<1>1. [Next]_vars
  BY DEF Next
<1>2. /\ StoreTypeOK /\ job \in [Executions -> Job] /\ row \in [Executions -> Row]
      /\ route \in [Executions -> RouteStates]
  BY DEF PInv, TypeOK, QueueTypeOK, StoreTypeOK, RouteTypeOK
<1>3. UNCHANGED <<run, events>>
  BY DEF RouteStep, workerVars
<1> USE NextBasics, <1>1, <1>2, <1>3
<1>4. CASE CreateRow(x)
  <2>1. job' = job /\ job[x].state = "absent" /\ ~(job[x].invoked > 0)
    BY <1>4 DEF CreateRow, PInv, RequestInv
  <2>2. row[x].result = "none" /\ events[x] = {}
    BY <2>1 DEF PInv, TraceInv
  <2>3. /\ \A e \in Executions : e # x => row'[e] = row[e] /\ route'[e] = route[e]
        /\ row'[x] = row[x] \/ row'[x] = NewRow
        /\ \/ route'[x] = "created" /\ row'[x] = NewRow
           \/ route'[x] = "refused"
    BY <1>4 DEF CreateRow, Write, WriteFails, Goto, Fault, RouteStates
  <2>4. NewRow.result = "none" /\ NewRow.status = "PENDING"
    BY DEF NewRow, NoRow
  <2>5. RunInv'
    BY <2>1, <2>3 DEF PInv, RunInv
  <2>6. RequestInv'
    BY <2>1, <2>3, <2>4 DEF PInv, RequestInv
  <2>7. TraceInv'
    BY <2>1, <2>2, <2>3, <2>4 DEF PInv, TraceInv
  <2>8. JobHasRow' /\ EventBacked' /\ ResultKept'
    BY <2>1, <2>2, <2>3 DEF PInv, JobHasRow, EventBacked, ResultKept
  <2> QED
    BY <2>5, <2>6, <2>7, <2>8 DEF PInv
<1>5. CASE Enqueue(x)
  <2>1. /\ UNCHANGED row /\ route[x] = "created"
        /\ route'[x] \in {"enqueued", "refused"}
        /\ \A e \in Executions : e # x => job'[e] = job[e] /\ route'[e] = route[e]
        /\ job'[x].state # "completed"
    BY <1>5 DEF Enqueue, Add, Goto, RouteStates, Job, PInv, RequestInv
  <2>2. row[x].status # "ABSENT"
    BY <2>1 DEF PInv, RequestInv
  <2>3. RunInv'
    BY <2>1 DEF PInv, RunInv
  <2>4. RequestInv' /\ JobHasRow'
    BY <2>1, <2>2 DEF PInv, RequestInv, JobHasRow
  <2>5. TraceInv' /\ EventBacked' /\ ResultKept'
    BY <2>1 DEF PInv, TraceInv, EventBacked, ResultKept
  <2> QED
    BY <2>3, <2>4, <2>5 DEF PInv
<1>6. CASE MarkQueued(x)
  <2>1. /\ UNCHANGED job /\ route[x] = "enqueued"
        /\ route'[x] \in {"accepted", "refused"}
        /\ \A e \in Executions : e # x => row'[e] = row[e] /\ route'[e] = route[e]
        /\ row'[x] = row[x] \/ row'[x] = WithStatus(x, "QUEUED")
    BY <1>6 DEF MarkQueued, Write, WriteFails, Goto, Fault, RouteStates
  <2>2. /\ row'[x].result = row[x].result
        /\ row[x].status # "ABSENT" => row'[x].status # "ABSENT"
    BY <2>1 DEF WithStatus, Row
  <2>3. RunInv'
    BY <2>1, <2>2 DEF PInv, RunInv
  <2>4. RequestInv' /\ JobHasRow'
    BY <2>1, <2>2 DEF PInv, RequestInv, JobHasRow
  <2>5. TraceInv' /\ EventBacked' /\ ResultKept'
    BY <2>1, <2>2 DEF PInv, TraceInv, EventBacked, ResultKept
  <2> QED
    BY <2>3, <2>4, <2>5 DEF PInv
<1> QED
  BY <1>4, <1>5, <1>6 DEF RouteStep, Submit

(* Steps that leave every row, event and request alone.                    *)
LEMMA QuietStepPInv ==
  ASSUME PInv, [Next]_vars, UNCHANGED <<row, events>>,
         \A e \in Executions : job'[e].state = "absent" <=> job[e].state = "absent",
         \A e \in Executions : job'[e].state = "completed" => job[e].state = "completed",
         \A e \in Executions : route'[e] \in {route[e], "gone"},
         \A s \in Slots : run'[s].pc # "idle" =>
           \/ run'[s] = run[s]
           \/ /\ run'[s].pc \in {"begin", "rejected"}
              /\ run'[s].exec \in Executions /\ job'[run'[s].exec].invoked > 0
  PROVE  PInv'
<1> USE NextBasics
<1>1. RunInv'
  BY DEF PInv, RunInv
<1>2. RequestInv' /\ TraceInv'
  BY DEF PInv, RequestInv, TraceInv
<1>3. JobHasRow' /\ EventBacked' /\ ResultKept'
  BY DEF PInv, JobHasRow, EventBacked, ResultKept
<1> QED
  BY <1>1, <1>2, <1>3 DEF PInv

LEMMA NextPInv == PInv /\ [Next]_vars => PInv'
<1> SUFFICES ASSUME PInv, [Next]_vars
             PROVE  PInv'
  OBVIOUS
<1>1. /\ job \in [Executions -> Job] /\ run \in [Slots -> Run]
      /\ route \in [Executions -> RouteStates]
  BY DEF PInv, TypeOK, QueueTypeOK, ExecutorTypeOK, RouteTypeOK
<1>2. CASE UNCHANGED vars
  BY <1>2, QuietStepPInv DEF vars
<1>3. ASSUME NEW e \in Executions, RouteStep(e)
      PROVE  PInv'
  BY <1>3, RouteStepPInv
<1>4. ASSUME NEW e \in Executions, FetchStep(e)
      PROVE  PInv'
  <2>1. PICK s \in Slots : Fetch(s, e)
    BY <1>4 DEF FetchStep
  <2>2. UNCHANGED <<row, events, route>>
    BY <1>4, <2>1 DEF FetchStep, Fetch
  <2>3. /\ \A x \in Executions : x # e => job'[x] = job[x]
        /\ job[e].state = "waiting" /\ job'[e].state = "active"
        /\ job'[e].invoked = IF Overdrawn(e) THEN job[e].invoked
                                             ELSE job[e].invoked + 1
    BY <1>1, <2>1 DEF Fetch, Take, Job
  <2>4. /\ \A t \in Slots : t # s => run'[t] = run[t]
        /\ run'[s].pc \in {"begin", "rejected"} /\ run'[s].exec = e
    BY <1>1, <2>1 DEF Fetch, Idle
  <2>5. job'[e].invoked > 0
    <3>1. Overdrawn(e) => job[e].invoked > 0
      BY QueueAssumption DEF PInv, QueueInv, BudgetInv
    <3> QED
      BY <1>1, <2>3, <3>1 DEF Job
  <2> QED
    BY <2>2, <2>3, <2>4, <2>5, QuietStepPInv
<1>5. ASSUME NEW e \in Executions, QueueStep(e) \/ LoseLockStep(e)
      PROVE  PInv'
  <2>1. UNCHANGED <<row, route, run, events>>
    BY <1>5 DEF QueueStep, LoseLockStep, workerVars
  <2>2. /\ \A x \in Executions : x # e => job'[x] = job[x]
        /\ job[e].state # "absent"
        /\ job'[e].state \in {"waiting", "active"}
    BY <1>1, <1>5 DEF QueueStep, LoseLockStep, Promote, ExpireDeadLock, CheckStalled,
       LoseLock, ExpireLock, MoveStalled, Job
  <2> QED
    BY <2>1, <2>2, QuietStepPInv
<1>6. ASSUME NEW s \in Slots, SlotStep(s)
      PROVE  PInv'
  BY <1>6, SlotStepPInv
<1>7. ASSUME NEW w \in Workers, ExitStep(w) \/ BootStep(w) \/ WorkerOutage(w)
      PROVE  PInv'
  <2>1. UNCHANGED <<job, row, events, route>>
    BY <1>7 DEF ExitStep, BootStep, WorkerOutage
  <2>2. \A s \in Slots : run'[s] = run[s] \/ run'[s].pc = "idle"
    BY <1>7 DEF ExitStep, Exit, BootStep, Boot, WorkerOutage, Shutdown, Crash, Idle
  <2> QED
    BY <2>1, <2>2, QuietStepPInv
<1>8. CASE ApiCrashStep
  <2>1. UNCHANGED <<job, row, run, events>>
    BY <1>8 DEF ApiCrashStep, ApiCrash, workerVars
  <2>2. \A e \in Executions : route'[e] \in {route[e], "gone"}
    BY <1>8 DEF ApiCrashStep, ApiCrash
  <2> QED
    BY <2>1, <2>2, QuietStepPInv
<1> QED
  BY <1>2, <1>3, <1>4, <1>5, <1>6, <1>7, <1>8 DEF Next

-----------------------------------------------------------------------------
(* Theorems.                                                               *)

(* The inductive invariant holds throughout.                               *)
THEOREM PipelineInvariant == Spec => []PInv
  BY InitPInv, NextPInv, PTL DEF Spec

(* Every variable keeps its type, under any interleaving of requests, runs *)
(* and outages.                                                            *)
THEOREM TypeCorrect == Spec => []TypeOK
<1>1. PInv => TypeOK
  BY DEF PInv
<1> QED
  BY PipelineInvariant, <1>1, PTL

(* A completed job has its outcome in the row (executor.ts:174-240), and   *)
(* no retry or zombie takes it back.                                       *)
THEOREM CompletedHasResult == Spec => []ResultKept
<1>1. PInv => ResultKept
  BY DEF PInv
<1> QED
  BY PipelineInvariant, <1>1, PTL

(* A client told of an outcome by an event finds one in the row            *)
(* (executor.ts:220 and :244 come after the updates).                      *)
THEOREM EventsAreBacked == Spec => []EventBacked
<1>1. PInv => EventBacked
  BY DEF PInv
<1> QED
  BY PipelineInvariant, <1>1, PTL

(* The row exists before a worker can see the job (execute.ts:26-36).      *)
THEOREM JobsHaveRows == Spec => []JobHasRow
<1>1. PInv => JobHasRow
  BY DEF PInv
<1> QED
  BY PipelineInvariant, <1>1, PTL

(* The pipeline uses the queue as the queue allows: what is proved of the  *)
(* queue alone holds of it in the pipeline.                                *)
THEOREM PipelineUsesQueue == Spec => QueueSpec
<1>1. Init => QueueInit
  BY DEF Init
<1>2. PInv /\ [Next]_vars => [QueueNext]_job
  BY NextIsQueueStep DEF PInv, RunInv, BusyInv
<1> QED
  BY PipelineInvariant, <1>1, <1>2, PTL DEF Spec, QueueSpec

(* In the whole pipeline, too, a program is started at most                *)
(* attempts + maxStalledCount times.                                       *)
THEOREM PipelineInvocations == Spec => []InvocationBound
  BY PipelineUsesQueue, BoundedInvocations, PTL

-----------------------------------------------------------------------------
(* Settled executions.                                                     *)

(* No step of the queue or of a slot reaches a settled execution.          *)
LEMMA SettledStep ==
  ASSUME PInv, [Next]_vars, NEW e \in Executions, Settled(e)
  PROVE  row'[e] = row[e] /\ Settled(e)'
<1>1. /\ job \in [Executions -> Job] /\ row \in [Executions -> Row]
      /\ route \in [Executions -> RouteStates] /\ run \in [Slots -> Run] /\ TypeOK
  BY DEF PInv, TypeOK, QueueTypeOK, StoreTypeOK, RouteTypeOK, ExecutorTypeOK
<1>2. /\ route[e] \in {"accepted", "refused", "gone"}
      /\ job[e].state \in {"completed", "failed", "absent"}
      /\ \A s \in Slots : run[s].pc # "idle" => run[s].exec # e
  BY DEF Settled, RouteDone, Finished, RunsOf, Runs
<1>3. SUFFICES /\ row'[e] = row[e] /\ route'[e] = route[e]
               /\ job'[e].state = job[e].state
               /\ \A s \in Slots : run'[s].pc # "idle" => run'[s].exec # e
  BY <1>2 DEF Settled, RouteDone, Finished, RunsOf, Runs
<1>4. CASE UNCHANGED vars
  BY <1>2, <1>4 DEF vars
<1>5. ASSUME NEW x \in Executions, RouteStep(x)
      PROVE  /\ row'[e] = row[e] /\ route'[e] = route[e]
             /\ job'[e].state = job[e].state /\ UNCHANGED run
  <2>1. x # e
    BY <1>2, <1>5 DEF RouteStep, Submit, CreateRow, Enqueue, MarkQueued
  <2>2. UNCHANGED run
    BY <1>5 DEF RouteStep, workerVars
  <2> QED
    BY <1>1, <1>5, <2>1, <2>2 DEF RouteStep, Submit, CreateRow, Enqueue, MarkQueued,
       Goto, Add, Write, WriteFails, Fault
<1>6. ASSUME NEW x \in Executions, FetchStep(x)
      PROVE  /\ UNCHANGED <<row, route>> /\ job'[e] = job[e]
             /\ \A s \in Slots : run'[s] = run[s] \/ run'[s].exec # e
  <2>1. PICK s \in Slots : Fetch(s, x)
    BY <1>6 DEF FetchStep
  <2>2. x # e
    BY <1>2, <2>1 DEF Fetch, Take
  <2>3. job'[e] = job[e]
    BY <1>1, <2>1, <2>2 DEF Fetch, Take
  <2>4. run'[s].exec = x /\ \A t \in Slots : t # s => run'[t] = run[t]
    BY <1>1, <2>1 DEF Fetch, Idle
  <2>5. UNCHANGED <<row, route>>
    BY <1>6, <2>1 DEF FetchStep, Fetch
  <2> QED
    BY <2>2, <2>3, <2>4, <2>5
<1>7. ASSUME NEW x \in Executions, QueueStep(x) \/ LoseLockStep(x)
      PROVE  UNCHANGED <<row, route, run>> /\ job'[e] = job[e]
  BY <1>1, <1>2, <1>7 DEF QueueStep, LoseLockStep, workerVars, Promote, ExpireDeadLock,
     CheckStalled, LoseLock, ExpireLock, MoveStalled
<1>8. ASSUME NEW s \in Slots, SlotStep(s)
      PROVE  /\ row'[e] = row[e] /\ UNCHANGED route /\ job'[e] = job[e]
             /\ \A t \in Slots : run'[t].pc # "idle" => run'[t].exec # e
  <2>1. SlotFrame(s) /\ UNCHANGED route
    BY <1>1, <1>8, SlotStepFrame DEF SlotStep
  <2>2. Exec(s) # e
    BY <1>2, <2>1 DEF SlotFrame, Exec
  <2> QED
    BY <1>2, <2>1, <2>2 DEF SlotFrame
<1>9. ASSUME NEW w \in Workers, ExitStep(w) \/ BootStep(w) \/ WorkerOutage(w)
      PROVE  /\ UNCHANGED <<row, route, job>>
             /\ \A s \in Slots : run'[s] = run[s] \/ run'[s].pc = "idle"
  BY <1>9 DEF ExitStep, Exit, BootStep, Boot, WorkerOutage, Shutdown, Crash, Idle
<1>10. CASE ApiCrashStep
  BY <1>1, <1>2, <1>10 DEF ApiCrashStep, ApiCrash, workerVars, InFlight
<1> QED
  BY <1>2, <1>4, <1>5, <1>6, <1>7, <1>8, <1>9, <1>10 DEF Next

(* Once the request is over, the job finished and no zombie is left, the   *)
(* answer of GET /v1/executions/:id never changes again.                   *)
THEOREM SettledIsFinal == Spec => SettledForever
<1>1. PInv /\ [Next]_vars =>
        [\A e \in Executions : Settled(e) => row'[e] = row[e] /\ Settled(e)']_vars
  BY SettledStep
<1> QED
  BY PipelineInvariant, <1>1, PTL DEF Spec, SettledForever

-----------------------------------------------------------------------------
(* The pipeline keeps the promise of AtLeastOnce.                          *)

(* What a client can tell of an execution.                                 *)
Tries(e)    == job[e].invoked
Recorded(e) == row[e].result # "none"

SameView(e) == /\ Phase(e)' = Phase(e)
               /\ Tries(e)' = Tries(e)
               /\ Recorded(e)' = Recorded(e)

USE DEF Contract!avars

(* Only the view of one execution changes, as an abstract action does.     *)
OthersSame(x) == \A e \in Executions : e # x => SameView(e)

LEMMA Stutters ==
  ASSUME \A e \in Executions : SameView(e)
  PROVE  UNCHANGED Contract!avars
  BY DEF SameView, Tries, Recorded

LEMMA AcceptStep ==
  ASSUME NEW x \in Executions, OthersSame(x), Phase(x) = "none", Phase(x)' = "pending",
         Tries(x)' = Tries(x), Recorded(x)' = Recorded(x)
  PROVE  Contract!ANext
<1>1. Contract!Accept(x)
  BY DEF OthersSame, SameView, Tries, Recorded, Contract!Accept
<1> QED
  BY <1>1 DEF Contract!ANext

LEMMA TryStep ==
  ASSUME NEW x \in Executions, OthersSame(x), Phase(x) = "pending", Phase(x)' = "pending",
         Tries(x) < Attempts + MaxStalled, Tries(x)' = Tries(x) + 1,
         Recorded(x)' = Recorded(x)
  PROVE  Contract!ANext
<1>1. Contract!Try(x)
  BY DEF OthersSame, SameView, Tries, Recorded, Contract!Try
<1> QED
  BY <1>1 DEF Contract!ANext

LEMMA RecordStep ==
  ASSUME NEW x \in Executions, OthersSame(x), Phase(x)' = Phase(x), Tries(x) > 0,
         Tries(x)' = Tries(x), Recorded(x)'
  PROVE  Contract!ANext
<1>1. Contract!Record(x)
  BY DEF OthersSame, SameView, Tries, Recorded, Contract!Record
<1> QED
  BY <1>1 DEF Contract!ANext

LEMMA DeliverStep ==
  ASSUME NEW x \in Executions, OthersSame(x), Phase(x) = "pending", Phase(x)' = "done",
         Tries(x)' = Tries(x), Recorded(x), Recorded(x)'
  PROVE  Contract!ANext
<1>1. Contract!Deliver(x)
  BY DEF OthersSame, SameView, Tries, Recorded, Contract!Deliver
<1> QED
  BY <1>1 DEF Contract!ANext

LEMMA AbandonStep ==
  ASSUME NEW x \in Executions, OthersSame(x), Phase(x) = "pending",
         Phase(x)' = "abandoned", Tries(x) > 0, Tries(x)' = Tries(x),
         Recorded(x)' = Recorded(x)
  PROVE  Contract!ANext
<1>1. Contract!Abandon(x)
  BY DEF OthersSame, SameView, Tries, Recorded, Contract!Abandon
<1> QED
  BY <1>1 DEF Contract!ANext

(* The initial states correspond.                                          *)
LEMMA InitKeepsPromise == Init => Contract!AInit
<1> SUFFICES ASSUME Init PROVE Contract!AInit
  OBVIOUS
<1>1. /\ job = [e \in Executions |-> NoJob] /\ row = [e \in Executions |-> NoRow]
      /\ NoJob.state = "absent" /\ NoJob.invoked = 0 /\ NoRow.result = "none"
  BY DEF Init, QueueInit, StoreInit, NoJob, NoRow
<1>2. \A e \in Executions : Phase(e) = "none" /\ Tries(e) = 0 /\ Recorded(e) = FALSE
  BY <1>1 DEF Phase, Tries, Recorded
<1> QED
  BY <1>2 DEF Tries, Recorded, Contract!AInit

(* A step that leaves the job and the outcome of e alone leaves its view.  *)
LEMMA SameJobSameView ==
  ASSUME NEW e, job'[e] = job[e], row'[e].result = row[e].result
  PROVE  SameView(e)
  BY DEF SameView, Phase, Tries, Recorded

LEMMA SlotKeepsPromise ==
  ASSUME PInv, NEW s \in Slots, SlotStep(s)
  PROVE  [Contract!ANext]_(Contract!avars)
<1>1. /\ TypeOK /\ RunInv /\ SlotFrame(s) /\ RowsGrow
      /\ job \in [Executions -> Job] /\ row \in [Executions -> Row]
  BY SlotStepFrame, SlotStepGrows
  DEF PInv, TypeOK, QueueTypeOK, StoreTypeOK, RunInv, BusyInv
<1>2. PICK x \in Executions : x = Exec(s) /\ job[x].invoked > 0
  BY <1>1 DEF RunInv, SlotFrame, Exec
<1>3. OthersSame(x)
  BY <1>1, <1>2, SameJobSameView DEF OthersSame, SlotFrame
<1>4. CASE Settle(s)
  <2>1. UNCHANGED row
    BY <1>4 DEF Settle
  <2>2. CASE UNCHANGED job
    BY <2>1, <2>2, SameJobSameView, Stutters
  <2>3. CASE run[s].pc = "resolved" /\ MoveToCompleted(x, s)
    <3>1. /\ Phase(x) = "pending" /\ Phase(x)' = "done" /\ Tries(x)' = Tries(x)
      BY <1>1, <1>2, <2>3 DEF MoveToCompleted, Holds, Phase, Tries, Job
    <3>2. Recorded(x) /\ Recorded(x)'
      BY <1>1, <1>2, <2>1, <2>3 DEF RunInv, Exec, Recorded
    <3> QED
      BY <1>2, <1>3, <3>1, <3>2, DeliverStep
  <2>4. CASE MoveToFailed(x, s)
    <3>1. /\ Phase(x) = "pending" /\ Phase(x)' \in {"pending", "abandoned"}
          /\ Tries(x)' = Tries(x)
      BY <1>1, <1>2, <2>4 DEF MoveToFailed, Holds, Phase, Tries, Job
    <3>2. Recorded(x)' = Recorded(x) /\ Tries(x) > 0
      BY <1>2, <2>1 DEF Recorded, Tries
    <3>3. CASE Phase(x)' = "pending"
      BY <1>3, <3>1, <3>2, <3>3, Stutters DEF OthersSame, SameView
    <3> QED
      BY <1>2, <1>3, <3>1, <3>2, <3>3, AbandonStep
  <2> QED
    BY <1>2, <1>4, <2>2, <2>3, <2>4 DEF Settle
<1>5. CASE UNCHANGED job
  <2>1. Phase(x)' = Phase(x) /\ Tries(x)' = Tries(x) /\ Tries(x) > 0
    BY <1>2, <1>5 DEF Phase, Tries
  <2>2. CASE Recorded(x)' = Recorded(x)
    BY <1>3, <2>1, <2>2, Stutters DEF OthersSame, SameView
  <2>3. CASE Recorded(x)'
    BY <1>2, <1>3, <2>1, <2>3, RecordStep
  <2> QED
    BY <1>1, <1>2, <2>2, <2>3 DEF RowsGrow, Recorded
<1> QED
  BY <1>4, <1>5 DEF SlotStep, Process, Begin, Announce, RunSandbox, Log, RecordTimeout,
     RecordCompleted, FinalProgress, PublishOutcome, Catch, PublishFailed

LEMMA NextKeepsPromise == PInv /\ [Next]_vars => [Contract!ANext]_(Contract!avars)
<1> SUFFICES ASSUME PInv, [Next]_vars
             PROVE  [Contract!ANext]_(Contract!avars)
  OBVIOUS
<1>1. job \in [Executions -> Job] /\ row \in [Executions -> Row] /\ QueueInv
  BY DEF PInv, TypeOK, QueueTypeOK, StoreTypeOK
<1>2. CASE UNCHANGED vars
  BY <1>2, SameJobSameView, Stutters DEF vars
<1>3. ASSUME NEW x \in Executions, RouteStep(x)
      PROVE  [Contract!ANext]_(Contract!avars)
  <2>1. CASE CreateRow(x)
    <3>1. UNCHANGED job /\ job[x].state = "absent"
      BY <2>1 DEF CreateRow, PInv, RequestInv
    <3>2. row[x].result = "none"
      BY <3>1, NextBasics DEF PInv, TraceInv
    <3>3. /\ \A e \in Executions : e # x => row'[e] = row[e]
          /\ row'[x].result = "none"
      BY <1>1, <2>1, <3>2 DEF CreateRow, Write, WriteFails, Fault, NewRow, NoRow
    <3> QED
      BY <3>1, <3>2, <3>3, SameJobSameView, Stutters
  <2>2. CASE Enqueue(x)
    <3>1. UNCHANGED row /\ job[x].state = "absent" /\ OthersSame(x)
      BY <1>1, <2>2, SameJobSameView DEF Enqueue, Add, PInv, RequestInv, OthersSame
    <3>2. CASE UNCHANGED job
      BY <3>1, <3>2, SameJobSameView, Stutters
    <3>3. CASE job' = [job EXCEPT ![x].state = "waiting"]
      <4>1. /\ Phase(x) = "none" /\ Phase(x)' = "pending" /\ Tries(x)' = Tries(x)
            /\ Recorded(x)' = Recorded(x)
        BY <1>1, <3>1, <3>3 DEF Phase, Tries, Recorded, Job
      <4> QED
        BY <3>1, <4>1, AcceptStep
    <3> QED
      BY <2>2, <3>2, <3>3 DEF Enqueue, Add
  <2>3. CASE MarkQueued(x)
    <3>1. UNCHANGED job /\ \A e \in Executions : row'[e].result = row[e].result
      BY <1>1, <2>3 DEF MarkQueued, Write, WriteFails, Fault, WithStatus, Row
    <3> QED
      BY <3>1, SameJobSameView, Stutters
  <2> QED
    BY <1>3, <2>1, <2>2, <2>3 DEF RouteStep, Submit
<1>4. ASSUME NEW x \in Executions, FetchStep(x)
      PROVE  [Contract!ANext]_(Contract!avars)
  <2>1. PICK s \in Slots : Fetch(s, x)
    BY <1>4 DEF FetchStep
  <2>2. UNCHANGED row /\ OthersSame(x)
    BY <1>1, <2>1, SameJobSameView DEF Fetch, Take, OthersSame
  <2>3. /\ Phase(x) = "pending" /\ Phase(x)' = "pending"
        /\ Recorded(x)' = Recorded(x)
        /\ Tries(x)' = IF Overdrawn(x) THEN Tries(x) ELSE Tries(x) + 1
    BY <1>1, <2>1, <2>2 DEF Fetch, Take, Phase, Tries, Recorded, Job
  <2>4. Tries(x) \in Nat /\ Tries(x)' <= Attempts + MaxStalled
    <3>1. QueueInv'
      BY NextBasics
    <3>2. InvocationBound'
      BY <3>1, QueueInvBounds, PTL
    <3> QED
      BY <1>1, <3>2 DEF InvocationBound, Tries, Job
  <2>5. CASE Overdrawn(x)
    BY <2>2, <2>3, <2>5, Stutters DEF OthersSame, SameView
  <2>6. CASE ~Overdrawn(x)
    BY <2>2, <2>3, <2>4, <2>6, TryStep, QueueAssumption
  <2> QED
    BY <2>5, <2>6
<1>5. ASSUME NEW x \in Executions, QueueStep(x) \/ LoseLockStep(x)
      PROVE  [Contract!ANext]_(Contract!avars)
  <2>1. UNCHANGED row
    BY <1>5 DEF QueueStep, LoseLockStep
  <2>2. /\ \A e \in Executions : e # x => job'[e] = job[e]
        /\ job'[x].invoked = job[x].invoked
        /\ job[x].state \in {"delayed", "active"}
        /\ job'[x].state \in {"waiting", "active"}
    BY <1>1, <1>5 DEF QueueStep, LoseLockStep, Promote, ExpireDeadLock, CheckStalled,
       LoseLock, ExpireLock, MoveStalled, Job
  <2>3. OthersSame(x) /\ Tries(x)' = Tries(x) /\ Recorded(x)' = Recorded(x)
    BY <2>1, <2>2, SameJobSameView DEF OthersSame, Tries, Recorded
  <2>4. Phase(x) = "pending" /\ Phase(x)' = "pending"
    BY <2>2 DEF Phase
  <2> QED
    BY <2>3, <2>4, Stutters DEF OthersSame, SameView
<1>6. ASSUME NEW s \in Slots, SlotStep(s)
      PROVE  [Contract!ANext]_(Contract!avars)
  BY <1>6, SlotKeepsPromise
<1>7. CASE UNCHANGED <<job, row>>
  BY <1>7, SameJobSameView, Stutters
<1> QED
  BY <1>2, <1>3, <1>4, <1>5, <1>6, <1>7
  DEF Next, ExitStep, BootStep, WorkerOutage, ApiCrashStep, ApiCrash

-----------------------------------------------------------------------------
(* Whatever crashes, retries and zombies do, a submission is tried at most *)
(* attempts + maxStalledCount times, is delivered only with an outcome and *)
(* never leaves "done" or "abandoned".                                     *)
THEOREM PipelineKeepsPromise == Spec => KeepsPromise
  BY PipelineInvariant, InitKeepsPromise, NextKeepsPromise, PTL
  DEF Spec, KeepsPromise, Contract!ASpec
=============================================================================
