---------------------------- MODULE OutcomeProofs ----------------------------
(***************************************************************************)
(* What the row of an execution shows in the end: how far a run may        *)
(* overlap another, which outcome hides which, and when a failure is       *)
(* visible, for every number of executions, workers, slots, test cases,    *)
(* faults and outages.                                                     *)
(***************************************************************************)
EXTENDS PipelineProofs, FiniteSetTheorems

-----------------------------------------------------------------------------
(* The control flow of one run, with what each of its steps does to the    *)
(* row, the job and the fault counter.                                     *)

(* The run s moves on to pc and remembers all it knew.                     *)
MovesTo(s, pc) == run'[s] = [run[s] EXCEPT !.pc = pc]

(* A call of the run threw.                                                *)
Throws(s) == MovesTo(s, "catch") /\ faults' = faults + 1

SlotFlow(s) ==
  LET e    == Exec(s)
      r    == row[e]
      next == row'[e]
  IN
  \/ /\ run[s].pc = "begin"
     /\ \/ MovesTo(s, "rejected") /\ worker[Host[s]] = "stopping" /\ next = r
        \/ MovesTo(s, "announce") /\ next = WithStatus(e, "RUNNING")
        \/ Throws(s) /\ next \in {r, WithStatus(e, "RUNNING")}
  \/ /\ run[s].pc = "announce"
     /\ MovesTo(s, "sandbox") \/ Throws(s)
     /\ next = r
  \/ /\ run[s].pc = "sandbox"
     /\ run'[s].pc = "log" /\ run'[s].exec = e /\ run'[s].case = run[s].case + 1
     /\ next = r
  \/ /\ run[s].pc = "log"
     /\ \/ run[s].case < TestCases[e] /\ MovesTo(s, "sandbox")
        \/ ~(run[s].case < TestCases[e]) /\ MovesTo(s, "record")
        \/ Throws(s)
     /\ next = r
  \/ /\ run[s].pc = "record" /\ TimedOut(s)
     /\ \/ MovesTo(s, "publish") /\ next = TimeoutRow(e)
        \/ Throws(s) /\ next \in {r, TimeoutRow(e)}
  \/ /\ run[s].pc = "record" /\ ~TimedOut(s)
     /\ \/ MovesTo(s, "progress") /\ next = CompletedRow(e, run[s].case)
        \/ Throws(s) /\ next \in {r, CompletedRow(e, run[s].case)}
  \/ /\ run[s].pc = "progress"
     /\ MovesTo(s, "publish") \/ Throws(s)
     /\ next = r
  \/ run[s].pc = "publish" /\ MovesTo(s, "resolved") /\ next = r
  \/ /\ run[s].pc = "catch"
     /\ \/ MovesTo(s, "publishFailed") /\ next = FailedRow(e)
        \/ /\ MovesTo(s, "rejected") /\ faults' = faults + 1
           /\ next \in {r, FailedRow(e)}
  \/ run[s].pc = "publishFailed" /\ MovesTo(s, "rejected") /\ next = r
  \/ /\ run[s].pc \in {"resolved", "rejected"} /\ run'[s] = Idle
     /\ next = r

(* The job changes in the last step only, and only for the lock's holder.  *)
JobFlow(s) ==
  LET e == Exec(s) IN
  \/ UNCHANGED job /\ (run'[s].pc = "idle" => ~Holds(e, s))
  \/ run[s].pc = "resolved" /\ run'[s].pc = "idle" /\ MoveToCompleted(e, s)
  \/ run[s].pc = "rejected" /\ run'[s].pc = "idle" /\ MoveToFailed(e, s)

Steps(s) ==
  /\ SlotFrame(s) /\ SlotFlow(s) /\ JobFlow(s)
  /\ Exec(s) \in Executions
  /\ faults \in Nat /\ faults' \in {faults, faults + 1}
  /\ UNCHANGED <<route, worker, outages>>

LEMMA SlotStepFlow ==
  ASSUME PInv, NEW s \in Slots, SlotStep(s)
  PROVE  SlotFlow(s)
<1>1. /\ run \in [Slots -> Run] /\ row \in [Executions -> Row]
      /\ Exec(s) \in Executions
  <2>1. TypeOK /\ RunInv
    BY DEF PInv
  <2> QED
    BY <2>1, SlotStepFrame DEF TypeOK, ExecutorTypeOK, StoreTypeOK, RunInv, SlotFrame, Exec
<1>2. ASSUME NEW pc, Jump(s, pc)
      PROVE  MovesTo(s, pc)
  BY <1>1, <1>2 DEF Jump, MovesTo
<1>3. ASSUME NEW r, NEW pc, Update(s, r, pc)
      PROVE  \/ MovesTo(s, pc) /\ row'[Exec(s)] = r
             \/ Throws(s) /\ row'[Exec(s)] \in {row[Exec(s)], r}
  BY <1>1, <1>2, <1>3 DEF Update, Write, WriteFails, Fault, Throws
<1>4. ASSUME NEW pc, UpdateProgress(s, pc)
      PROVE  MovesTo(s, pc) \/ Throws(s)
  BY <1>2, <1>4 DEF UpdateProgress, Fault, Throws
<1>5. CASE Begin(s)
  BY <1>2, <1>3, <1>5 DEF Begin, SlotFlow
<1>6. CASE Announce(s)
  BY <1>4, <1>6 DEF Announce, SlotFlow
<1>7. CASE RunSandbox(s)
  BY <1>1, <1>7 DEF RunSandbox, Run, SlotFlow, Exec
<1>8. CASE Log(s)
  BY <1>4, <1>8 DEF Log, SlotFlow
<1>9. CASE RecordTimeout(s)
  BY <1>3, <1>9 DEF RecordTimeout, SlotFlow
<1>10. CASE RecordCompleted(s)
  BY <1>3, <1>10 DEF RecordCompleted, SlotFlow
<1>11. CASE FinalProgress(s)
  BY <1>4, <1>11 DEF FinalProgress, SlotFlow
<1>12. CASE PublishOutcome(s)
  BY <1>2, <1>12 DEF PublishOutcome, SlotFlow
<1>13. CASE Catch(s)
  BY <1>1, <1>2, <1>13 DEF Catch, Write, WriteFails, Fault, SlotFlow
<1>14. CASE PublishFailed(s)
  BY <1>2, <1>14 DEF PublishFailed, SlotFlow
<1>15. CASE Settle(s)
  BY <1>1, <1>15 DEF Settle, FreeSlot, SlotFlow
<1> QED
  BY <1>5, <1>6, <1>7, <1>8, <1>9, <1>10, <1>11, <1>12, <1>13, <1>14, <1>15
  DEF SlotStep, Process

LEMMA SlotStepJob ==
  ASSUME PInv, NEW s \in Slots, SlotStep(s)
  PROVE  JobFlow(s)
<1>1. SlotFlow(s) /\ run \in [Slots -> Run]
  BY SlotStepFlow DEF PInv, TypeOK, ExecutorTypeOK
<1>2. CASE Settle(s)
  BY <1>1, <1>2 DEF Settle, FreeSlot, Idle, JobFlow
<1>3. CASE ~Settle(s)
  <2>1. UNCHANGED job
    BY <1>3 DEF SlotStep, Process, Begin, Announce, RunSandbox, Log, RecordTimeout,
       RecordCompleted, FinalProgress, PublishOutcome, Catch, PublishFailed
  <2>2. run[s].pc \notin {"resolved", "rejected"}
    BY <1>3 DEF SlotStep, Process, Begin, Announce, RunSandbox, Log, RecordTimeout,
       RecordCompleted, FinalProgress, PublishOutcome, Catch, PublishFailed
  <2>3. run'[s].pc # "idle"
    BY <1>1, <2>2 DEF SlotFlow, MovesTo, Throws, Run
  <2> QED
    BY <2>1, <2>3 DEF JobFlow
<1> QED
  BY <1>2, <1>3

(* Everything a step of a slot does, in one place.                         *)
LEMMA SlotSteps ==
  ASSUME PInv, NEW s \in Slots, SlotStep(s)
  PROVE  Steps(s)
<1>1. TypeOK /\ RunInv
  BY DEF PInv
<1>2. SlotFrame(s) /\ SlotFlow(s) /\ JobFlow(s) /\ Exec(s) \in Executions
  BY <1>1, SlotStepFrame, SlotStepFlow, SlotStepJob DEF RunInv, SlotFrame, Exec
<1>3. faults \in Nat
  BY <1>1, FaultsAssumption DEF TypeOK, StoreTypeOK
<1>4. faults' \in {faults, faults + 1}
  BY DEF SlotStep, Process, Begin, Announce, RunSandbox, Log, RecordTimeout,
     RecordCompleted, FinalProgress, PublishOutcome, Catch, PublishFailed, Settle,
     Update, UpdateProgress, Write, WriteFails, Fault
<1> QED
  BY <1>2, <1>3, <1>4 DEF Steps, SlotStep

(* What every step that is not a slot's does to the runs and the rows: a   *)
(* run starts or dies, a request creates the row or marks it QUEUED.       *)
OtherStep ==
  \/ UNCHANGED vars
  \/ \E e \in Executions :
       RouteStep(e) \/ FetchStep(e) \/ QueueStep(e) \/ LoseLockStep(e)
  \/ \E w \in Workers : ExitStep(w) \/ BootStep(w) \/ WorkerOutage(w)
  \/ ApiCrashStep

Started(e) ==
  [Idle EXCEPT !.pc = IF Overdrawn(e) THEN "rejected" ELSE "begin", !.exec = e]

RunsBesides ==
  \A s \in Slots :
    \/ run'[s] = run[s]
    \/ run'[s] = Idle
    \/ /\ run[s].pc = "idle"
       /\ \E e \in Executions : Take(e, s) /\ run'[s] = Started(e)

RowsBesides ==
  \A e \in Executions :
    \/ row'[e] = row[e]
    \/ row[e].result = "none" /\ row'[e] = NewRow /\ job[e] = NoJob
    \/ row'[e] = WithStatus(e, "QUEUED") /\ route'[e] \in {"accepted", "refused"}

LEMMA StartedRun ==
  /\ Idle.pc = "idle"
  /\ \A e \in Executions :
       /\ Started(e).pc \in {"begin", "rejected"}
       /\ job[e].stalls = 0 => Started(e).pc = "begin"
       /\ Started(e).exec = e /\ Started(e).case = 0
<1>1. Idle.pc = "idle"
  BY DEF Idle
<1>2. ASSUME NEW e \in Executions
      PROVE  /\ Started(e).pc \in {"begin", "rejected"}
             /\ job[e].stalls = 0 => Started(e).pc = "begin"
             /\ Started(e).exec = e /\ Started(e).case = 0
  BY QueueAssumption DEF Started, Idle, Overdrawn
<1> QED
  BY <1>1, <1>2

LEMMA OtherSteps ==
  ASSUME PInv, OtherStep
  PROVE  RunsBesides /\ RowsBesides
<1>1. /\ run \in [Slots -> Run] /\ row \in [Executions -> Row]
      /\ route \in [Executions -> RouteStates]
  BY DEF PInv, TypeOK, ExecutorTypeOK, StoreTypeOK, RouteTypeOK
<1>2. CASE UNCHANGED vars
  BY <1>2 DEF vars, RunsBesides, RowsBesides
<1>3. ASSUME NEW e \in Executions, RouteStep(e)
      PROVE  RunsBesides /\ RowsBesides
  <2>1. UNCHANGED run
    BY <1>3 DEF RouteStep, workerVars
  <2>2. CASE CreateRow(e)
    <3>1. job[e].state = "absent" /\ job[e] = NoJob
      BY <2>2 DEF CreateRow, PInv, RequestInv, QueueInv, BudgetInv
    <3>2. row[e].result = "none"
      BY <3>1 DEF PInv, TraceInv, NoJob
    <3>3. /\ \A x \in Executions : x # e => row'[x] = row[x]
          /\ row'[e] \in {row[e], NewRow}
      BY <1>1, <2>2 DEF CreateRow, Write, WriteFails
    <3> QED
      BY <2>1, <3>1, <3>2, <3>3 DEF RunsBesides, RowsBesides
  <2>3. CASE Enqueue(e)
    BY <2>1, <2>3 DEF Enqueue, RunsBesides, RowsBesides
  <2>4. CASE MarkQueued(e)
    <3>1. /\ \A x \in Executions : x # e => row'[x] = row[x]
          /\ row'[e] \in {row[e], WithStatus(e, "QUEUED")}
          /\ route'[e] \in {"accepted", "refused"}
      BY <1>1, <2>4 DEF MarkQueued, Write, WriteFails, Goto
    <3> QED
      BY <2>1, <3>1 DEF RunsBesides, RowsBesides
  <2> QED
    BY <1>3, <2>2, <2>3, <2>4 DEF RouteStep, Submit
<1>4. ASSUME NEW e \in Executions, FetchStep(e)
      PROVE  RunsBesides /\ RowsBesides
  <2>1. PICK s \in Slots : Fetch(s, e)
    BY <1>4 DEF FetchStep
  <2>2. /\ UNCHANGED row /\ Take(e, s) /\ run[s].pc = "idle"
        /\ run'[s] = Started(e) /\ \A t \in Slots : t # s => run'[t] = run[t]
    BY <1>1, <2>1 DEF Fetch, Started
  <2> QED
    BY <2>2 DEF RunsBesides, RowsBesides
<1>5. ASSUME NEW e \in Executions, QueueStep(e) \/ LoseLockStep(e)
      PROVE  RunsBesides /\ RowsBesides
  BY <1>5 DEF QueueStep, LoseLockStep, workerVars, RunsBesides, RowsBesides
<1>6. ASSUME NEW w \in Workers, ExitStep(w) \/ BootStep(w) \/ WorkerOutage(w)
      PROVE  RunsBesides /\ RowsBesides
  BY <1>1, <1>6 DEF ExitStep, Exit, BootStep, Boot, WorkerOutage, Shutdown, Crash,
     RunsBesides, RowsBesides
<1>7. CASE ApiCrashStep
  BY <1>7 DEF ApiCrashStep, ApiCrash, workerVars, RunsBesides, RowsBesides
<1> QED
  BY <1>2, <1>3, <1>4, <1>5, <1>6, <1>7 DEF OtherStep

LEMMA StepIsSlotOrOther ==
  [Next]_vars => OtherStep \/ \E s \in Slots : SlotStep(s)
  BY DEF Next, OtherStep

-----------------------------------------------------------------------------
(* Test cases.                                                             *)

(* How many sandbox runs an execution needs.                               *)
Goal(e) == IF TestCases[e] = 0 THEN 1 ELSE TestCases[e]

(* A run goes on to the next case only while one is left, and reaches the  *)
(* end of the loop with all of them.                                       *)
CaseInv ==
  \A s \in Slots :
    LET goal == Goal(run[s].exec) IN
      /\ run[s].pc \in {"begin", "announce", "sandbox"} => run[s].case < goal
      /\ run[s].pc = "log" => run[s].case > 0 /\ run[s].case <= goal
      /\ run[s].pc = "record" => run[s].case = goal

LEMMA GoalType ==
  ASSUME NEW e \in Executions
  PROVE  /\ TestCases[e] \in Nat /\ Goal(e) \in Nat \ {0}
         /\ Goal(e) = 1 \/ Goal(e) = TestCases[e]
         /\ TestCases[e] <= Goal(e)
         /\ TestCases[e] = 0 => Goal(e) = 1
  BY ExecutorAssumption DEF Goal

LEMMA InitCases == Init => CaseInv /\ AllCasesRecorded
  BY DEF Init, ExecutorInit, Idle, StoreInit, NoRow, CaseInv, AllCasesRecorded

LEMMA SlotStepCases ==
  ASSUME PInv, CaseInv, NEW s \in Slots, SlotStep(s)
  PROVE  CaseInv'
<1>1. Steps(s) /\ run \in [Slots -> Run]
  BY SlotSteps DEF PInv, TypeOK, ExecutorTypeOK
<1> DEFINE e == Exec(s)
           goal == Goal(e)
<1>2. /\ run[s].case \in Nat /\ goal \in Nat \ {0} /\ TestCases[e] \in Nat
      /\ TestCases[e] <= goal /\ (goal = 1 \/ goal = TestCases[e])
  BY <1>1, GoalType DEF Run, Steps
<1>3. /\ run[s].pc \in {"begin", "announce", "sandbox"} => run[s].case < goal
      /\ run[s].pc = "log" => run[s].case > 0 /\ run[s].case <= goal
      /\ run[s].pc = "record" => run[s].case = goal
  BY DEF CaseInv, Exec
<1>4. \A t \in Slots : t # s => run'[t] = run[t]
  BY <1>1 DEF Steps, SlotFrame
<1>5. /\ run'[s].pc \in {"begin", "announce", "sandbox"} =>
           run'[s].case < Goal(run'[s].exec)
      /\ run'[s].pc = "log" => run'[s].case > 0 /\ run'[s].case <= Goal(run'[s].exec)
      /\ run'[s].pc = "record" => run'[s].case = Goal(run'[s].exec)
  <2>1. SlotFlow(s)
    BY <1>1 DEF Steps
  <2>2. run'[s].exec = e \/ run'[s] = Idle
    BY <1>1, <2>1 DEF SlotFlow, MovesTo, Throws, Run, Exec
  <2>3. CASE run'[s] = Idle
    BY <2>3 DEF Idle
  <2>4. CASE run'[s].exec = e /\ run'[s] # Idle
    <3> HIDE DEF goal
    <3>1. Goal(run'[s].exec) = goal
      BY <2>4 DEF goal
    <3>2. /\ run[s].pc = "log" /\ run'[s].pc = "sandbox" => run[s].case < TestCases[e]
          /\ run[s].pc = "log" /\ run'[s].pc = "record" =>
               ~(run[s].case < TestCases[e])
          /\ run'[s].case = IF run'[s].pc = "log" THEN run[s].case + 1
                                                ELSE run[s].case
          /\ run'[s].pc = "record" => run[s].pc = "log"
          /\ run'[s].pc = "log" => run[s].pc = "sandbox"
          /\ run'[s].pc = "sandbox" => run[s].pc \in {"announce", "log"}
          /\ run'[s].pc = "announce" => run[s].pc = "begin"
          /\ run'[s].pc # "begin"
      BY <1>1, <2>1, <2>4 DEF SlotFlow, MovesTo, Throws, Run, Exec
    <3> QED
      BY <1>2, <1>3, <3>1, <3>2
  <2> QED
    BY <2>2, <2>3, <2>4
<1> QED
  BY <1>4, <1>5 DEF CaseInv

LEMMA OtherStepCases ==
  ASSUME PInv, CaseInv, OtherStep
  PROVE  CaseInv'
<1>1. RunsBesides
  BY OtherSteps
<1>2. ASSUME NEW e \in Executions
      PROVE  /\ Started(e).pc \in {"begin", "rejected"} /\ Started(e).exec = e
             /\ Started(e).case < Goal(e)
  BY StartedRun, GoalType
<1> QED
  BY <1>1, <1>2, StartedRun DEF RunsBesides, CaseInv

LEMMA StepCases ==
  ASSUME PInv, CaseInv, AllCasesRecorded, [Next]_vars
  PROVE  AllCasesRecorded'
<1>1. row \in [Executions -> Row]
  BY DEF PInv, TypeOK, StoreTypeOK
<1>2. SUFFICES ASSUME NEW e \in Executions, row'[e].result = "output"
               PROVE  row'[e].cases = Goal(e)
  BY DEF AllCasesRecorded, Goal
<1>3. row[e].result = "output" => row[e].cases = Goal(e)
  BY DEF AllCasesRecorded, Goal
<1>4. /\ NewRow.result = "none" /\ TimeoutRow(e).result = "timeout"
      /\ FailedRow(e).result = row[e].result /\ FailedRow(e).cases = row[e].cases
      /\ \A st \in Statuses : /\ WithStatus(e, st).result = row[e].result
                              /\ WithStatus(e, st).cases = row[e].cases
      /\ \A n \in Nat : CompletedRow(e, n).cases = n
  BY <1>1 DEF NewRow, NoRow, TimeoutRow, FailedRow, WithStatus, CompletedRow, Row
<1>5. CASE OtherStep
  BY <1>2, <1>3, <1>4, <1>5, OtherSteps DEF RowsBesides, Statuses
<1>6. ASSUME NEW s \in Slots, SlotStep(s)
      PROVE  row'[e].cases = Goal(e)
  <2>1. Steps(s) /\ run[s].case \in Nat
    BY <1>6, SlotSteps DEF PInv, TypeOK, ExecutorTypeOK, Run
  <2>2. CASE e # Exec(s)
    BY <1>2, <1>3, <2>1, <2>2 DEF Steps, SlotFrame
  <2>3. CASE e = Exec(s)
    <3>1. \/ row'[e] \in {row[e], WithStatus(e, "RUNNING"), TimeoutRow(e), FailedRow(e)}
          \/ run[s].pc = "record" /\ row'[e] = CompletedRow(e, run[s].case)
      BY <2>1, <2>3 DEF Steps, SlotFlow
    <3>2. run[s].pc = "record" => run[s].case = Goal(e)
      BY <2>3 DEF CaseInv, Exec
    <3> QED
      BY <1>2, <1>3, <1>4, <2>1, <3>1, <3>2 DEF Statuses
  <2> QED
    BY <2>2, <2>3
<1> QED
  BY <1>5, <1>6, StepIsSlotOrOther

(* A recorded output covers every test case of the submission, also when   *)
(* an earlier attempt died in the middle of the loop (executor.ts:122-162).*)
THEOREM OutputCoversAllCases == Spec => []AllCasesRecorded
<1>1. PInv /\ CaseInv /\ AllCasesRecorded /\ [Next]_vars =>
        CaseInv' /\ AllCasesRecorded'
  BY SlotStepCases, OtherStepCases, StepCases, StepIsSlotOrOther
<1> QED
  BY PipelineInvariant, InitCases, <1>1, PTL DEF Spec

-----------------------------------------------------------------------------
(* Overlapping runs.                                                       *)

(* The runs of e that do not own its lock.                                 *)
Zombies(e) == {s \in Slots : Runs(s, e) /\ ~Holds(e, s)}

Unlocked(e) == job[e].state = "active" /\ job[e].holder = None

Allowed(e) == job[e].stalls + (IF Unlocked(e) THEN 1 ELSE 0)

(* A lock lost by a living run is charged as a stall before anybody else   *)
(* can take the job: until then the job is active without a holder.        *)
ZombieInv ==
  \A e \in Executions :
    IsFiniteSet(Zombies(e)) /\ Cardinality(Zombies(e)) <= Allowed(e)

(* A step makes at most one zombie, and only by paying for it.             *)
ZombieStep(e) ==
  \/ Zombies(e)' \subseteq Zombies(e) /\ Allowed(e) <= Allowed(e)'
  \/ /\ \E h \in Slots : Zombies(e)' \subseteq Zombies(e) \cup {h}
     /\ Allowed(e) + 1 <= Allowed(e)'

LEMMA AllowedType ==
  ASSUME QueueTypeOK, NEW e \in Executions
  PROVE  Allowed(e) \in Nat
  BY DEF QueueTypeOK, Job, Allowed

LEMMA SlotStepZombies ==
  ASSUME PInv, NEW s \in Slots, SlotStep(s), NEW e \in Executions
  PROVE  ZombieStep(e)
<1>1. Steps(s) /\ job \in [Executions -> Job] /\ QueueTypeOK
  BY SlotSteps DEF PInv, TypeOK, QueueTypeOK
<1>2. SlotFrame(s) /\ JobFlow(s) /\ Exec(s) \in Executions
  BY <1>1 DEF Steps
<1>3. CASE job'[e] = job[e]
  <2>1. Zombies(e)' \subseteq Zombies(e)
    BY <1>2, <1>3 DEF SlotFrame, Zombies, Runs, Holds
  <2>2. Allowed(e) <= Allowed(e)'
    BY <1>1, <1>3, AllowedType DEF Allowed, Unlocked
  <2> QED
    BY <2>1, <2>2 DEF ZombieStep
<1>4. CASE e = Exec(s) /\ run'[s].pc = "idle" /\ (MoveToCompleted(e, s) \/ MoveToFailed(e, s))
  <2>1. /\ job[e].state = "active" /\ job[e].holder = s
        /\ job'[e].stalls = job[e].stalls /\ job'[e].state # "active"
    BY <1>1, <1>4 DEF MoveToCompleted, MoveToFailed, Holds, Job
  <2>2. Zombies(e)' \subseteq Zombies(e)
    BY <1>2, <1>4, <2>1 DEF SlotFrame, Zombies, Runs, Holds
  <2>3. Allowed(e) <= Allowed(e)'
    <3>1. s # None
      BY QueueAssumption
    <3> QED
      BY <1>1, <2>1, <3>1 DEF Allowed, Unlocked, Job
  <2> QED
    BY <2>2, <2>3 DEF ZombieStep
<1>5. e # Exec(s) => job'[e] = job[e]
  BY <1>2 DEF SlotFrame
<1> QED
  BY <1>2, <1>3, <1>4, <1>5 DEF JobFlow

LEMMA OtherStepZombies ==
  ASSUME PInv, OtherStep, NEW e \in Executions
  PROVE  ZombieStep(e)
<1>1. job \in [Executions -> Job] /\ QueueTypeOK /\ run \in [Slots -> Run]
  BY DEF PInv, TypeOK, QueueTypeOK, ExecutorTypeOK
<1>3. ASSUME UNCHANGED run, job'[e] = job[e]
      PROVE  ZombieStep(e)
  BY <1>1, <1>3, AllowedType DEF ZombieStep, Zombies, Runs, Holds, Allowed, Unlocked
<1>4. CASE UNCHANGED vars
  BY <1>3, <1>4 DEF vars
<1>5. ASSUME NEW x \in Executions, RouteStep(x)
      PROVE  ZombieStep(e)
  <2>1. UNCHANGED run
    BY <1>5 DEF RouteStep, workerVars
  <2>2. CASE job'[e] # job[e]
    <3>1. /\ job[e].state = "absent" /\ job'[e].state = "waiting"
          /\ job'[e].stalls = job[e].stalls
      BY <1>1, <1>5, <2>2 DEF RouteStep, Submit, CreateRow, Enqueue, MarkQueued, Add, Job
    <3>2. Zombies(e)' \subseteq Zombies(e)
      BY <2>1, <3>1 DEF Zombies, Runs, Holds
    <3>3. Allowed(e) <= Allowed(e)'
      BY <1>1, <3>1 DEF Allowed, Unlocked, Job
    <3> QED
      BY <3>2, <3>3 DEF ZombieStep
  <2> QED
    BY <1>3, <2>1, <2>2
<1>6. ASSUME NEW x \in Executions, FetchStep(x)
      PROVE  ZombieStep(e)
  <2>1. PICK s \in Slots : Fetch(s, x)
    BY <1>6 DEF FetchStep
  <2>2. /\ run[s].pc = "idle" /\ run'[s].exec = x
        /\ \A t \in Slots : t # s => run'[t] = run[t]
    BY <1>1, <2>1 DEF Fetch, Idle
  <2>3. CASE x = e
    <3>1. /\ job[e].state = "waiting" /\ job'[e].state = "active"
          /\ job'[e].holder = s /\ job'[e].stalls = job[e].stalls
      BY <1>1, <2>1, <2>3 DEF Fetch, Take, Job
    <3>2. Zombies(e)' \subseteq Zombies(e)
      BY <2>2, <3>1 DEF Zombies, Runs, Holds
    <3>3. Allowed(e) <= Allowed(e)'
      BY <1>1, <3>1 DEF Allowed, Unlocked, Job
    <3> QED
      BY <3>2, <3>3 DEF ZombieStep
  <2>4. CASE x # e
    <3>1. job'[e] = job[e]
      BY <1>1, <2>1, <2>4 DEF Fetch, Take
    <3>2. Zombies(e)' \subseteq Zombies(e)
      BY <2>2, <2>4, <3>1 DEF Zombies, Runs, Holds
    <3>3. Allowed(e) <= Allowed(e)'
      BY <1>1, <3>1, AllowedType DEF Allowed, Unlocked
    <3> QED
      BY <3>2, <3>3 DEF ZombieStep
  <2> QED
    BY <2>3, <2>4
<1>7. ASSUME NEW x \in Executions, QueueStep(x) \/ LoseLockStep(x)
      PROVE  ZombieStep(e)
  <2>1. UNCHANGED run
    BY <1>7 DEF QueueStep, LoseLockStep, workerVars
  <2>2. x # e => job'[e] = job[e]
    BY <1>1, <1>7 DEF QueueStep, LoseLockStep, Promote, ExpireDeadLock, CheckStalled,
       LoseLock, ExpireLock, MoveStalled
  <2>3. CASE x = e /\ ExpireLock(e)
    <3>1. /\ job[e].state = "active" /\ job[e].holder \in Slots
          /\ job'[e].state = "active" /\ job'[e].holder = None
          /\ job'[e].stalls = job[e].stalls /\ job[e].holder # None
      BY <1>1, <2>3 DEF ExpireLock, Job
    <3>2. Zombies(e)' \subseteq Zombies(e) \cup {job[e].holder}
      BY <2>1, <3>1 DEF Zombies, Runs, Holds
    <3>3. Allowed(e) + 1 <= Allowed(e)'
      BY <1>1, <3>1 DEF Allowed, Unlocked, Job
    <3> QED
      BY <3>1, <3>2, <3>3 DEF ZombieStep
  <2>4. CASE x = e /\ MoveStalled(e)
    <3>1. /\ job[e].state = "active" /\ job[e].holder = None
          /\ job'[e].state # "active" /\ job'[e].stalls = job[e].stalls + 1
      BY <1>1, <2>4 DEF MoveStalled, Job
    <3>2. Zombies(e)' \subseteq Zombies(e)
      BY <2>1, <3>1, QueueAssumption DEF Zombies, Runs, Holds
    <3>3. Allowed(e) <= Allowed(e)'
      BY <1>1, <3>1 DEF Allowed, Unlocked, Job
    <3> QED
      BY <3>2, <3>3 DEF ZombieStep
  <2>5. CASE x = e /\ Promote(e)
    <3>1. /\ job[e].state = "delayed" /\ job'[e].state = "waiting"
          /\ job'[e].stalls = job[e].stalls
      BY <1>1, <2>5 DEF Promote, Job
    <3>2. Zombies(e)' \subseteq Zombies(e)
      BY <2>1, <3>1 DEF Zombies, Runs, Holds
    <3>3. Allowed(e) <= Allowed(e)'
      BY <1>1, <3>1 DEF Allowed, Unlocked, Job
    <3> QED
      BY <3>2, <3>3 DEF ZombieStep
  <2> QED
    BY <1>3, <1>7, <2>1, <2>2, <2>3, <2>4, <2>5
    DEF QueueStep, LoseLockStep, ExpireDeadLock, CheckStalled, LoseLock
<1>8. ASSUME UNCHANGED job, \A s \in Slots : run'[s] = run[s] \/ run'[s].pc = "idle"
      PROVE  ZombieStep(e)
  <2>1. Zombies(e)' \subseteq Zombies(e)
    BY <1>8 DEF Zombies, Runs, Holds
  <2>2. Allowed(e) <= Allowed(e)'
    BY <1>1, <1>8, AllowedType DEF Allowed, Unlocked
  <2> QED
    BY <2>1, <2>2 DEF ZombieStep
<1>9. ASSUME NEW w \in Workers, ExitStep(w) \/ BootStep(w) \/ WorkerOutage(w)
      PROVE  ZombieStep(e)
  BY <1>8, <1>9 DEF ExitStep, Exit, BootStep, Boot, WorkerOutage, Shutdown, Crash, Idle
<1>10. CASE ApiCrashStep
  BY <1>8, <1>10 DEF ApiCrashStep, ApiCrash, workerVars
<1> QED
  BY <1>4, <1>5, <1>6, <1>7, <1>9, <1>10 DEF OtherStep

LEMMA InitZombies == Init => ZombieInv
<1> SUFFICES ASSUME Init, NEW e \in Executions
             PROVE  IsFiniteSet(Zombies(e)) /\ Cardinality(Zombies(e)) <= Allowed(e)
  BY DEF ZombieInv
<1>1. Zombies(e) = {}
  BY DEF Init, ExecutorInit, Idle, Zombies, Runs
<1>2. Allowed(e) = 0
  BY DEF Init, QueueInit, NoJob, Allowed, Unlocked
<1> QED
  BY <1>1, <1>2, FS_EmptySet

(* One element more.                                                       *)
LEMMA OneMore ==
  ASSUME NEW S, NEW x, IsFiniteSet(S)
  PROVE  /\ IsFiniteSet(S \cup {x}) /\ Cardinality(S \cup {x}) \in Nat
         /\ Cardinality(S \cup {x}) <= Cardinality(S) + 1
<1>1. IsFiniteSet(S \cup {x})
  BY FS_AddElement
<1>2. Cardinality(S) \in Nat /\ Cardinality(S \cup {x}) \in Nat
  BY <1>1, FS_CardinalityType
<1>3. Cardinality(S \cup {x}) \in {Cardinality(S), Cardinality(S) + 1}
  BY FS_AddElement
<1> QED
  BY <1>1, <1>2, <1>3

LEMMA StepZombies == PInv /\ ZombieInv /\ [Next]_vars => ZombieInv'
<1> SUFFICES ASSUME PInv, ZombieInv, [Next]_vars, NEW e \in Executions
             PROVE  IsFiniteSet(Zombies(e)') /\ Cardinality(Zombies(e)') <= Allowed(e)'
  BY DEF ZombieInv
<1> DEFINE Z  == Zombies(e)
           Zn == Zombies(e)'
           A  == Allowed(e)
           An == Allowed(e)'
<1>1. A \in Nat /\ An \in Nat
  <2>1. QueueTypeOK /\ QueueTypeOK'
    BY NextBasics DEF PInv, TypeOK
  <2> QED
    BY <2>1 DEF QueueTypeOK, Job, Allowed
<1>2. IsFiniteSet(Z) /\ Cardinality(Z) <= A /\ Cardinality(Z) \in Nat
  BY FS_CardinalityType DEF ZombieInv
<1>3. \/ Zn \subseteq Z /\ A <= An
      \/ /\ \E h \in Slots : Zn \subseteq Z \cup {h}
         /\ A + 1 <= An
  BY SlotStepZombies, OtherStepZombies, StepIsSlotOrOther DEF ZombieStep
<1> HIDE DEF Z, Zn, A, An
<1>4. CASE Zn \subseteq Z /\ A <= An
  <2>1. IsFiniteSet(Zn) /\ Cardinality(Zn) <= Cardinality(Z) /\ Cardinality(Zn) \in Nat
    BY <1>2, <1>4, FS_Subset, FS_CardinalityType
  <2> QED
    BY <1>1, <1>2, <1>4, <2>1 DEF Zn, An
<1>5. ASSUME NEW h \in Slots, Zn \subseteq Z \cup {h}, A + 1 <= An
      PROVE  IsFiniteSet(Zn) /\ Cardinality(Zn) <= An
  <2>1. IsFiniteSet(Z \cup {h}) /\ Cardinality(Z \cup {h}) \in Nat
        /\ Cardinality(Z \cup {h}) <= Cardinality(Z) + 1
    BY <1>2, OneMore
  <2>2. /\ IsFiniteSet(Zn) /\ Cardinality(Zn) \in Nat
        /\ Cardinality(Zn) <= Cardinality(Z \cup {h})
    BY <1>5, <2>1, FS_Subset, FS_CardinalityType
  <2> QED
    BY <1>1, <1>2, <1>5, <2>1, <2>2
<1> QED
  BY <1>3, <1>4, <1>5 DEF Zn, An

(* All runs of a job are zombies, but for the one that holds its lock.     *)
LEMMA ZombiesBoundRuns ==
  ASSUME PInv, ZombieInv, NEW e \in Executions
  PROVE  Cardinality(RunsOf(e)) <= job[e].stalls + 1
<1>1. job[e] \in Job
  BY DEF PInv, TypeOK, QueueTypeOK
<1>2. IsFiniteSet(Zombies(e)) /\ Cardinality(Zombies(e)) <= Allowed(e)
      /\ Cardinality(Zombies(e)) \in Nat
  BY FS_CardinalityType DEF ZombieInv
<1>3. CASE job[e].state = "active" /\ job[e].holder # None
  <2>1. RunsOf(e) \subseteq Zombies(e) \cup {job[e].holder}
    BY DEF RunsOf, Zombies, Holds
  <2>2. Cardinality(Zombies(e) \cup {job[e].holder}) <= Cardinality(Zombies(e)) + 1
        /\ IsFiniteSet(Zombies(e) \cup {job[e].holder})
        /\ Cardinality(Zombies(e) \cup {job[e].holder}) \in Nat
    BY <1>2, OneMore
  <2>3. /\ Cardinality(RunsOf(e)) <= Cardinality(Zombies(e) \cup {job[e].holder})
        /\ Cardinality(RunsOf(e)) \in Nat
    BY <2>1, <2>2, FS_Subset, FS_CardinalityType
  <2>4. Allowed(e) = job[e].stalls
    BY <1>1, <1>3 DEF Allowed, Unlocked, Job
  <2> QED
    BY <1>1, <1>2, <2>2, <2>3, <2>4 DEF Job
<1>4. CASE ~(job[e].state = "active" /\ job[e].holder # None)
  <2>1. RunsOf(e) \subseteq Zombies(e)
    BY <1>4, QueueAssumption DEF RunsOf, Zombies, Holds
  <2>2. Cardinality(RunsOf(e)) <= Cardinality(Zombies(e)) /\ Cardinality(RunsOf(e)) \in Nat
    BY <1>2, <2>1, FS_Subset, FS_CardinalityType
  <2> QED
    BY <1>1, <1>2, <2>2 DEF Allowed, Job
<1> QED
  BY <1>3, <1>4

(* Two invocations of one job overlap only after a stalled recovery: live  *)
(* runs never exceed one plus the stalls charged so far.                   *)
THEOREM OverlapIsCharged == Spec => []OverlapNeedsStall
<1>1. PInv /\ ZombieInv => OverlapNeedsStall
  BY ZombiesBoundRuns DEF OverlapNeedsStall
<1> QED
  BY PipelineInvariant, InitZombies, StepZombies, <1>1, PTL DEF Spec

-----------------------------------------------------------------------------
(* The outcome in the row.                                                 *)

(* A job that never stalled has one run, and only while it is active.      *)
LEMMA SoloRun ==
  ASSUME PInv, ZombieInv, NEW e \in Executions, job[e].stalls = 0,
         NEW s \in Slots, Runs(s, e)
  PROVE  /\ job[e].state = "active"
         /\ \A t \in Slots : Runs(t, e) => t = s
<1>1. IsFiniteSet(Zombies(e)) /\ Cardinality(Zombies(e)) \in Nat
      /\ Cardinality(Zombies(e)) <= Allowed(e)
  BY FS_CardinalityType DEF ZombieInv
<1>2. CASE ~Unlocked(e)
  <2>1. Cardinality(Zombies(e)) = 0
    BY <1>1, <1>2 DEF Allowed
  <2>2. Zombies(e) = {}
    BY <1>1, <2>1, FS_EmptySet
  <2> QED
    BY <2>2 DEF Zombies, Holds
<1>3. CASE Unlocked(e)
  <2>1. Cardinality(Zombies(e)) \in {0, 1}
    BY <1>1, <1>3 DEF Allowed
  <2>2. ASSUME NEW t \in Slots, Runs(t, e)
        PROVE  t \in Zombies(e)
    BY <1>3, <2>2, QueueAssumption DEF Zombies, Holds, Unlocked
  <2>3. IsFiniteSet(Zombies(e) \ {s})
        /\ Cardinality(Zombies(e) \ {s}) = Cardinality(Zombies(e)) - 1
    BY <1>1, <2>2, FS_RemoveElement
  <2>4. Cardinality(Zombies(e) \ {s}) \in Nat
    BY <2>3, FS_CardinalityType
  <2>5. Cardinality(Zombies(e) \ {s}) = 0
    BY <2>1, <2>3, <2>4
  <2>6. Zombies(e) \ {s} = {}
    BY <2>3, <2>5, FS_EmptySet
  <2> QED
    BY <1>3, <2>2, <2>6 DEF Unlocked
<1> QED
  BY <1>2, <1>3

(* The outcome is shown, or the route's late update hides it.              *)
Visible(e) ==
  \/ row[e].status \in {"COMPLETED", "TIMEOUT"}
  \/ row[e].status = "QUEUED" /\ route[e] \in {"accepted", "refused"}

(* From the update that stores the outcome of a job's only run, until the  *)
(* job is completed, nothing but that late update touches the status.      *)
VisibleInv ==
  \A e \in Executions :
    job[e].stalls = 0 =>
      \A s \in Slots :
        Runs(s, e) /\ run[s].pc \in {"progress", "publish", "resolved"} => Visible(e)

(* Stalls are never forgotten.                                             *)
LEMMA StallsGrow ==
  ASSUME QueueTypeOK, [QueueNext]_job, NEW e \in Executions, job'[e].stalls = 0
  PROVE  job[e].stalls = 0
<1>1. job \in [Executions -> Job]
  BY DEF QueueTypeOK
<1>2. CASE UNCHANGED job
  BY <1>2
<1>3. ASSUME NEW x \in Executions,
             Add(x) \/ Promote(x) \/ ExpireLock(x) \/ MoveStalled(x)
      PROVE  job'[e].stalls \in {job[e].stalls, job[e].stalls + 1}
  BY <1>1, <1>3 DEF Add, Promote, ExpireLock, MoveStalled, Job
<1>4. ASSUME NEW x \in Executions, NEW s \in Slots,
             Take(x, s) \/ MoveToCompleted(x, s) \/ MoveToFailed(x, s)
      PROVE  job'[e].stalls = job[e].stalls
  BY <1>1, <1>4 DEF Take, MoveToCompleted, MoveToFailed, Holds, Job
<1>5. job[e].stalls \in Nat
  BY <1>1 DEF Job
<1> QED
  BY <1>2, <1>3, <1>4, <1>5 DEF QueueNext

(* Only a run completes a job, and an answered request stays answered.     *)
LEMMA OtherStepKeeps ==
  ASSUME PInv, OtherStep, NEW e \in Executions
  PROVE  /\ job'[e].state = "completed" => job[e].state = "completed"
         /\ route[e] \in {"accepted", "refused"} => route'[e] = route[e]
<1>1. job \in [Executions -> Job] /\ route \in [Executions -> RouteStates]
  BY DEF PInv, TypeOK, QueueTypeOK, RouteTypeOK
<1>2. ASSUME NEW x \in Executions, RouteStep(x)
      PROVE  /\ job'[e].state = "completed" => job[e].state = "completed"
             /\ route[e] \in {"accepted", "refused"} => route'[e] = route[e]
  <2>1. CASE CreateRow(x) \/ MarkQueued(x)
    BY <1>1, <2>1 DEF CreateRow, MarkQueued, Goto
  <2>2. CASE Enqueue(x)
    <3>1. route[x] = "created" /\ \A y \in Executions : y # x => route'[y] = route[y]
      BY <1>1, <2>2 DEF Enqueue, Goto
    <3>2. job'[e].state = "completed" => job[e].state = "completed"
      BY <1>1, <2>2 DEF Enqueue, Add, Job
    <3> QED
      BY <3>1, <3>2
  <2> QED
    BY <1>2, <2>1, <2>2 DEF RouteStep, Submit
<1>3. ASSUME NEW x \in Executions, FetchStep(x)
      PROVE  /\ job'[e].state = "completed" => job[e].state = "completed"
             /\ UNCHANGED route
  BY <1>1, <1>3 DEF FetchStep, Fetch, Take, Job
<1>4. ASSUME NEW x \in Executions, QueueStep(x) \/ LoseLockStep(x)
      PROVE  /\ job'[e].state = "completed" => job[e].state = "completed"
             /\ UNCHANGED route
  <2>1. Promote(x) \/ ExpireLock(x) \/ MoveStalled(x)
    BY <1>4 DEF QueueStep, LoseLockStep, ExpireDeadLock, CheckStalled, LoseLock
  <2>2. job'[x].state # "completed" /\ \A y \in Executions : y # x => job'[y] = job[y]
    BY <1>1, <2>1 DEF Promote, ExpireLock, MoveStalled, Job
  <2> QED
    BY <1>4, <2>2 DEF QueueStep, LoseLockStep
<1>5. ASSUME NEW w \in Workers, ExitStep(w) \/ BootStep(w) \/ WorkerOutage(w)
      PROVE  UNCHANGED <<job, route>>
  BY <1>5 DEF ExitStep, BootStep, WorkerOutage
<1>6. CASE ApiCrashStep
  BY <1>1, <1>6 DEF ApiCrashStep, ApiCrash, InFlight
<1> QED
  BY <1>2, <1>3, <1>4, <1>5, <1>6 DEF OtherStep, vars

LEMMA SlotStepVisible ==
  ASSUME PInv, ZombieInv, VisibleInv, OutcomeVisible, NEW s \in Slots, SlotStep(s),
         NEW e \in Executions, job[e].stalls = 0
  PROVE  /\ \A t \in Slots :
              run'[t].pc \in {"progress", "publish", "resolved"} /\ run'[t].exec = e
              => Visible(e)'
         /\ job'[e].state = "completed" => Visible(e)'
<1>1. Steps(s) /\ SlotFrame(s) /\ UNCHANGED route
  BY SlotSteps DEF Steps
<1>2. /\ run \in [Slots -> Run] /\ row \in [Executions -> Row]
      /\ job \in [Executions -> Job]
  BY DEF PInv, TypeOK, ExecutorTypeOK, StoreTypeOK, QueueTypeOK
<1>3. CASE e # Exec(s)
  <2>1. /\ row'[e] = row[e] /\ job'[e] = job[e]
        /\ \A t \in Slots : run'[t] = run[t] \/ run'[t].exec # e \/ run'[t].pc = "idle"
    BY <1>1, <1>3 DEF SlotFrame, Exec
  <2> QED
    BY <1>1, <2>1 DEF VisibleInv, OutcomeVisible, Visible, Runs
<1>4. CASE e = Exec(s)
  <2>1. Runs(s, e)
    BY <1>1, <1>4 DEF SlotFrame, Runs, Exec
  <2>2. job[e].state = "active" /\ \A t \in Slots : Runs(t, e) => t = s
    BY <2>1, SoloRun
  <2>3. run[s].pc \in {"progress", "publish", "resolved"} => Visible(e)
    BY <2>1 DEF VisibleInv
  <2>4. ASSUME run'[s].pc \in {"progress", "publish", "resolved"}
        PROVE  Visible(e)'
    <3>1. /\ CompletedRow(e, run[s].case).status = "COMPLETED"
          /\ TimeoutRow(e).status = "TIMEOUT"
      BY <1>2 DEF CompletedRow, TimeoutRow, Row
    <3>2. \/ row'[e] \in {CompletedRow(e, run[s].case), TimeoutRow(e)}
          \/ run[s].pc \in {"progress", "publish"} /\ row'[e] = row[e]
      BY <1>1, <1>2, <1>4, <2>4 DEF Steps, SlotFlow, MovesTo, Throws, Run, Idle
    <3> QED
      BY <1>1, <2>3, <3>1, <3>2 DEF Visible
  <2>5. ASSUME job'[e].state = "completed"
        PROVE  Visible(e)'
    <3>1. run[s].pc = "resolved"
      BY <1>1, <1>2, <1>4, <2>2, <2>5 DEF Steps, JobFlow, MoveToFailed, Job
    <3>2. row'[e] = row[e]
      BY <1>1, <1>4, <3>1 DEF Steps, SlotFlow
    <3> QED
      BY <1>1, <2>3, <3>1, <3>2 DEF Visible
  <2> QED
    BY <1>1, <2>2, <2>4, <2>5 DEF SlotFrame, Runs
<1> QED
  BY <1>3, <1>4

LEMMA OtherStepVisible ==
  ASSUME PInv, VisibleInv, OutcomeVisible, OtherStep,
         NEW e \in Executions, job[e].stalls = 0
  PROVE  /\ \A t \in Slots :
              run'[t].pc \in {"progress", "publish", "resolved"} /\ run'[t].exec = e
              => Visible(e)'
         /\ job'[e].state = "completed" => Visible(e)'
<1>1. RunsBesides /\ RowsBesides /\ row[e] \in Row
  BY OtherSteps DEF PInv, TypeOK, StoreTypeOK
<1>2. /\ job'[e].state = "completed" => job[e].state = "completed"
      /\ route[e] \in {"accepted", "refused"} => route'[e] = route[e]
  BY OtherStepKeeps
<1>3. \A t \in Slots :
        run'[t].pc \in {"progress", "publish", "resolved"} => run'[t] = run[t]
  BY <1>1, StartedRun DEF RunsBesides
<1>4. CASE row'[e] = row[e]
  BY <1>2, <1>3, <1>4 DEF VisibleInv, OutcomeVisible, Visible, Runs
<1>5. CASE job[e] = NoJob
  <2>1. job[e].state = "absent" /\ job[e].invoked = 0
    BY <1>5 DEF NoJob
  <2>2. \A t \in Slots : run[t].pc # "idle" => run[t].exec # e
    BY <2>1 DEF PInv, RunInv
  <2> QED
    BY <1>2, <1>3, <2>1, <2>2
<1>6. CASE row'[e] = WithStatus(e, "QUEUED") /\ route'[e] \in {"accepted", "refused"}
  <2>1. WithStatus(e, "QUEUED").status = "QUEUED"
    BY <1>1 DEF WithStatus, Row
  <2> QED
    BY <1>6, <2>1 DEF Visible
<1> QED
  BY <1>1, <1>4, <1>5, <1>6 DEF RowsBesides

LEMMA StepVisible ==
  PInv /\ ZombieInv /\ VisibleInv /\ OutcomeVisible /\ [Next]_vars =>
    VisibleInv' /\ OutcomeVisible'
<1> SUFFICES ASSUME PInv, ZombieInv, VisibleInv, OutcomeVisible, [Next]_vars,
                    NEW e \in Executions, job'[e].stalls = 0
             PROVE  /\ \A t \in Slots :
                         run'[t].pc \in {"progress", "publish", "resolved"}
                         /\ run'[t].exec = e => Visible(e)'
                    /\ job'[e].state = "completed" => Visible(e)'
  BY DEF VisibleInv, OutcomeVisible, Visible, Runs
<1>1. job[e].stalls = 0
  BY NextIsQueueStep, NextBasics, StallsGrow DEF PInv, TypeOK
<1> QED
  BY <1>1, StepIsSlotOrOther, SlotStepVisible, OtherStepVisible

(* A job that completed without a stall shows COMPLETED or TIMEOUT, unless *)
(* the route's late update to QUEUED (execute.ts:45) hides it: no failed   *)
(* attempt, retry or failing call before leaves another status behind.     *)
THEOREM CompletionIsVisible == Spec => []OutcomeVisible
<1>1. Init => VisibleInv /\ OutcomeVisible
  BY DEF Init, QueueInit, NoJob, ExecutorInit, Idle, VisibleInv, OutcomeVisible, Runs
<1> QED
  BY PipelineInvariant, InitZombies, StepZombies, StepVisible, <1>1, PTL DEF Spec

-----------------------------------------------------------------------------
(* The failure in the row.                                                 *)

(* Without an outage every worker is up, no job stalls, and exactly the    *)
(* runs of active jobs are alive, each holding the lock of its own.        *)
Calm ==
  /\ \A w \in Workers : worker[w] = "up"
  /\ \A e \in Executions : job[e].stalls = 0
  /\ \A e \in Executions :
       job[e].state = "active" => job[e].holder \in Slots /\ Runs(job[e].holder, e)
  /\ \A s \in Slots : run[s].pc # "idle" => Holds(run[s].exec, s)

(* The failure is shown, or the route's late update hides it.              *)
Shown(e) ==
  \/ row[e].status = "FAILED"
  \/ row[e].status = "QUEUED" /\ route[e] \in {"accepted", "refused"}

(* Every failed attempt of a job took a failing call, and one that left no *)
(* trace took two: the second broke the catch branch.                      *)
FaultsPaid ==
  /\ \A e \in Executions :
       /\ job[e].state # "completed" => job[e].made <= faults
       /\ job[e].state = "failed" =>
            Attempts <= job[e].made /\ (Shown(e) \/ job[e].made < faults)
  /\ \A s \in Slots :
       LET e == run[s].exec IN
         /\ run[s].pc \in {"catch", "publishFailed", "rejected"} => job[e].made < faults
         /\ run[s].pc \in {"publishFailed", "rejected"} =>
              Shown(e) \/ job[e].made + 1 < faults

CalmInv == outages = 0 => Calm /\ FaultsPaid

(* What a slot does to its job while all is calm.                          *)
LEMMA SlotStepCalm ==
  ASSUME PInv, Calm, NEW s \in Slots, SlotStep(s)
  PROVE  /\ Calm'
         /\ \A t \in Slots : t # s /\ run[t].pc # "idle" => run[t].exec # Exec(s)
         /\ Holds(Exec(s), s)
<1>1. /\ Steps(s) /\ SlotFrame(s) /\ JobFlow(s) /\ UNCHANGED worker
      /\ Exec(s) \in Executions
  BY SlotSteps DEF Steps
<1>2. run \in [Slots -> Run] /\ job \in [Executions -> Job] /\ RunInv
  BY DEF PInv, TypeOK, ExecutorTypeOK, QueueTypeOK
<1> DEFINE e == Exec(s)
<1>3. /\ Holds(e, s)
      /\ \A t \in Slots : t # s /\ run[t].pc # "idle" => run[t].exec # e
  BY <1>1 DEF Calm, SlotFrame, Holds, Exec
<1>4. /\ \A w \in Workers : worker'[w] = "up"
      /\ \A x \in Executions : job'[x].stalls = 0
  BY <1>1, <1>2 DEF Calm, JobFlow, MoveToCompleted, MoveToFailed, Job
<1>5. CASE run'[s].pc # "idle"
  <2>1. UNCHANGED job
    BY <1>1, <1>5 DEF JobFlow
  <2>2. run'[s].exec = run[s].exec
    BY <1>1, <1>5 DEF SlotFrame
  <2>3. \A x \in Executions :
          job'[x].state = "active" => job'[x].holder \in Slots /\ Runs(job[x].holder, x)'
    BY <1>1, <1>5, <2>1, <2>2 DEF Calm, SlotFrame, Runs
  <2>4. \A t \in Slots : run'[t].pc # "idle" => Holds(run[t].exec, t)'
    BY <1>1, <1>5, <2>1, <2>2 DEF Calm, SlotFrame, Holds
  <2> QED
    BY <1>3, <1>4, <2>3, <2>4 DEF Calm
<1>6. CASE run'[s].pc = "idle"
  <2>1. MoveToCompleted(e, s) \/ MoveToFailed(e, s)
    BY <1>1, <1>3, <1>6 DEF JobFlow
  <2>2. /\ job'[e].state # "active"
        /\ \A x \in Executions : x # e => job'[x] = job[x]
    BY <1>1, <1>2, <2>1 DEF MoveToCompleted, MoveToFailed, Job
  <2>3. ASSUME NEW x \in Executions, job'[x].state = "active"
        PROVE  job'[x].holder \in Slots /\ Runs(job[x].holder, x)'
    <3>1. x # e /\ job'[x] = job[x] /\ job[x].holder # s
      BY <1>3, <2>2, <2>3 DEF Calm, Runs, Exec
    <3> QED
      BY <1>1, <2>3, <3>1 DEF Calm, SlotFrame, Runs
  <2>4. ASSUME NEW t \in Slots, run'[t].pc # "idle"
        PROVE  Holds(run[t].exec, t)'
    <3>1. t # s /\ run'[t] = run[t] /\ run[t].exec # e /\ run[t].exec \in Executions
      BY <1>1, <1>2, <1>3, <1>6, <2>4 DEF SlotFrame, RunInv
    <3> QED
      BY <2>2, <2>4, <3>1 DEF Calm, Holds
  <2> QED
    BY <1>3, <1>4, <2>3, <2>4 DEF Calm
<1> QED
  BY <1>5, <1>6

LEMMA SlotStepPaid ==
  ASSUME PInv, Calm, FaultsPaid, NEW s \in Slots, SlotStep(s)
  PROVE  FaultsPaid'
<1> SUFFICES ASSUME NEW e \in Executions, e = Exec(s)
             PROVE  FaultsPaid'
  BY SlotSteps DEF Steps
<1>1. /\ Steps(s) /\ SlotFrame(s) /\ JobFlow(s) /\ SlotFlow(s) /\ UNCHANGED <<worker, route>>
      /\ e \in Executions /\ faults \in Nat /\ faults' \in {faults, faults + 1}
  BY SlotSteps DEF Steps
<1>2. /\ run \in [Slots -> Run] /\ job \in [Executions -> Job] /\ RunInv
      /\ row \in [Executions -> Row]
  BY DEF PInv, TypeOK, ExecutorTypeOK, QueueTypeOK, StoreTypeOK
<1>3. /\ Holds(e, s)
      /\ \A t \in Slots : t # s /\ run[t].pc # "idle" => run[t].exec # e
  BY SlotStepCalm
<1>4. job[e].made \in Nat /\ job[e].state = "active" /\ job[e].made <= faults
  BY <1>1, <1>2, <1>3 DEF Holds, Job, FaultsPaid
<1>5. /\ run[s].pc \in {"catch", "publishFailed", "rejected"} => job[e].made < faults
      /\ run[s].pc \in {"publishFailed", "rejected"} =>
           Shown(e) \/ job[e].made + 1 < faults
  BY DEF FaultsPaid, Exec
<1>6. worker[Host[s]] # "stopping" /\ ~Overdrawn(e)
  BY ExecutorAssumption, QueueAssumption DEF Calm, Overdrawn
<1>7. row'[e] = row[e] => (Shown(e) <=> Shown(e)')
  BY <1>1 DEF Shown
<1>8. row'[e] = FailedRow(e) => Shown(e)'
  BY <1>1, <1>2 DEF Shown, FailedRow, Row
<1>9. /\ run'[s].pc \in {"catch", "publishFailed", "rejected"} => job[e].made < faults'
      /\ run'[s].pc \in {"publishFailed", "rejected"} =>
           Shown(e)' \/ job[e].made + 1 < faults'
  <2>1. /\ run'[s].pc = "catch" => faults' = faults + 1
        /\ run'[s].pc = "publishFailed" => run[s].pc = "catch" /\ row'[e] = FailedRow(e)
        /\ run'[s].pc = "rejected" =>
             \/ run[s].pc = "catch" /\ faults' = faults + 1
             \/ run[s].pc = "publishFailed" /\ row'[e] = row[e]
    BY <1>1, <1>2, <1>6 DEF SlotFlow, MovesTo, Throws, Run, Idle
  <2> QED
    BY <1>1, <1>4, <1>5, <1>7, <1>8, <2>1
<1>10. CASE UNCHANGED job
  <2>1. ASSUME NEW x \in Executions
        PROVE  /\ job'[x].state # "completed" => job'[x].made <= faults'
               /\ job'[x].state = "failed" =>
                    Attempts <= job'[x].made /\ (Shown(x)' \/ job'[x].made < faults')
    <3>1. job[x].made \in Nat /\ (job[x].state = "failed" => x # e)
      BY <1>2, <1>4 DEF Job
    <3>2. x # e => row'[x] = row[x]
      BY <1>1 DEF SlotFrame
    <3> QED
      BY <1>1, <1>10, <3>1, <3>2 DEF FaultsPaid, Shown
  <2>2. ASSUME NEW t \in Slots, t # s
        PROVE  /\ run'[t].pc \in {"catch", "publishFailed", "rejected"} =>
                    job'[run'[t].exec].made < faults'
               /\ run'[t].pc \in {"publishFailed", "rejected"} =>
                    Shown(run[t].exec)' \/ job'[run'[t].exec].made + 1 < faults'
    <3>1. run'[t] = run[t]
      BY <1>1, <2>2 DEF SlotFrame
    <3>2. CASE run[t].pc # "idle"
      <4>1. /\ run[t].exec # e /\ run[t].exec \in Executions
            /\ job[run[t].exec].made \in Nat
        BY <1>2, <1>3, <2>2, <3>2 DEF RunInv, Job
      <4>2. row'[run[t].exec] = row[run[t].exec]
        BY <1>1, <4>1 DEF SlotFrame
      <4> QED
        BY <1>1, <1>10, <3>1, <4>1, <4>2 DEF FaultsPaid, Shown
    <3> QED
      BY <3>1, <3>2
  <2>3. run'[s].pc = "idle" \/ run'[s].exec = e
    BY <1>1 DEF SlotFrame, Exec
  <2> QED
    BY <1>9, <1>10, <2>1, <2>2, <2>3 DEF FaultsPaid
<1>11. CASE run'[s].pc = "idle" /\ (MoveToCompleted(e, s) \/ MoveToFailed(e, s))
  <2>1. ~UNCHANGED job
    BY <1>2, <1>4, <1>11 DEF MoveToCompleted, MoveToFailed, Job
  <2>2. /\ row'[e] = row[e]
        /\ \/ run[s].pc = "resolved" /\ MoveToCompleted(e, s)
           \/ run[s].pc = "rejected" /\ MoveToFailed(e, s)
    BY <1>1, <2>1 DEF JobFlow, SlotFlow
  <2>3. ASSUME NEW x \in Executions, x # e
        PROVE  /\ job'[x] = job[x] /\ job[x].made \in Nat /\ row'[x] = row[x]
               /\ Shown(x) <=> Shown(x)'
    BY <1>1, <1>2, <2>3 DEF SlotFrame, Job, Shown
  <2>4. /\ job'[e].state = "failed" =>
             Attempts <= job'[e].made /\ (Shown(e)' \/ job'[e].made < faults')
        /\ job'[e].state # "completed" => job'[e].made <= faults'
    <3>1. CASE MoveToCompleted(e, s)
      BY <1>2, <3>1 DEF MoveToCompleted, Job
    <3>2. CASE run[s].pc = "rejected" /\ MoveToFailed(e, s)
      <4>1. /\ job'[e].made = job[e].made + 1
            /\ job'[e].state = "failed" => Attempts <= job[e].made + 1
        BY <1>2, <1>4, <1>6, <3>2, QueueAssumption DEF MoveToFailed, Job
      <4> QED
        BY <1>1, <1>4, <1>5, <1>7, <2>2, <3>2, <4>1
    <3> QED
      BY <2>2, <3>1, <3>2
  <2>5. ASSUME NEW x \in Executions
        PROVE  /\ job'[x].state # "completed" => job'[x].made <= faults'
               /\ job'[x].state = "failed" =>
                    Attempts <= job'[x].made /\ (Shown(x)' \/ job'[x].made < faults')
    BY <1>1, <2>3, <2>4 DEF FaultsPaid
  <2>6. ASSUME NEW t \in Slots, run'[t].pc # "idle"
        PROVE  /\ run'[t].pc \in {"catch", "publishFailed", "rejected"} =>
                    job'[run'[t].exec].made < faults'
               /\ run'[t].pc \in {"publishFailed", "rejected"} =>
                    Shown(run[t].exec)' \/ job'[run'[t].exec].made + 1 < faults'
    <3>1. run'[t] = run[t] /\ run[t].exec # e /\ run[t].exec \in Executions
      BY <1>1, <1>2, <1>3, <1>11, <2>6 DEF SlotFrame, RunInv
    <3> QED
      BY <1>1, <2>3, <3>1 DEF FaultsPaid
  <2> QED
    BY <2>5, <2>6 DEF FaultsPaid
<1> QED
  BY <1>1, <1>10, <1>11 DEF JobFlow

(* Without an outage the other steps start runs, never end one, and leave  *)
(* the attempts of a job as they are.                                      *)
CalmOther ==
  /\ Calm'
  /\ \A e \in Executions :
       /\ job'[e].made = job[e].made
       /\ job'[e].state = "failed" => job[e].state = "failed"
       /\ job[e].state = "completed" => job'[e].state = "completed"
  /\ faults' \in {faults, faults + 1}

LEMMA OtherStepCalm ==
  ASSUME PInv, Calm, OtherStep, outages = 0, outages' = 0
  PROVE  CalmOther
<1>1. /\ run \in [Slots -> Run] /\ job \in [Executions -> Job]
      /\ worker \in [Workers -> {"up", "stopping", "down"}]
  BY DEF PInv, TypeOK, ExecutorTypeOK, QueueTypeOK
<1>2. /\ \A w \in Workers : worker[w] = "up"
      /\ \A e \in Executions : job[e].stalls = 0
  BY DEF Calm
<1>3. ~Outage
  BY DEF Outage
<1>4. ASSUME UNCHANGED <<run, worker>>,
              \A e \in Executions :
                /\ "active" \in {job[e].state, job'[e].state} => job'[e] = job[e]
                /\ job'[e].stalls = job[e].stalls
       PROVE  Calm'
  <2>1. \A e \in Executions :
          job'[e].state = "active" => job'[e].holder \in Slots /\ Runs(job[e].holder, e)'
    BY <1>4 DEF Calm, Runs
  <2>2. \A s \in Slots : run'[s].pc # "idle" => Holds(run[s].exec, s)'
    BY <1>4 DEF Calm, Holds, PInv, RunInv
  <2> QED
    BY <1>2, <1>4, <2>1, <2>2 DEF Calm
<1>5. CASE UNCHANGED vars
  BY <1>5, <1>4 DEF vars, CalmOther
<1>6. ASSUME NEW x \in Executions, RouteStep(x)
      PROVE  CalmOther
  <2>1. UNCHANGED <<run, worker>> /\ faults' \in {faults, faults + 1}
    BY <1>6 DEF RouteStep, workerVars, Submit, CreateRow, Enqueue, MarkQueued, Write,
       WriteFails, Fault
  <2>2. \/ UNCHANGED job
        \/ /\ job[x].state = "absent" /\ job'[x].state = "waiting"
           /\ job'[x].made = job[x].made /\ job'[x].stalls = job[x].stalls
           /\ \A y \in Executions : y # x => job'[y] = job[y]
    BY <1>1, <1>6 DEF RouteStep, Submit, CreateRow, Enqueue, MarkQueued, Add, Job
  <2>3. Calm'
    BY <1>4, <2>1, <2>2
  <2> QED
    BY <2>1, <2>2, <2>3 DEF CalmOther
<1>7. ASSUME NEW x \in Executions, FetchStep(x)
      PROVE  CalmOther
  <2>1. PICK s \in Slots : Fetch(s, x)
    BY <1>7 DEF FetchStep
  <2>2. /\ run[s].pc = "idle" /\ run'[s].exec = x /\ run'[s].pc = "begin"
        /\ \A t \in Slots : t # s => run'[t] = run[t]
    BY <1>1, <1>2, <2>1, QueueAssumption DEF Fetch, Idle, Overdrawn
  <2>3. /\ job[x].state = "waiting" /\ job'[x].state = "active" /\ job'[x].holder = s
        /\ job'[x].made = job[x].made /\ job'[x].stalls = job[x].stalls
        /\ \A y \in Executions : y # x => job'[y] = job[y]
    BY <1>1, <2>1 DEF Fetch, Take, Job
  <2>4. UNCHANGED <<worker, faults>>
    BY <1>7, <2>1 DEF FetchStep, Fetch
  <2>5. \A e \in Executions :
          job'[e].state = "active" => job'[e].holder \in Slots /\ Runs(job[e].holder, e)'
    BY <2>2, <2>3 DEF Calm, Runs
  <2>6. \A t \in Slots : run'[t].pc # "idle" => Holds(run[t].exec, t)'
    BY <2>2, <2>3, <1>1 DEF Calm, Holds, PInv, RunInv
  <2> QED
    BY <1>2, <2>3, <2>4, <2>5, <2>6 DEF CalmOther, Calm
<1>8. ASSUME NEW x \in Executions, QueueStep(x)
      PROVE  CalmOther
  <2>1. UNCHANGED <<run, worker, faults>>
    BY <1>8 DEF QueueStep, workerVars
  <2>2. ~ExpireDeadLock(x) /\ ~CheckStalled(x)
    BY QueueAssumption DEF ExpireDeadLock, ExpireLock, CheckStalled, MoveStalled, Calm
  <2>3. /\ job[x].state = "delayed" /\ job'[x].state = "waiting"
        /\ job'[x].made = job[x].made /\ job'[x].stalls = job[x].stalls
        /\ \A y \in Executions : y # x => job'[y] = job[y]
    BY <1>1, <1>8, <2>2 DEF QueueStep, Promote, Job
  <2>4. Calm'
    BY <1>4, <2>1, <2>3
  <2> QED
    BY <2>1, <2>3, <2>4 DEF CalmOther
<1>9. ASSUME NEW w \in Workers, ExitStep(w) \/ BootStep(w) \/ WorkerOutage(w)
      PROVE  FALSE
  BY <1>2, <1>3, <1>9 DEF ExitStep, Exit, BootStep, Boot, WorkerOutage
<1>10. ~ApiCrashStep /\ \A x \in Executions : ~LoseLockStep(x)
  BY <1>3 DEF ApiCrashStep, LoseLockStep
<1> QED
  BY <1>5, <1>6, <1>7, <1>8, <1>9, <1>10 DEF OtherStep

LEMMA OtherStepPaid ==
  ASSUME PInv, Calm, FaultsPaid, OtherStep, CalmOther
  PROVE  FaultsPaid'
<1>1. /\ RunsBesides /\ RowsBesides /\ RunInv /\ faults \in Nat
      /\ job \in [Executions -> Job] /\ row \in [Executions -> Row]
  BY OtherSteps, FaultsAssumption DEF PInv, TypeOK, QueueTypeOK, StoreTypeOK
<1>2. /\ \A e \in Executions :
           /\ job'[e].made = job[e].made /\ job[e].made \in Nat
           /\ job'[e].state = "failed" => job[e].state = "failed"
           /\ job[e].state = "completed" => job'[e].state = "completed"
      /\ faults' \in {faults, faults + 1}
  BY <1>1 DEF CalmOther, Job
<1>3. ASSUME NEW e \in Executions, Shown(e), job[e].invoked > 0
      PROVE  Shown(e)'
  <2>1. route[e] \in {"accepted", "refused"} => route'[e] = route[e]
    BY OtherStepKeeps
  <2>2. WithStatus(e, "QUEUED").status = "QUEUED" /\ job[e] # NoJob
    BY <1>1, <1>3 DEF WithStatus, Row, NoJob
  <2> QED
    BY <1>1, <1>3, <2>1, <2>2 DEF RowsBesides, Shown
<1>4. ASSUME NEW e \in Executions
      PROVE  /\ job'[e].state # "completed" => job'[e].made <= faults'
             /\ job'[e].state = "failed" =>
                  Attempts <= job'[e].made /\ (Shown(e)' \/ job'[e].made < faults')
  <2>1. job[e].state = "failed" => job[e].made > 0 \/ job[e].invoked > 0
    BY <1>1, <1>2, QueueAssumption DEF FaultsPaid
  <2>2. job[e].made > 0 => job[e].invoked > 0
    <3>1. job[e].stalls = 0
      BY DEF Calm
    <3>2. ~Overdrawn(e)
      BY <3>1, QueueAssumption DEF Overdrawn
    <3> QED
      BY <1>1, <3>1, <3>2 DEF PInv, QueueInv, BudgetInv, Job
  <2> QED
    BY <1>1, <1>2, <1>3, <2>1, <2>2 DEF FaultsPaid
<1>5. ASSUME NEW t \in Slots
      PROVE  /\ run'[t].pc \in {"catch", "publishFailed", "rejected"} =>
                  job'[run'[t].exec].made < faults'
             /\ run'[t].pc \in {"publishFailed", "rejected"} =>
                  Shown(run[t].exec)' \/ job'[run'[t].exec].made + 1 < faults'
  <2>1. run'[t].pc \in {"catch", "publishFailed", "rejected"} => run'[t] = run[t]
    BY <1>1, StartedRun DEF RunsBesides, Calm
  <2>2. CASE run'[t] = run[t] /\ run[t].pc # "idle"
    <3>1. PICK e \in Executions : e = run[t].exec /\ e = run'[t].exec /\ job[e].invoked > 0
      BY <1>1, <2>2 DEF RunInv
    <3> QED
      BY <1>1, <1>2, <1>3, <2>2, <3>1 DEF FaultsPaid
  <2> QED
    BY <2>1, <2>2
<1> QED
  BY <1>4, <1>5 DEF FaultsPaid

(* Outages are never forgotten.                                            *)
LEMMA OutagesStay ==
  ASSUME PInv, [Next]_vars, outages' = 0
  PROVE  outages = 0
<1>1. outages \in Nat
  BY OutagesAssumption DEF PInv, TypeOK
<1> QED
  BY <1>1 DEF Next, vars, RouteStep, FetchStep, QueueStep, LoseLockStep, SlotStep,
     ExitStep, BootStep, WorkerOutage, ApiCrashStep, Outage

LEMMA StepCalm == PInv /\ CalmInv /\ [Next]_vars => CalmInv'
<1> SUFFICES ASSUME PInv, CalmInv, [Next]_vars, outages' = 0
             PROVE  Calm' /\ FaultsPaid'
  BY DEF CalmInv
<1>1. outages = 0
  BY OutagesStay
<1>2. Calm /\ FaultsPaid
  BY <1>1 DEF CalmInv
<1> QED
  BY <1>1, <1>2, StepIsSlotOrOther, SlotStepCalm, SlotStepPaid, OtherStepCalm,
     OtherStepPaid DEF CalmOther

LEMMA InitCalm == Init => CalmInv
  BY QueueAssumption DEF Init, QueueInit, NoJob, StoreInit, ExecutorInit, Idle, CalmInv,
     Calm, FaultsPaid

(* Without an outage a job fails silently only after a double fault: with  *)
(* at most Attempts failing calls, the catch branch of the last attempt    *)
(* stored FAILED (executor.ts:256), unless the route's late update hid it. *)
THEOREM FailureIsVisible == Spec => []FailureVisible
<1>1. PInv /\ CalmInv => FailureVisible
  <2> SUFFICES ASSUME PInv, CalmInv, NEW e \in Executions, job[e].state = "failed",
                      outages = 0, faults <= Attempts
               PROVE  Shown(e)
    BY DEF FailureVisible, Shown
  <2>1. Attempts <= job[e].made /\ (Shown(e) \/ job[e].made < faults)
    BY DEF CalmInv, FaultsPaid
  <2>2. faults \in Nat /\ job[e].made \in Nat
    BY FaultsAssumption DEF PInv, TypeOK, StoreTypeOK, QueueTypeOK, Job
  <2> QED
    BY <2>1, <2>2, QueueAssumption
<1> QED
  BY PipelineInvariant, InitCalm, StepCalm, <1>1, PTL DEF Spec
=============================================================================
