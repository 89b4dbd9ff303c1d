------------------------------ MODULE Executor ------------------------------
(***************************************************************************)
(* The worker side: the BullMQ processor of apps/worker/src/index.ts and   *)
(* processExecutionJob of apps/worker/src/executor.ts, one invocation per  *)
(* slot, split at every await.  A run keeps going after it lost its job's  *)
(* lock; it only learns of it when BullMQ refuses to finish the job.       *)
(***************************************************************************)
EXTENDS JobQueue, ExecutionStore

CONSTANTS
  Workers,     \* worker processes
  Host,        \* the worker each slot belongs to
  TestCases    \* test cases per execution; 0: submitted without test cases

ASSUME ExecutorAssumption ==
  /\ Host \in [Slots -> Workers]
  /\ TestCases \in [Executions -> Nat]

VARIABLES
  run,      \* the processor invocation of each slot
  events,   \* event types handed to the workers' Redis clients, per execution
  worker    \* life cycle of each worker process

PCs == {"idle", "begin", "announce", "sandbox", "log", "record", "progress",
        "publish", "resolved", "catch", "publishFailed", "rejected"}

EventTypes == {"started", "log", "completed", "timeout", "failed"}

(* case: sandbox runs finished; outcome: what the last of them returned. A *)
(* Docker failure is returned as stderr text, i.e. as "output".            *)
Run == [pc : PCs, exec : Executions \cup {None},
        case : Nat, outcome : {"none", "output", "timeout"}]

Idle == [pc |-> "idle", exec |-> None, case |-> 0, outcome |-> "none"]

ExecutorTypeOK ==
  /\ run \in [Slots -> Run]
  /\ events \in [Executions -> SUBSET EventTypes]
  /\ worker \in [Workers -> {"up", "stopping", "down"}]

ExecutorInit ==
  /\ run = [s \in Slots |-> Idle]
  /\ events = [e \in Executions |-> {}]
  /\ worker = [w \in Workers |-> "up"]

-----------------------------------------------------------------------------
Exec(s) == run[s].exec

Runs(s, e) == run[s].pc # "idle" /\ run[s].exec = e

Jump(s, pc) == run' = [run EXCEPT ![s].pc = pc]

(* publishEvent is not awaited: it hands the message to the worker's       *)
(* ioredis client and goes on.  What becomes of it is in Streaming.        *)
Publish(e, type) == events' = [events EXCEPT ![e] = @ \cup {type}]

(* job.updateProgress either lets the run go on to pc or throws into the   *)
(* catch branch.  It does not check the lock.                              *)
UpdateProgress(s, pc) ==
  \/ Jump(s, pc) /\ UNCHANGED faults
  \/ Fault /\ Jump(s, "catch")

(* db.execution.update either lets the run go on to pc or throws.          *)
Update(s, r, pc) ==
  \/ Write(Exec(s), r) /\ Jump(s, pc)
  \/ WriteFails(Exec(s), r) /\ Jump(s, "catch")

-----------------------------------------------------------------------------
(* The worker fetches a job into a free slot; one with a deferred failure  *)
(* is as good as rejected.                                                 *)
Fetch(s, e) ==
  /\ worker[Host[s]] = "up"
  /\ run[s].pc = "idle"
  /\ Take(e, s)
  /\ run' = [run EXCEPT ![s] =
       [Idle EXCEPT !.pc = IF Overdrawn(e) THEN "rejected" ELSE "begin", !.exec = e]]
  /\ UNCHANGED <<row, faults, events>>

(* The processor wrapper: a job fetched just before the shutdown throws    *)
(* without reaching processExecutionJob; otherwise status RUNNING.         *)
Begin(s) ==
  /\ run[s].pc = "begin"
  /\ \/ /\ worker[Host[s]] = "stopping"
        /\ Jump(s, "rejected")
        /\ UNCHANGED <<row, faults>>
     \/ /\ worker[Host[s]] = "up"
        /\ Update(s, WithStatus(Exec(s), "RUNNING"), "announce")
  /\ UNCHANGED <<job, events>>

Announce(s) ==
  /\ run[s].pc = "announce"
  /\ Publish(Exec(s), "started")
  /\ UpdateProgress(s, "sandbox")
  /\ UNCHANGED <<job, row>>

RunSandbox(s) ==
  /\ run[s].pc = "sandbox"
  /\ \E o \in {"output", "timeout"} :
       run' = [run EXCEPT ![s].pc = "log", ![s].outcome = o, ![s].case = @ + 1]
  /\ UNCHANGED <<job, row, faults, events>>

LogStopsEarly(s) ==
  /\ run[s].pc = "log"
  /\ Publish(Exec(s), "log")
  /\ UpdateProgress(s, IF run[s].outcome = "output" /\ run[s].case < TestCases[Exec(s)]
                       THEN "sandbox" ELSE "record")
  /\ UNCHANGED <<job, row>>

(* One log event per sandbox run; the loop goes on while cases remain.     *)
Log(s) ==
  /\ run[s].pc = "log"
  /\ Publish(Exec(s), "log")
  /\ UpdateProgress(s, IF run[s].case < TestCases[Exec(s)]
                       THEN "sandbox" ELSE "record")
  /\ UNCHANGED <<job, row>>

(* Only the branch without test cases looks at the TIMEOUT result.         *)
TimedOut(s) == TestCases[Exec(s)] = 0 /\ run[s].outcome = "timeout"

RecordTimeout(s) ==
  /\ run[s].pc = "record"
  /\ TimedOut(s)
  /\ Update(s, TimeoutRow(Exec(s)), "publish")
  /\ UNCHANGED <<job, events>>

PublishBeforeRecord(s) ==
  /\ run[s].pc = "record"
  /\ ~TimedOut(s)
  /\ Jump(s, "progress")
  /\ Publish(Exec(s), "completed")
  /\ UNCHANGED <<job, row, faults>>

RecordCompleted(s) ==
  /\ run[s].pc = "record"
  /\ ~TimedOut(s)
  /\ Update(s, CompletedRow(Exec(s), run[s].case), "progress")
  /\ UNCHANGED <<job, events>>

(* updateProgress(100), after the row already says COMPLETED.              *)
FinalProgress(s) ==
  /\ run[s].pc = "progress"
  /\ UpdateProgress(s, "publish")
  /\ UNCHANGED <<job, row, events>>

PublishOutcome(s) ==
  /\ run[s].pc = "publish"
  /\ Publish(Exec(s), IF TimedOut(s) THEN "timeout" ELSE "completed")
  /\ Jump(s, "resolved")
  /\ UNCHANGED <<job, row, faults>>

CatchSilent(s) ==
  /\ run[s].pc = "catch"
  /\ Jump(s, "publishFailed")
  /\ UNCHANGED <<job, row, faults, events>>

(* The catch branch; when its own update throws, nothing is published.     *)
Catch(s) ==
  /\ run[s].pc = "catch"
  /\ \/ Write(Exec(s), FailedRow(Exec(s))) /\ Jump(s, "publishFailed")
     \/ WriteFails(Exec(s), FailedRow(Exec(s))) /\ Jump(s, "rejected")
  /\ UNCHANGED <<job, events>>

PublishFailedSwallows(s) ==
  /\ run[s].pc = "publishFailed"
  /\ Publish(Exec(s), "failed")
  /\ Jump(s, "resolved")
  /\ UNCHANGED <<job, row, faults>>

PublishFailed(s) ==
  /\ run[s].pc = "publishFailed"
  /\ Publish(Exec(s), "failed")
  /\ Jump(s, "rejected")
  /\ UNCHANGED <<job, row, faults>>

FreeSlot(s) == run' = [run EXCEPT ![s] = Idle]

SettleUnlocked(s) ==
  /\ \/ /\ run[s].pc = "resolved"
        /\ job' = [job EXCEPT ![Exec(s)].state = "completed",
                              ![Exec(s)].holder = None, ![Exec(s)].made = @ + 1]
     \/ /\ run[s].pc = "rejected"
        /\ MoveToFailed(Exec(s), s) \/ (~Holds(Exec(s), s) /\ UNCHANGED job)
  /\ FreeSlot(s)
  /\ UNCHANGED <<row, faults, events>>

(* BullMQ finishes the job for the run; without the lock it refuses and    *)
(* the run ends with no effect on the job.                                 *)
Settle(s) ==
  /\ \/ run[s].pc = "resolved" /\ MoveToCompleted(Exec(s), s)
     \/ run[s].pc = "rejected" /\ MoveToFailed(Exec(s), s)
     \/ run[s].pc \in {"resolved", "rejected"} /\ ~Holds(Exec(s), s) /\ UNCHANGED job
  /\ FreeSlot(s)
  /\ UNCHANGED <<row, faults, events>>

(* processExecutionJob of one slot, from its invocation to its promise.    *)
Process(s) ==
  \/ Begin(s) \/ Announce(s) \/ RunSandbox(s) \/ Log(s)
  \/ RecordTimeout(s) \/ RecordCompleted(s) \/ FinalProgress(s)
  \/ PublishOutcome(s) \/ Catch(s) \/ PublishFailed(s) \/ Settle(s)

-----------------------------------------------------------------------------
(* Locks.  BullMQ renews the lock of every job it is processing, so only a *)
(* dead run's lock expires; LoseLock is a live worker that cannot renew.   *)
ExpireDeadLock(e) ==
  /\ ExpireLock(e)
  /\ ~Runs(job[e].holder, e)

LoseLock(e) ==
  /\ ExpireLock(e)
  /\ Runs(job[e].holder, e)

(* The stalled check is run by any worker that is up.                      *)
CheckStalled(e) ==
  /\ \E w \in Workers : worker[w] = "up"
  /\ MoveStalled(e)

-----------------------------------------------------------------------------
(* Worker life cycle.                                                      *)
(* bootstrap: Docker, PostgreSQL and the queue are there.                  *)
Boot(w) ==
  /\ worker[w] = "down"
  /\ worker' = [worker EXCEPT ![w] = "up"]
  /\ UNCHANGED run

(* SIGTERM, SIGINT or an uncaught exception sets isShuttingDown.           *)
Shutdown(w) ==
  /\ worker[w] = "up"
  /\ worker' = [worker EXCEPT ![w] = "stopping"]
  /\ UNCHANGED run

(* worker.close() has waited for the active jobs; process.exit(0).         *)
Exit(w) ==
  /\ worker[w] = "stopping"
  /\ \A s \in Slots : Host[s] = w => run[s].pc = "idle"
  /\ worker' = [worker EXCEPT ![w] = "down"]
  /\ UNCHANGED run

(* The process dies with every invocation it hosts.                        *)
Crash(w) ==
  /\ worker[w] # "down"
  /\ worker' = [worker EXCEPT ![w] = "down"]
  /\ run' = [s \in Slots |-> IF Host[s] = w THEN Idle ELSE run[s]]
=============================================================================
