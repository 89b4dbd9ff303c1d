------------------------------ MODULE Pipeline ------------------------------
(***************************************************************************)
(* The execution pipeline: the API routes, the BullMQ queue, the workers   *)
(* and the executions table they share, with crashes, lost locks and       *)
(* failing database and Redis calls between any two awaits.                *)
(***************************************************************************)
EXTENDS ExecutionRoute, Executor, FiniteSets

CONSTANT MaxOutages   \* bound: crashes, shutdowns and lost locks in a run

ASSUME OutagesAssumption == MaxOutages \in Nat

VARIABLE outages

routeVars == <<route>>
workerVars == <<run, events, worker>>
vars == <<job, row, faults, route, run, events, worker, outages>>

TypeOK ==
  /\ QueueTypeOK
  /\ StoreTypeOK
  /\ RouteTypeOK
  /\ ExecutorTypeOK
  /\ outages \in 0..MaxOutages

Init == QueueInit /\ StoreInit /\ RouteInit /\ ExecutorInit /\ outages = 0

Outage == outages < MaxOutages /\ outages' = outages + 1

-----------------------------------------------------------------------------
RouteStep(e) == Submit(e) /\ UNCHANGED <<workerVars, outages>>

SlotStep(s) == Process(s) /\ UNCHANGED <<route, worker, outages>>

FetchStep(e) ==
  (\E s \in Slots : Fetch(s, e)) /\ UNCHANGED <<route, worker, outages>>

QueueStep(e) ==
  /\ Promote(e) \/ ExpireDeadLock(e) \/ CheckStalled(e)
  /\ UNCHANGED <<row, faults, route, workerVars, outages>>

ExitStep(w) == Exit(w) /\ UNCHANGED <<job, row, faults, route, events, outages>>

BootStep(w) == Boot(w) /\ UNCHANGED <<job, row, faults, route, events, outages>>

ApiCrashStep == Outage /\ ApiCrash /\ UNCHANGED workerVars

LoseLockStep(e) ==
  Outage /\ LoseLock(e) /\ UNCHANGED <<row, faults, route, workerVars>>

WorkerOutage(w) ==
  Outage /\ (Shutdown(w) \/ Crash(w)) /\ UNCHANGED <<job, row, faults, route, events>>

Next ==
  \/ \E e \in Executions :
       RouteStep(e) \/ FetchStep(e) \/ QueueStep(e) \/ LoseLockStep(e)
  \/ \E s \in Slots : SlotStep(s)
  \/ \E w \in Workers : ExitStep(w) \/ BootStep(w) \/ WorkerOutage(w)
  \/ ApiCrashStep

Spec == Init /\ [][Next]_vars

(* Awaited calls return, BullMQ's timers (backoff, lock expiry, stalled    *)
(* check) fire and its fetch loop runs.  Nobody owes a request, a restart  *)
(* or an outage.                                                           *)
Fairness ==
  /\ \A e \in Executions : WF_vars(FetchStep(e)) /\ WF_vars(QueueStep(e))
  /\ \A s \in Slots : WF_vars(SlotStep(s))
  /\ \A w \in Workers : WF_vars(ExitStep(w))

FairSpec == Spec /\ Fairness

-----------------------------------------------------------------------------
(* The runs of an execution, dead invocations excluded.                    *)
RunsOf(e) == {s \in Slots : Runs(s, e)}

(* A job the queue counts as completed has its outcome in the row, through *)
(* every retry, stalled recovery and zombie that writes after it: the row  *)
(* is updated before the processor resolves (executor.ts:174, :208, :229)  *)
(* and no update erases an outcome.                                        *)
ResultKept ==
  \A e \in Executions : job[e].state = "completed" => row[e].result # "none"

(* A client told "completed" or "timeout" finds an outcome in the row.     *)
EventBacked ==
  \A e \in Executions :
    events[e] \cap {"completed", "timeout"} # {} => row[e].result # "none"

(* A recorded output covers every test case, also when an earlier attempt  *)
(* died in the middle of the loop (executor.ts:122-162).                   *)
AllCasesRecorded ==
  \A e \in Executions :
    row[e].result = "output" =>
      row[e].cases = IF TestCases[e] = 0 THEN 1 ELSE TestCases[e]

(* Two invocations of one job overlap only after a stalled recovery: the   *)
(* number of live runs never exceeds one plus the stalls charged so far.   *)
OverlapNeedsStall ==
  \A e \in Executions : Cardinality(RunsOf(e)) <= job[e].stalls + 1

(* The row exists before any worker can update it: db.execution.create is  *)
(* awaited before addExecutionJob (execute.ts:26-36).                      *)
JobHasRow ==
  \A e \in Executions : job[e].state # "absent" => row[e].status # "ABSENT"

(* For a job that never stalled, completion means the row shows COMPLETED  *)
(* or TIMEOUT; the one thing that can hide it is the route's own late      *)
(* update to QUEUED (execute.ts:45).                                       *)
OutcomeVisible ==
  \A e \in Executions :
    job[e].state = "completed" /\ job[e].stalls = 0 =>
      \/ row[e].status \in {"COMPLETED", "TIMEOUT"}
      \/ row[e].status = "QUEUED" /\ route[e] \in {"accepted", "refused"}

(* Nothing is left that could write the row of e.                          *)
Settled(e) ==
  /\ route[e] \in RouteDone
  /\ job[e].state \in Finished \cup {"absent"}
  /\ RunsOf(e) = {}

(* Once the request is over, the job finished and no zombie is left, the   *)
(* answer of GET /v1/executions/:id never changes again.                   *)
SettledForever ==
  [][\A e \in Executions :
       Settled(e) => row'[e] = row[e] /\ Settled(e)']_vars

(* An accepted submission is never left waiting, delayed or active: once   *)
(* some worker stays up, it finishes, whatever died holding it and however *)
(* many others wait for the same slot.                                     *)
AcceptedFinishes ==
  (\E w \in Workers : <>[](worker[w] = "up")) =>
    \A e \in Executions : route[e] = "accepted" ~> job[e].state \in Finished

(* README.md:212 has a client treat execution:completed as 'Done'.         *)
DoneIsNotQueued ==
  \A e \in Executions : "completed" \in events[e] => row[e].status # "QUEUED"

(* Without an outage a job only fails silently after a double fault: with  *)
(* at most Attempts failing calls, each can end one attempt, so the catch  *)
(* branch of the last one still stored FAILED (executor.ts:256), unless    *)
(* the route's late update hid it.                                         *)
FailureVisible ==
  \A e \in Executions :
    job[e].state = "failed" /\ outages = 0 /\ faults <= Attempts =>
      \/ row[e].status = "FAILED"
      \/ row[e].status = "QUEUED" /\ route[e] \in {"accepted", "refused"}

-----------------------------------------------------------------------------
(* The promise of AtLeastOnce, kept by the queue's job record and the      *)
(* outcome columns of the row.                                             *)
Phase(e) ==
  CASE job[e].state = "absent"    -> "none"
    [] job[e].state = "completed" -> "done"
    [] job[e].state = "failed"    -> "abandoned"
    [] OTHER                      -> "pending"

Contract == INSTANCE AtLeastOnce WITH
  Limit    <- Attempts + MaxStalled,
  phase    <- [e \in Executions |-> Phase(e)],
  tries    <- [e \in Executions |-> job[e].invoked],
  recorded <- [e \in Executions |-> row[e].result # "none"]

(* Whatever crashes, retries and zombies do, a submission is tried at most *)
(* attempts + maxStalledCount times, is delivered only with an outcome and *)
(* never leaves "done" or "abandoned".                                     *)
KeepsPromise == Contract!ASpec
=============================================================================
