--------------------------- MODULE ExecutionRoute ---------------------------
(***************************************************************************)
(* The request handlers that submit an execution: POST /v1/execute,        *)
(* POST /v1/execute/batch and the tail of POST /v1/sessions/:id/exec.  All *)
(* three await the same sequence: create the row as PENDING, add the job,  *)
(* set the row to QUEUED, answer 201; any exception answers 500.           *)
(***************************************************************************)
EXTENDS JobQueue, ExecutionStore

VARIABLE route   \* where the request of each execution is

RouteStates == {"idle", "created", "enqueued", "accepted", "refused", "gone"}
InFlight    == {"created", "enqueued"}
RouteDone   == {"accepted", "refused", "gone"}

RouteTypeOK == route \in [Executions -> RouteStates]

RouteInit == route = [e \in Executions |-> "idle"]

Goto(e, st) == route' = [route EXCEPT ![e] = st]

-----------------------------------------------------------------------------
CreateAfterAdd(e) ==
  /\ route[e] = "idle"
  /\ Goto(e, "created")
  /\ Add(e)
  /\ UNCHANGED <<row, faults>>

(* db.execution.create; the id does not exist before the call.             *)
CreateRow(e) ==
  /\ route[e] = "idle"
  /\ \/ Write(e, NewRow) /\ Goto(e, "created")
     \/ WriteFails(e, NewRow) /\ Goto(e, "refused")
  /\ UNCHANGED job

(* addExecutionJob; on an exception the job may still have been added.     *)
Enqueue(e) ==
  /\ route[e] = "created"
  /\ \/ Add(e) /\ UNCHANGED faults /\ Goto(e, "enqueued")
     \/ Fault /\ (Add(e) \/ UNCHANGED job) /\ Goto(e, "refused")
  /\ UNCHANGED row

MarkQueuedUnawaited(e) ==
  /\ \/ route[e] = "enqueued" /\ Goto(e, "accepted") /\ UNCHANGED <<row, faults>>
     \/ route[e] = "accepted" /\ Write(e, WithStatus(e, "QUEUED")) /\ UNCHANGED route
  /\ UNCHANGED job

(* The unconditional update to QUEUED, then the response.                  *)
MarkQueued(e) ==
  /\ route[e] = "enqueued"
  /\ \/ Write(e, WithStatus(e, "QUEUED")) /\ Goto(e, "accepted")
     \/ WriteFails(e, WithStatus(e, "QUEUED")) /\ Goto(e, "refused")
  /\ UNCHANGED job

(* The API process dies, or exits on the forced-shutdown timer: requests   *)
(* in flight are cut off between two awaits.                               *)
ApiCrash ==
  /\ \E e \in Executions : route[e] \in InFlight
  /\ route' = [e \in Executions |-> IF route[e] \in InFlight
                                    THEN "gone" ELSE route[e]]
  /\ UNCHANGED <<job, row, faults>>

Submit(e) == CreateRow(e) \/ Enqueue(e) \/ MarkQueued(e)
=============================================================================
