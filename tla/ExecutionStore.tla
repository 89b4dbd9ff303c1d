--------------------------- MODULE ExecutionStore ---------------------------
(***************************************************************************)
(* The executions table (prisma/schema.prisma) and the updates the code    *)
(* makes to it.  Every update is one SQL statement without a condition on  *)
(* the current status.  A call may fail: the caller sees an exception and  *)
(* the statement may or may not have been committed.                       *)
(***************************************************************************)
EXTENDS Naturals, ExecutionIds

CONSTANT MaxFaults   \* bound: failing PostgreSQL and Redis calls in a run

ASSUME FaultsAssumption == MaxFaults \in Nat

VARIABLES row, faults

Statuses == {"ABSENT", "PENDING", "QUEUED", "RUNNING",
             "COMPLETED", "FAILED", "TIMEOUT"}

(* result: which outcome stdout, exitCode, runtimeMs and memoryKb describe *)
(* cases:  how many sandbox runs that outcome folds together.              *)
(* error:  the error column.                                               *)
Row == [status : Statuses, result : {"none", "output", "timeout"},
        cases : Nat, error : {"none", "timeout", "failure"}]

NoRow == [status |-> "ABSENT", result |-> "none", cases |-> 0, error |-> "none"]

StoreTypeOK == /\ row \in [Executions -> Row]
               /\ faults \in 0..MaxFaults

StoreInit == /\ row = [e \in Executions |-> NoRow]
             /\ faults = 0

(* The row each update leaves behind.                                      *)
NewRow == [NoRow EXCEPT !.status = "PENDING"]

WithStatus(e, status) == [row[e] EXCEPT !.status = status]

CompletedRow(e, n) ==
  [row[e] EXCEPT !.status = "COMPLETED", !.result = "output",
                 !.cases = n, !.error = "none"]

TimeoutRow(e) ==
  [row[e] EXCEPT !.status = "TIMEOUT", !.result = "timeout",
                 !.cases = 1, !.error = "timeout"]

FailedRowErasing(e) ==
  [NoRow EXCEPT !.status = "FAILED", !.error = "failure"]

FailedRowUnknown(e) == [row[e] EXCEPT !.status = "ERROR", !.error = "failure"]

(* The catch branch overwrites status, stderr and error and nothing else.  *)
FailedRow(e) == [row[e] EXCEPT !.status = "FAILED", !.error = "failure"]

Fault == faults < MaxFaults /\ faults' = faults + 1

Write(e, r) == row' = [row EXCEPT ![e] = r] /\ UNCHANGED faults

WriteFails(e, r) == Fault /\ (UNCHANGED row \/ row' = [row EXCEPT ![e] = r])
=============================================================================
