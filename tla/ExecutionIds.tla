---------------------------- MODULE ExecutionIds ----------------------------
(***************************************************************************)
(* Identifiers shared by every component of the execution pipeline.  An    *)
(* execution id is the primary key of the executions table, the BullMQ     *)
(* jobId and the key of every published event.                             *)
(***************************************************************************)
CONSTANTS
  Executions,   \* the execution ids (cuid() primary keys, never reused)
  None          \* "no slot", "no execution"

ASSUME NoneAssumption == None \notin Executions
=============================================================================
