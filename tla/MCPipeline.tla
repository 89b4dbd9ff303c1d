----------------------------- MODULE MCPipeline -----------------------------
(***************************************************************************)
(* Small instances of the pipeline: two workers with one slot each, so     *)
(* that a stalled job can be taken by a second worker while the first      *)
(* still runs it.                                                          *)
(***************************************************************************)
EXTENDS Pipeline

CONSTANTS e1, e2, s1, s2, w1, w2

OneExecution  == {e1}
TwoExecutions == {e1, e2}
TwoSlots      == {s1, s2}
TwoWorkers    == {w1, w2}
OwnWorker     == [s \in {s1, s2} |-> IF s = s1 THEN w1 ELSE w2]
OneSlot       == {s1}
SingleHost    == [s \in {s1} |-> w1]
OneWorker     == {w1}

Plain   == [e \in {e1} |-> 0]
Batch   == [e \in {e1} |-> 2]
PlainAndBatch == [e \in {e1, e2} |-> IF e = e1 THEN 0 ELSE 2]
=============================================================================
