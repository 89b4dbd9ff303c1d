--------------------------- MODULE SessionsProofs ---------------------------
(***************************************************************************)
(* Safety of the sessions for any number of sessions, overlapping reaper   *)
(* cycles and failing calls.                                               *)
(***************************************************************************)
EXTENDS Sessions, TLAPS

(* A container is named by its own session only, once it was made.         *)
NameInv ==
  \A s \in Sessions :
    /\ row[s].container \in {None, s}
    /\ row[s].container # None => making[s] \in {"done", "failed"}

(* The life of a row: nothing happens before it exists; it is DESTROYED by *)
(* its client, or by the reaper after its container was made; an answered  *)
(* DELETE stays in force.                                                  *)
RowInv ==
  \A s \in Sessions :
    /\ row[s].status = "ABSENT" =>
         deletion[s] = "idle" /\ exec[s].state = "idle" /\ making[s] = "idle"
    /\ row[s].status = "DESTROYED" /\ deletion[s] = "idle" =>
         making[s] \in {"done", "failed"}
    /\ deletion[s] = "answered" => row[s].status = "DESTROYED"

(* A cycle past its look-up works on a session whose container was made,   *)
(* and without failures that container is gone before the row is updated.  *)
CycleInv ==
  \A c \in Cycles :
    cycle[c].pc # "loop" =>
      /\ cycle[c].at \in Sessions
      /\ making[cycle[c].at] \in {"done", "failed"}
      /\ cycle[c].pc = "mark" /\ faults = 0 => cycle[c].at \notin containers

(* A request sent after an answered DELETE, and what it is told.           *)
ExecInv ==
  \A s \in Sessions :
    exec[s].sent = "after" =>
      deletion[s] = "answered" /\ exec[s].state \in {"asked", "refused", "failed"}

SInv ==
  /\ TypeOK /\ NameInv /\ RowInv /\ CycleInv /\ ExecInv
  /\ NoOrphan /\ OnlyDeleteStrands

-----------------------------------------------------------------------------
(* The initial state satisfies the invariant.                              *)
LEMMA InitSInv == Init => SInv
  BY SessionsAssumption DEF Init, SInv, TypeOK, Row, Cycle, Resting, Exec, NameInv,
     RowInv, CycleInv, ExecInv, NoOrphan, OnlyDeleteStrands

(* The handlers of the routes preserve it.                                 *)
LEMMA RouteKeeps ==
  ASSUME SInv, NEW s \in Sessions,
         Open(s) \/ Expire(s) \/ Delete(s) \/ SendExec(s) \/ LookUp(s)
  PROVE  SInv'
<1> USE SessionsAssumption DEF SInv
<1>1. CASE Open(s)
  <2>1. /\ row[s].container = None
        /\ row' = [row EXCEPT ![s] = [status |-> "ACTIVE", container |-> None]]
    BY <1>1 DEF Open, Write, Exists, NameInv, RowInv
  <2>2. TypeOK'
    BY <1>1 DEF Open, Write, TypeOK, Row
  <2>3. NameInv' /\ RowInv' /\ CycleInv' /\ ExecInv'
    BY <1>1 DEF Open, Write, Exists, TypeOK, Row, NameInv, RowInv, CycleInv, ExecInv
  <2>4. \A u \in Sessions : row'[u].container = row[u].container
    BY <2>1 DEF TypeOK
  <2>5. NoOrphan'
    BY <1>1, <2>4 DEF Open, Write, TypeOK, NoOrphan
  <2>6. OnlyDeleteStrands'
    BY <1>1, <2>1 DEF Open, TypeOK, OnlyDeleteStrands
  <2> QED BY <2>2, <2>3, <2>5, <2>6
<1>2. CASE Expire(s)
  BY <1>2 DEF Expire, TypeOK, Row, NameInv, RowInv, CycleInv, ExecInv, NoOrphan,
     OnlyDeleteStrands
<1>3. CASE Delete(s)
  <2>1. TypeOK'
    BY <1>3 DEF Delete, Deleted, Write, WriteFails, Fault, TypeOK, Row
  <2>2. \A u \in Sessions :
          /\ row'[u].container = row[u].container
          /\ row'[u].status = row[u].status \/ (u = s /\ row'[u].status = "DESTROYED")
    <3>1. row' = row \/ row' = [row EXCEPT ![s] = Deleted(s)]
      BY <1>3 DEF Delete, Write, WriteFails
    <3>2. /\ Deleted(s).container = row[s].container
          /\ Deleted(s).status = "DESTROYED"
      BY DEF Deleted, TypeOK, Row
    <3> QED BY <3>1, <3>2 DEF TypeOK
  <2>3. /\ row[s].status # "ABSENT"
        /\ deletion'[s] \in {"answered", "failed"}
        /\ deletion'[s] = "answered" => row'[s].status = "DESTROYED"
        /\ \A u \in Sessions \ {s} : deletion'[u] = deletion[u]
    BY <1>3 DEF Delete, Deleted, Write, WriteFails, Exists, TypeOK, Row
  <2>4. /\ UNCHANGED <<containers, making, cycle, exec>>
        /\ faults' = 0 => faults = 0
    BY <1>3 DEF Delete, Write, WriteFails, Fault, TypeOK
  <2>5. deletion[s] = "idle"
    BY <1>3 DEF Delete
  <2>6. NameInv'
    BY <2>2, <2>4 DEF NameInv
  <2>7. RowInv'
    BY <2>2, <2>3, <2>4 DEF RowInv
  <2>8. CycleInv'
    BY <2>4 DEF CycleInv
  <2>9. ExecInv'
    BY <2>3, <2>4, <2>5 DEF ExecInv
  <2>10. NoOrphan'
    BY <2>1, <2>2, <2>4 DEF NoOrphan, TypeOK
  <2>11. OnlyDeleteStrands'
    BY <2>2, <2>3 DEF OnlyDeleteStrands
  <2> QED BY <2>1, <2>6, <2>7, <2>8, <2>9, <2>10, <2>11
<1>4. CASE SendExec(s)
  <2>1. TypeOK'
    BY <1>4 DEF SendExec, TypeOK, Exec
  <2>2. NameInv' /\ RowInv' /\ CycleInv' /\ ExecInv'
    BY <1>4 DEF SendExec, Exists, TypeOK, Exec, NameInv, RowInv, CycleInv, ExecInv
  <2> QED BY <1>4, <2>1, <2>2 DEF SendExec, NoOrphan, OnlyDeleteStrands
<1>5. CASE LookUp(s)
  <2>1. /\ Verdict(s) \in {"refused", "notReady", "accepted"}
        /\ row[s].status = "DESTROYED" => Verdict(s) = "refused"
    BY DEF Verdict
  <2>2. TypeOK'
    BY <1>5, <2>1 DEF LookUp, Fault, TypeOK, Exec
  <2>3. NameInv' /\ RowInv' /\ CycleInv' /\ ExecInv'
    BY <1>5, <2>1 DEF LookUp, Fault, TypeOK, Exec, NameInv, RowInv, CycleInv, ExecInv
  <2> QED BY <1>5, <2>2, <2>3 DEF LookUp, Fault, TypeOK, NoOrphan, OnlyDeleteStrands
<1> QED BY <1>1, <1>2, <1>3, <1>4, <1>5

(* Creating and storing a container preserves it.                          *)
LEMMA MakingKeeps ==
  ASSUME SInv, NEW s \in Sessions, MakeContainer(s) \/ StoreContainer(s)
  PROVE  SInv'
<1> USE SessionsAssumption DEF SInv
<1>1. CASE MakeContainer(s)
  <2>1. TypeOK'
    BY <1>1 DEF MakeContainer, Made, Fault, TypeOK
  <2>2. NameInv' /\ RowInv' /\ ExecInv'
    BY <1>1 DEF MakeContainer, Made, Exists, TypeOK, NameInv, RowInv, ExecInv
  <2>4. CycleInv'
    BY <1>1 DEF MakeContainer, Made, Fault, TypeOK, CycleInv
  <2>3. NoOrphan' /\ OnlyDeleteStrands'
    BY <1>1 DEF MakeContainer, Made, Fault, TypeOK, NoOrphan, OnlyDeleteStrands
  <2> QED BY <2>1, <2>2, <2>3, <2>4
<1>2. CASE StoreContainer(s)
  <2>1. TypeOK'
    BY <1>2 DEF StoreContainer, Made, Write, WriteFails, Fault, TypeOK, Row
  <2>2. \A u \in Sessions :
          /\ row'[u].status = row[u].status
          /\ \/ row'[u].container = row[u].container
             \/ u = s /\ row'[u].container = s
    BY <1>2 DEF StoreContainer, Write, WriteFails, TypeOK, Row
  <2>3. /\ making[s] = "store"
        /\ making'[s] \in {"done", "failed"}
        /\ \A u \in Sessions \ {s} : making'[u] = making[u]
        /\ UNCHANGED <<containers, cycle, deletion, exec>>
    BY <1>2 DEF StoreContainer, Made, TypeOK
  <2>4. /\ faults' = 0 => faults = 0
        /\ faults' = 0 => row'[s].container = s
    BY <1>2 DEF StoreContainer, Write, WriteFails, Fault, TypeOK, Row
  <2>5. NameInv'
    BY <2>2, <2>3 DEF NameInv
  <2>6. RowInv'
    BY <2>2, <2>3 DEF RowInv
  <2>7. CycleInv'
    BY <2>3, <2>4 DEF CycleInv
  <2>8. ExecInv'
    BY <2>3 DEF ExecInv
  <2>9. NoOrphan'
    BY <2>1, <2>2, <2>3, <2>4 DEF NoOrphan, TypeOK
  <2>10. OnlyDeleteStrands'
    BY <2>2, <2>3 DEF OnlyDeleteStrands, RowInv
  <2> QED BY <2>1, <2>5, <2>6, <2>7, <2>8, <2>9, <2>10
<1> QED BY <1>1, <1>2

(* The steps of a reaper cycle preserve it.                                *)
LEMMA ReaperKeeps ==
  ASSUME SInv, NEW c \in Cycles, Reap(c) \/ Crash(c)
  PROVE  SInv'
<1> USE SessionsAssumption DEF SInv
<1>1. CASE Select(c)
  <2>1. TypeOK' /\ CycleInv'
    BY <1>1 DEF Select, Turn, Resting, TypeOK, Cycle, CycleInv
  <2> QED BY <1>1, <2>1 DEF Select, NameInv, RowInv, ExecInv, NoOrphan, OnlyDeleteStrands
<1>2. CASE Find(c)
  <2>1. PICK s \in cycle[c].left :
          \/ /\ row[s].container # None
             /\ cycle' = [cycle EXCEPT ![c] =
                            [[cycle[c] EXCEPT !.left = @ \ {s}] EXCEPT !.pc = "remove", !.at = s]]
             /\ UNCHANGED faults
          \/ /\ cycle' = [cycle EXCEPT ![c] = [cycle[c] EXCEPT !.left = @ \ {s}]]
             /\ UNCHANGED faults \/ Fault
    BY <1>2 DEF Find, Turn
  <2>2. /\ cycle[c] \in Cycle
        /\ cycle[c].pc = "loop"
        /\ s \in Sessions
    BY <1>2 DEF Find, TypeOK, Cycle
  <2>3. /\ cycle' \in [Cycles -> Cycle]
        /\ \A d \in Cycles \ {c} : cycle'[d] = cycle[d]
        /\ \/ cycle'[c].pc = "loop"
           \/ cycle'[c].pc = "remove" /\ cycle'[c].at = s /\ row[s].container # None
    <3> DEFINE rest == [cycle[c] EXCEPT !.left = @ \ {s}]
               onto == [rest EXCEPT !.pc = "remove", !.at = s]
    <3>1. rest \in Cycle /\ rest.pc = "loop"
      BY <2>2 DEF Cycle
    <3>2. onto \in Cycle /\ onto.pc = "remove" /\ onto.at = s
      BY <2>2, <3>1 DEF Cycle
    <3> HIDE DEF rest, onto
    <3>3. \/ row[s].container # None /\ cycle' = [cycle EXCEPT ![c] = onto]
          \/ cycle' = [cycle EXCEPT ![c] = rest]
      BY <2>1 DEF rest, onto
    <3> QED BY <3>1, <3>2, <3>3 DEF TypeOK
  <2>4. UNCHANGED <<row, containers, making, expired, deletion, exec>>
    BY <1>2 DEF Find
  <2>5. faults' \in 0..MaxFaults /\ (faults' = 0 => faults = 0)
    BY <2>1 DEF TypeOK, Fault
  <2>6. TypeOK'
    BY <2>3, <2>4, <2>5 DEF TypeOK
  <2>7. CycleInv'
    BY <2>2, <2>3, <2>4, <2>5 DEF NameInv, CycleInv
  <2> QED BY <1>2, <2>6, <2>7 DEF Find, Fault, TypeOK, NameInv, RowInv, ExecInv, NoOrphan,
       OnlyDeleteStrands
<1>3. CASE Remove(c)
  <2>1. TypeOK'
    BY <1>3 DEF Remove, Turn, Fault, TypeOK, Cycle
  <2>2. CycleInv'
    BY <1>3 DEF Remove, Turn, Fault, TypeOK, Cycle, CycleInv
  <2> QED BY <1>3, <2>1, <2>2 DEF Remove, Fault, TypeOK, NameInv, RowInv, ExecInv, NoOrphan,
       OnlyDeleteStrands
<1>4. CASE Mark(c)
  <2> DEFINE s == cycle[c].at
             gone == [status |-> "DESTROYED", container |-> None]
  <2>1. /\ s \in Sessions
        /\ making[s] \in {"done", "failed"}
        /\ faults = 0 => s \notin containers
    BY <1>4 DEF Mark, CycleInv
  <2>2. row' = [row EXCEPT ![s] = gone] \/ (Fault /\ row' = row)
    BY <1>4 DEF Mark, Write, WriteFails
  <2>3. TypeOK'
    <3>1. gone \in Row
      BY DEF Row
    <3>2. row' \in [Sessions -> Row]
      BY <2>1, <2>2, <3>1 DEF TypeOK
    <3>3. [cycle[c] EXCEPT !.pc = "loop", !.at = None] \in Cycle
      BY DEF TypeOK, Cycle
    <3>4. cycle' \in [Cycles -> Cycle]
      BY <1>4, <3>3 DEF Mark, Turn, TypeOK
    <3>5. faults' \in 0..MaxFaults
      BY <1>4 DEF Mark, Write, WriteFails, Fault, TypeOK
    <3> QED BY <1>4, <3>2, <3>4, <3>5 DEF Mark, TypeOK
  <2>4. CycleInv'
    BY <1>4 DEF Mark, Write, WriteFails, Fault, Turn, TypeOK, Cycle, CycleInv
  <2>5. NameInv' /\ RowInv' /\ ExecInv'
    BY <1>4, <2>1, <2>2 DEF Mark, TypeOK, Row, NameInv, RowInv, ExecInv
  <2>6. NoOrphan'
    BY <1>4, <2>1, <2>2 DEF Mark, Write, WriteFails, Fault, TypeOK, NoOrphan
  <2>7. OnlyDeleteStrands'
    BY <1>4, <2>1, <2>2 DEF Mark, TypeOK, Row, OnlyDeleteStrands
  <2> QED BY <2>3, <2>4, <2>5, <2>6, <2>7
<1>5. CASE Crash(c)
  <2>1. TypeOK' /\ CycleInv'
    BY <1>5 DEF Crash, Fault, Turn, Resting, TypeOK, Cycle, CycleInv
  <2> QED BY <1>5, <2>1 DEF Crash, Fault, TypeOK, NameInv, RowInv, ExecInv, NoOrphan,
       OnlyDeleteStrands
<1> QED BY <1>1, <1>2, <1>3, <1>4, <1>5 DEF Reap

(* Every step preserves the invariant.                                     *)
LEMMA NextSInv == SInv /\ [Next]_vars => SInv'
<1>1. ASSUME SInv, Next PROVE SInv'
  BY <1>1, RouteKeeps, MakingKeeps, ReaperKeeps DEF Next
<1>2. ASSUME SInv, UNCHANGED vars PROVE SInv'
  BY <1>2 DEF vars, SInv, TypeOK, NameInv, RowInv, CycleInv, ExecInv, NoOrphan,
     OnlyDeleteStrands
<1> QED BY <1>1, <1>2

LEMMA AlwaysSInv == Spec => []SInv
  BY InitSInv, NextSInv, PTL DEF Spec

-----------------------------------------------------------------------------
(* Type correctness of the sessions.                                       *)
THEOREM SessionsTypeCorrect == Spec => []TypeOK
<1>1. SInv => TypeOK
  BY DEF SInv
<1> QED BY AlwaysSInv, <1>1, PTL

(* Unless a call fails, no container is without the call that makes it or  *)
(* a row that names it (session-manager.ts:51-59, :76-91).                 *)
THEOREM NoContainerLost == Spec => []NoOrphan
<1>1. SInv => NoOrphan
  BY DEF SInv
<1> QED BY AlwaysSInv, <1>1, PTL

(* Only a client's DELETE puts a container out of the reaper's reach.      *)
THEOREM StrandedByDelete == Spec => []OnlyDeleteStrands
<1>1. SInv => OnlyDeleteStrands
  BY DEF SInv
<1> QED BY AlwaysSInv, <1>1, PTL

(* An answered DELETE closes the session to exec (session.ts:82-87).       *)
THEOREM DeletedIsClosed == Spec => []RefusedAfterDelete
<1>1. SInv => RefusedAfterDelete
  BY DEF SInv, ExecInv, RefusedAfterDelete
<1> QED BY AlwaysSInv, <1>1, PTL
=============================================================================
