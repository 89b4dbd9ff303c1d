------------------------------ MODULE Sessions ------------------------------
(***************************************************************************)
(* Sessions: the routes of apps/api-server/src/routes/session.ts, the      *)
(* container of a session (apps/worker/src/session-manager.ts) and the     *)
(* reaper every worker starts (apps/worker/src/reaper.ts).  They meet in   *)
(* the sessions table only.  A failing call may have taken effect.         *)
(*                                                                         *)
(* At this commit createSessionContainer has no caller: the program as it  *)
(* ships is Provisioned = {}.  The other instances say what the session    *)
(* manager and the reaper do once something calls it, once per session.    *)
(***************************************************************************)
EXTENDS Naturals

CONSTANTS
  Sessions,      \* session ids; also the id of the container made for one
  Provisioned,   \* the sessions createSessionContainer is called for
  Cycles,        \* reaper cycles that may overlap, of one worker or several
  None,          \* no container, no session
  MaxFaults      \* bound: failing calls and worker crashes in a run

ASSUME SessionsAssumption ==
  /\ Provisioned \subseteq Sessions
  /\ None \notin Sessions
  /\ MaxFaults \in Nat

VARIABLES
  row,           \* the sessions table
  expired,       \* sessions whose expiresAt has passed
  containers,    \* containers Docker has, running or not
  making,        \* createSessionContainer of each session
  cycle,         \* each reaper cycle
  deletion,      \* DELETE /v1/sessions/:id
  exec,          \* POST /v1/sessions/:id/exec, up to its first answer
  faults

vars == <<row, expired, containers, making, cycle, deletion, exec, faults>>

Row == [status : {"ABSENT", "ACTIVE", "DESTROYED"}, container : Sessions \cup {None}]

(* left: the sessions of the snapshot the loop has not come to; at: the    *)
(* one destroySessionContainer works on.                                   *)
Cycle == [pc : {"loop", "remove", "mark"}, left : SUBSET Sessions,
          at : Sessions \cup {None}]

Resting == [pc |-> "loop", left |-> {}, at |-> None]

(* sent: whether the request came after a DELETE of the session was        *)
(* answered.  An accepted request goes on as in ExecutionRoute.            *)
Exec == [state : {"idle", "asked", "accepted", "refused", "notReady", "failed"},
         sent : {"before", "after"}]

TypeOK ==
  /\ row \in [Sessions -> Row]
  /\ expired \subseteq Sessions
  /\ containers \subseteq Sessions
  /\ making \in [Sessions -> {"idle", "store", "done", "failed"}]
  /\ cycle \in [Cycles -> Cycle]
  /\ deletion \in [Sessions -> {"idle", "answered", "failed"}]
  /\ exec \in [Sessions -> Exec]
  /\ faults \in 0..MaxFaults

Init ==
  /\ row = [s \in Sessions |-> [status |-> "ABSENT", container |-> None]]
  /\ expired = {}
  /\ containers = {}
  /\ making = [s \in Sessions |-> "idle"]
  /\ cycle = [c \in Cycles |-> Resting]
  /\ deletion = [s \in Sessions |-> "idle"]
  /\ exec = [s \in Sessions |-> [state |-> "idle", sent |-> "before"]]
  /\ faults = 0

-----------------------------------------------------------------------------
Fault == faults < MaxFaults /\ faults' = faults + 1

Exists(s) == row[s].status # "ABSENT"

Write(s, r) == row' = [row EXCEPT ![s] = r] /\ UNCHANGED faults

WriteFails(s, r) == Fault /\ (UNCHANGED row \/ row' = [row EXCEPT ![s] = r])

(* POST /v1/sessions.  A row whose insert threw is one nobody asks for.    *)
Open(s) ==
  /\ ~Exists(s)
  /\ Write(s, [status |-> "ACTIVE", container |-> None])
  /\ UNCHANGED <<expired, containers, making, cycle, deletion, exec>>

(* SESSION_TTL_MS pass.                                                    *)
Expire(s) ==
  /\ Exists(s)
  /\ s \notin expired
  /\ expired' = expired \cup {s}
  /\ UNCHANGED <<row, containers, making, cycle, deletion, exec, faults>>

(* DELETE: the update touches the status only; the container stays named.  *)
Deleted(s) == [row[s] EXCEPT !.status = "DESTROYED"]

Delete(s) ==
  /\ Exists(s)
  /\ deletion[s] = "idle"
  /\ \/ Write(s, Deleted(s)) /\ deletion' = [deletion EXCEPT ![s] = "answered"]
     \/ WriteFails(s, Deleted(s)) /\ deletion' = [deletion EXCEPT ![s] = "failed"]
  /\ UNCHANGED <<expired, containers, making, cycle, exec>>

SendExec(s) ==
  /\ Exists(s)
  /\ exec[s].state = "idle"
  /\ exec' = [exec EXCEPT ![s] =
       [state |-> "asked",
        sent |-> IF deletion[s] = "answered" THEN "after" ELSE "before"]]
  /\ UNCHANGED <<row, expired, containers, making, cycle, deletion, faults>>

(* The look-up: the status first, then the container; 500 if it throws.    *)
Verdict(s) ==
  IF row[s].status # "ACTIVE" THEN "refused"
  ELSE IF row[s].container = None THEN "notReady" ELSE "accepted"

LookUp(s) ==
  /\ exec[s].state = "asked"
  /\ \/ exec' = [exec EXCEPT ![s].state = Verdict(s)] /\ UNCHANGED faults
     \/ exec' = [exec EXCEPT ![s].state = "failed"] /\ Fault
  /\ UNCHANGED <<row, expired, containers, making, cycle, deletion>>

-----------------------------------------------------------------------------
(* createSessionContainer: nothing undoes the container of a failed call.  *)
Made(s, outcome) == making' = [making EXCEPT ![s] = outcome]

(* createContainer and start.                                              *)
MakeContainer(s) ==
  /\ s \in Provisioned
  /\ Exists(s)
  /\ making[s] = "idle"
  /\ \/ containers' = containers \cup {s} /\ Made(s, "store") /\ UNCHANGED faults
     \/ /\ Fault
        /\ containers' \in {containers, containers \cup {s}}
        /\ Made(s, "failed")
  /\ UNCHANGED <<row, expired, cycle, deletion, exec>>

StoreReactivates(s) ==
  /\ making[s] = "store"
  /\ \/ Write(s, [status |-> "ACTIVE", container |-> s]) /\ Made(s, "done")
     \/ WriteFails(s, [status |-> "ACTIVE", container |-> s]) /\ Made(s, "failed")
  /\ UNCHANGED <<expired, containers, cycle, deletion, exec>>

(* The update of containerId, whatever became of the session meanwhile.    *)
StoreContainer(s) ==
  /\ making[s] = "store"
  /\ LET named == [row[s] EXCEPT !.container = s] IN
       \/ Write(s, named) /\ Made(s, "done")
       \/ WriteFails(s, named) /\ Made(s, "failed")
  /\ UNCHANGED <<expired, containers, deletion, cycle, exec>>

-----------------------------------------------------------------------------
(* One reaper cycle: a snapshot of the expired sessions, then              *)
(* destroySessionContainer for each; what one throws, the loop logs.       *)
Turn(c, r) == cycle' = [cycle EXCEPT ![c] = r]

Select(c) ==
  /\ cycle[c] = Resting
  /\ Turn(c, [Resting EXCEPT !.left = {s \in expired : row[s].status = "ACTIVE"}])
  /\ UNCHANGED <<row, expired, containers, making, deletion, exec, faults>>

FindAndMark(c) ==
  /\ cycle[c].pc = "loop"
  /\ \E s \in cycle[c].left :
       /\ row[s].container # None
       /\ Write(s, [status |-> "DESTROYED", container |-> None])
       /\ Turn(c, [pc |-> "remove", left |-> cycle[c].left \ {s}, at |-> s])
  /\ UNCHANGED <<expired, containers, making, deletion, exec>>

(* findUnique; without a container id there is nothing to destroy and the  *)
(* row is left as it is.                                                   *)
Find(c) ==
  /\ cycle[c].pc = "loop"
  /\ \E s \in cycle[c].left :
       LET rest == [cycle[c] EXCEPT !.left = @ \ {s}] IN
         \/ /\ row[s].container # None
            /\ Turn(c, [rest EXCEPT !.pc = "remove", !.at = s])
            /\ UNCHANGED faults
         \/ row[s].container = None /\ Turn(c, rest) /\ UNCHANGED faults
         \/ Fault /\ Turn(c, rest)
  /\ UNCHANGED <<row, expired, containers, making, deletion, exec>>

RemoveRethrows(c) ==
  /\ cycle[c].pc = "remove"
  /\ \/ /\ cycle[c].at \in containers
        /\ containers' = containers \ {cycle[c].at}
        /\ Turn(c, [cycle[c] EXCEPT !.pc = "mark"])
     \/ /\ cycle[c].at \notin containers
        /\ Turn(c, [cycle[c] EXCEPT !.pc = "loop", !.at = None])
        /\ UNCHANGED containers
  /\ UNCHANGED <<row, expired, making, deletion, exec, faults>>

(* stop, then remove({force}); a container that is already gone or a       *)
(* failing request is an error that is caught, and the update follows.     *)
Remove(c) ==
  /\ cycle[c].pc = "remove"
  /\ \/ containers' = containers \ {cycle[c].at} /\ UNCHANGED faults
     \/ Fault /\ UNCHANGED containers
  /\ Turn(c, [cycle[c] EXCEPT !.pc = "mark"])
  /\ UNCHANGED <<row, expired, making, deletion, exec>>

MarkExpired(c) ==
  /\ cycle[c].pc = "mark"
  /\ Write(cycle[c].at, [status |-> "EXPIRED", container |-> None])
  /\ Turn(c, [cycle[c] EXCEPT !.pc = "loop", !.at = None])
  /\ UNCHANGED <<expired, containers, making, deletion, exec>>

MarkStatusOnly(c) ==
  /\ cycle[c].pc = "mark"
  /\ Write(cycle[c].at, Deleted(cycle[c].at))
  /\ Turn(c, [cycle[c] EXCEPT !.pc = "loop", !.at = None])
  /\ UNCHANGED <<expired, containers, making, deletion, exec>>

Mark(c) ==
  /\ cycle[c].pc = "mark"
  /\ LET gone == [status |-> "DESTROYED", container |-> None] IN
       Write(cycle[c].at, gone) \/ WriteFails(cycle[c].at, gone)
  /\ Turn(c, [cycle[c] EXCEPT !.pc = "loop", !.at = None])
  /\ UNCHANGED <<expired, containers, making, deletion, exec>>

Reap(c) == Select(c) \/ Find(c) \/ Remove(c) \/ Mark(c)

(* The worker dies in the middle of a cycle; the next starts over.         *)
Crash(c) ==
  /\ Fault
  /\ cycle[c] # Resting
  /\ Turn(c, Resting)
  /\ UNCHANGED <<row, expired, containers, making, deletion, exec>>

Next ==
  \/ \E s \in Sessions :
       \/ Open(s) \/ Expire(s) \/ Delete(s) \/ SendExec(s) \/ LookUp(s)
       \/ MakeContainer(s) \/ StoreContainer(s)
  \/ \E c \in Cycles : Reap(c) \/ Crash(c)

Spec == Init /\ [][Next]_vars

(* Timers fire (the reaper's interval, expiresAt) and awaited calls        *)
(* return.  Nobody owes a request.                                         *)
Fairness ==
  /\ \A c \in Cycles : WF_vars(Reap(c))
  /\ \A s \in Sessions :
       WF_vars(Expire(s)) /\ WF_vars(LookUp(s)) /\ WF_vars(StoreContainer(s))

FairSpec == Spec /\ Fairness

-----------------------------------------------------------------------------
(* As long as no call failed, no container is lost: each is still to be    *)
(* stored by the call that made it (session-manager.ts:51-59), or its row  *)
(* names it; the reaper forgets one only after removing it (:79, :85).     *)
NoOrphan ==
  faults = 0 =>
    \A s \in containers : making[s] = "store" \/ row[s].container = s

(* Even with failing calls and overlapping cycles, a session that is       *)
(* DESTROYED, which the reaper never looks at again, names a container     *)
(* only when a client deleted it (session.ts:155).                         *)
OnlyDeleteStrands ==
  \A s \in Sessions :
    row[s].status = "DESTROYED" /\ row[s].container # None => deletion[s] # "idle"

(* After an answered DELETE no exec is accepted, also when the container   *)
(* of the session is stored or reaped only then (session.ts:82-87).        *)
RefusedAfterDelete ==
  \A s \in Sessions : exec[s].sent = "after" => exec[s].state \in {"asked", "refused", "failed"}

(* The reaper ends every expired session with a container, whatever call   *)
(* failed or worker died on the way, and although a second attempt finds   *)
(* the container gone (session-manager.ts:76-83).                          *)
ExpiredIsReaped ==
  \A s \in Sessions :
    s \in expired /\ row[s].container # None ~> row[s].status = "DESTROYED"

(* session.ts:92 answers 'Session container not yet initialized. Try again *)
(* shortly.' to an exec that finds no container.                           *)
ReadyShortly ==
  \A s \in Sessions :
    exec[s].state = "notReady" ~> row[s].container # None \/ row[s].status = "DESTROYED"
=============================================================================
